------------------------------ MODULE Delivery ------------------------------
(***************************************************************************)
(* From a line of a log file to durable progress: one input and the chain  *)
(* of goroutines behind it (src/task/input, filter, processor, sender and  *)
(* src/task/task.go), the publisher of the framework (external), the       *)
(* callback of src/beater/acker.go and the registry, through a crash of    *)
(* the process and a reload of its tasks (src/beater/manager.go).          *)
(*                                                                         *)
(* The chain is linked by unbuffered channels, so each of its goroutines   *)
(* holds at most one event; the sender also holds a cache per file.  All   *)
(* tasks of the instance share the chain: they differ in their output      *)
(* only.  The registry appears as the store it implements (ProgressStore), *)
(* its Channel as the one batch it can hold.  Offsets count lines.         *)
(***************************************************************************)
EXTENDS Integers, Sequences, FiniteSets

CONSTANTS Files, Tasks, None,
          MaxLine,        \* every file has this many lines
          Excluded,       \* <<file, line>> the runner reports by state only
          Unmatched,      \* <<file, line>> the filter drops
          CanPackage,     \* the sender packs lines,
          PackageCount,   \*   this many at a time
          QueueSize,      \* capacity of the publisher's queue
          MaxCrashes, MaxReloads    \* bounds of the instance

ASSUME DeliveryAssumption ==
    /\ MaxLine \in Nat /\ MaxCrashes \in Nat /\ MaxReloads \in Nat
    /\ PackageCount \in Int /\ QueueSize \in Nat \ {0}
    /\ CanPackage \in BOOLEAN
    /\ Excluded \subseteq Files \X (1 .. MaxLine)
    /\ Unmatched \subseteq Files \X (1 .. MaxLine)

Lines   == 1 .. MaxLine
Offsets == 0 .. MaxLine
Event   == [src : Files, off : Lines]

\* What travels from the sender to the publisher: the lines of one file and
\* the state (here: the offset) of the last of them.
Package == [src : Files, off : Lines, lines : SUBSET Lines]

\* No event, package, task or file position is mistaken for None.
ASSUME NoneAssumption ==
    /\ None \notin Event /\ None \notin Package
    /\ None \notin [package : Package, left : SUBSET Tasks]
    /\ None \notin Tasks /\ None \notin Offsets

VARIABLES
    manager,    \* "down", "running", "reloading", "closed" (chain ended)
    outs,       \* tasks in the sender's Outs
    stopping,   \* the task a reload is stopping
    read,       \* how far the runner has read each file
    input, filter, processor,   \* the event each goroutine holds
    cache,      \* the sender's cache, per file
    flushing,   \* files whose cache the sender's ticker is about to send
    sending,    \* the package the sender is handing to its outs
    out,        \* the package each task goroutine is publishing
    queue,      \* the publisher's queue: the first `sent' are delivered
    sent,
    channel,    \* Registrar.Channel: a batch of acknowledged states
    live, staged, saved,        \* the registry
    lastStates, \* the states a reload took from the registry
    delivered,  \* lines delivered to each task, ever
    crashes, reloads

chainVars    == <<input, filter, processor, cache, flushing, sending>>
pipeVars     == <<queue, sent, channel>>
registryVars == <<live, staged, saved>>
countVars    == <<crashes, reloads>>
managerVars == <<manager, outs, stopping>>
vars == <<managerVars, read, chainVars, out, pipeVars, registryVars, lastStates,
          delivered, countVars>>

Store == INSTANCE ProgressStore
    WITH Ids <- Files, up <- manager # "down"

\* Where a runner starts reading, given the states it was created with.
From(states) == [f \in Files |-> IF states[f] = None THEN 0 ELSE states[f]]

EmptyChain ==
    /\ input' = None /\ filter' = None /\ processor' = None
    /\ cache' = [f \in Files |-> <<>>]
    /\ flushing' = {}
    /\ sending' = None

Init ==
    /\ manager = "down" /\ outs = {} /\ stopping = None
    /\ read = [f \in Files |-> 0]
    /\ input = None /\ filter = None /\ processor = None
    /\ cache = [f \in Files |-> <<>>]
    /\ flushing = {}
    /\ sending = None
    /\ out = [t \in Tasks |-> None]
    /\ queue = <<>> /\ sent = 0
    /\ channel = <<>>
    /\ live = Store!Blank /\ staged = Store!Blank /\ saved = Store!Blank
    /\ lastStates = Store!Blank
    /\ delivered = [t \in Tasks |-> {}]
    /\ crashes = 0 /\ reloads = 0

-----------------------------------------------------------------------------
(* The process starts and crashes.                                         *)

\* The registry loads its states, and the tasks start from them.
Run ==
    /\ manager = "down"
    /\ manager' = "running" /\ outs' = Tasks /\ UNCHANGED stopping
    /\ Store!Start
    /\ read' = From(live')
    /\ UNCHANGED <<chainVars, out, pipeVars, lastStates, delivered, countVars>>

Crash ==
    /\ manager # "down" /\ crashes < MaxCrashes
    /\ crashes' = crashes + 1
    /\ manager' = "down" /\ outs' = {} /\ stopping' = None
    /\ Store!Fail
    /\ EmptyChain
    /\ out' = [t \in Tasks |-> None]
    /\ queue' = <<>> /\ sent' = 0 /\ channel' = <<>>
    /\ lastStates' = Store!Blank
    /\ UNCHANGED <<read, delivered, reloads>>

-----------------------------------------------------------------------------
(* The chain.                                                              *)

\* The input goroutine is at its select and its End is open.
InputReady == manager \in {"running", "reloading"} /\ input = None

\* The runner delivers the next line (OnEvent), and the goroutine takes it.
OnEvent(f) ==
    /\ InputReady
    /\ read[f] < MaxLine
    /\ <<f, read[f] + 1>> \notin Excluded
    /\ read' = [read EXCEPT ![f] = @ + 1]
    /\ input' = [src |-> f, off |-> read[f] + 1]
    /\ UNCHANGED <<managerVars, filter, processor, cache, flushing, sending, out,
                   pipeVars, registryVars, lastStates, delivered, countVars>>

\* An event without fields only carries a state: the input goroutine
\* publishes it itself, past the chain.
OnStateEvent(f) ==
    /\ InputReady
    /\ read[f] < MaxLine
    /\ <<f, read[f] + 1>> \in Excluded
    /\ Len(queue) < QueueSize
    /\ read' = [read EXCEPT ![f] = @ + 1]
    /\ queue' = Append(queue, [task |-> None, lines |-> {},
                               src |-> f, off |-> read[f] + 1])
    /\ UNCHANGED <<managerVars, chainVars, out, sent, channel, registryVars,
                   lastStates, delivered, countVars>>

InputToFilter ==
    /\ input # None /\ filter = None
    /\ filter' = input
    /\ input' = None
    /\ UNCHANGED <<managerVars, read, processor, cache, flushing, sending, out,
                   pipeVars, registryVars, lastStates, delivered, countVars>>

\* A line that matches no rule of any task stops here.
FilterDrops ==
    /\ filter # None
    /\ <<filter.src, filter.off>> \in Unmatched
    /\ filter' = None
    /\ UNCHANGED <<managerVars, read, input, processor, cache, flushing, sending,
                   out, pipeVars, registryVars, lastStates, delivered, countVars>>

FilterToProcessor ==
    /\ filter # None /\ processor = None
    /\ <<filter.src, filter.off>> \notin Unmatched
    /\ processor' = filter
    /\ filter' = None
    /\ UNCHANGED <<managerVars, read, input, cache, flushing, sending, out,
                   pipeVars, registryVars, lastStates, delivered, countVars>>

\* The sender is at its select: it is sending nothing.
SenderReady == sending = None /\ flushing = {}

\* The package of some events: the state is that of the last one.
Pack(events) == [src   |-> events[Len(events)].src,
                 off   |-> events[Len(events)].off,
                 lines |-> {events[i].off : i \in DOMAIN events}]

\* What send starts from: its package, for the outs of this moment.
Send(events) == [package |-> Pack(events),
                 left    |-> outs]

\* Mutant of CacheSend: a full cache is replaced by the event that filled it.
CacheSendForgets ==
    LET event  == processor
        buffer == Append(cache[event.src], event)
        full   == ~CanPackage \/ Len(buffer) >= PackageCount
    IN  /\ processor # None /\ SenderReady
        /\ processor' = None
        /\ sending' = IF full THEN Send(<<event>>) ELSE sending
        /\ cache' = [cache EXCEPT ![event.src] = IF full THEN <<>> ELSE buffer]
        /\ UNCHANGED <<managerVars, read, input, filter, flushing, out, pipeVars,
                       registryVars, lastStates, delivered, countVars>>

\* Mutant of CacheSend: it sends when the cache is more than full.
CacheSendLate ==
    LET event  == processor
        buffer == Append(cache[event.src], event)
        full   == ~CanPackage \/ Len(buffer) > PackageCount
    IN  /\ processor # None /\ SenderReady
        /\ processor' = None
        /\ sending' = IF full THEN Send(buffer) ELSE sending
        /\ cache' = [cache EXCEPT ![event.src] = IF full THEN <<>> ELSE buffer]
        /\ UNCHANGED <<managerVars, read, input, filter, flushing, out, pipeVars,
                       registryVars, lastStates, delivered, countVars>>

\* The sender takes an event: the cache of the event's file is sent when it
\* is full; a sender that may not package sends every event alone and has no
\* cache (cacheSend).
CacheSend ==
    LET event  == processor
        buffer == Append(cache[event.src], event)
        full   == ~CanPackage \/ Len(buffer) >= PackageCount
    IN  /\ processor # None /\ SenderReady
        /\ processor' = None
        /\ sending' = IF full THEN Send(buffer) ELSE sending
        /\ cache' = [cache EXCEPT ![event.src] = IF full THEN <<>> ELSE buffer]
        /\ UNCHANGED <<managerVars, read, input, filter, flushing, out, pipeVars,
                       registryVars, lastStates, delivered, countVars>>

\* Mutant of SenderTick: only full caches are sent.
SenderTickFull ==
    /\ SenderReady
    /\ \E f \in Files : Len(cache[f]) >= PackageCount
    /\ flushing' = {f \in Files : cache[f] # <<>>}
    /\ UNCHANGED <<managerVars, read, input, filter, processor, cache, sending, out,
                   pipeVars, registryVars, lastStates, delivered, countVars>>

\* Once a second the sender sends every cache, one after the other.
SenderTick ==
    /\ SenderReady
    /\ \E f \in Files : cache[f] # <<>>
    /\ flushing' = {f \in Files : cache[f] # <<>>}
    /\ UNCHANGED <<managerVars, read, input, filter, processor, cache, sending, out,
                   pipeVars, registryVars, lastStates, delivered, countVars>>

SenderFlush(f) ==
    /\ sending = None /\ f \in flushing
    /\ sending' = Send(cache[f])
    /\ cache' = [cache EXCEPT ![f] = <<>>]
    /\ flushing' = flushing \ {f}
    /\ UNCHANGED <<managerVars, read, input, filter, processor, out, pipeVars,
                   registryVars, lastStates, delivered, countVars>>

\* A task's goroutine runs until the reload that stops it has waited for it.
Alive(t) == t \in outs \/ t = stopping

\* send hands the package to one of the outs that are left, in any order;
\* the channel of a task that has ended has no reader any more.
SendToTask(t) ==
    /\ sending # None /\ t \in sending.left /\ Alive(t) /\ out[t] = None
    /\ out' = [out EXCEPT ![t] = sending.package]
    /\ sending' = [sending EXCEPT !.left = @ \ {t}]
    /\ UNCHANGED <<managerVars, read, input, filter, processor, cache, flushing,
                   pipeVars, registryVars, lastStates, delivered, countVars>>

SendReturns ==
    /\ sending # None /\ sending.left = {}
    /\ sending' = None
    /\ UNCHANGED <<managerVars, read, input, filter, processor, cache, flushing, out,
                   pipeVars, registryVars, lastStates, delivered, countVars>>

\* The task goroutine publishes its event (beat.SendEvent), which waits
\* while the publisher's queue is full.
SendEvent(t) ==
    /\ out[t] # None /\ Len(queue) < QueueSize
    /\ queue' = Append(queue, [task |-> t, lines |-> out[t].lines,
                               src |-> out[t].src, off |-> out[t].off])
    /\ out' = [out EXCEPT ![t] = None]
    /\ UNCHANGED <<managerVars, read, chainVars, sent, channel, registryVars,
                   lastStates, delivered, countVars>>

-----------------------------------------------------------------------------
(* The publisher (external) and the way back.                              *)

\* The publisher delivers its queue in order, retrying until it succeeds.
Publish ==
    /\ sent < Len(queue)
    /\ sent' = sent + 1
    /\ delivered' = [t \in Tasks |->
                       IF t = queue[sent + 1].task
                       THEN delivered[t] \cup ({queue[sent + 1].src}
                                                \X queue[sent + 1].lines)
                       ELSE delivered[t]]
    /\ UNCHANGED <<managerVars, read, chainVars, out, queue, channel, registryVars,
                   lastStates, countVars>>

\* Mutant of AckEvents: what was acknowledged still counts as sent.
AckEventsTwice(n) ==
    /\ n \in 1 .. sent /\ channel = <<>>
    /\ channel' = [i \in 1 .. n |-> [src |-> queue[i].src, off |-> queue[i].off]]
    /\ queue' = SubSeq(queue, n + 1, Len(queue))
    /\ UNCHANGED <<sent, managerVars, read, chainVars, out, registryVars, lastStates,
                   delivered, countVars>>

\* It acknowledges the oldest of what it has delivered; the callback keeps
\* the states, in order, and waits while the registry's channel is full.
AckEvents(n) ==
    /\ n \in 1 .. sent /\ channel = <<>>
    /\ channel' = [i \in 1 .. n |-> [src |-> queue[i].src, off |-> queue[i].off]]
    /\ queue' = SubSeq(queue, n + 1, Len(queue))
    /\ sent' = sent - n
    /\ UNCHANGED <<managerVars, read, chainVars, out, registryVars, lastStates,
                   delivered, countVars>>

\* Mutant of LastOf: the first state of the batch stays.
FirstOf(f) ==
    LET own   == {i \in DOMAIN channel : channel[i].src = f}
        first == CHOOSE i \in own : \A j \in own : j >= i
    IN  IF own = {} THEN live[f] ELSE channel[first].off

\* The last state of each file in the batch.
LastOf(f) ==
    LET own  == {i \in DOMAIN channel : channel[i].src = f}
        last == CHOOSE i \in own : \A j \in own : j <= i
    IN  IF own = {} THEN live[f] ELSE channel[last].off

OnEvents ==
    /\ channel # <<>>
    /\ live' = [f \in Files |-> LastOf(f)]
    /\ channel' = <<>>
    /\ UNCHANGED <<managerVars, read, chainVars, out, queue, sent, staged, saved,
                   lastStates, delivered, countVars>>

Flush ==
    /\ UNCHANGED managerVars
    /\ Store!Flush({})
    /\ UNCHANGED <<read, chainVars, out, pipeVars, lastStates,
                   delivered, countVars>>

Sync ==
    /\ UNCHANGED managerVars
    /\ Store!Sync
    /\ UNCHANGED <<read, chainVars, out, pipeVars, lastStates,
                   delivered, countVars>>

-----------------------------------------------------------------------------
(* A reload that replaces the tasks (their configuration changed).         *)

\* The manager takes the registry's states before it stops anything.
Reload ==
    /\ manager = "running" /\ reloads < MaxReloads
    /\ reloads' = reloads + 1
    /\ manager' = "reloading"
    /\ lastStates' = live
    /\ UNCHANGED <<outs, stopping, read, chainVars, out, pipeVars, registryVars,
                   delivered, crashes>>

\* It stops one task after the other.  Stop removes the task from the
\* sender's outs first: what the sender sends from here on passes it by.
RemoveOutput(t) ==
    /\ manager = "reloading" /\ stopping = None /\ t \in outs
    /\ outs' = outs \ {t}
    /\ stopping' = t
    /\ UNCHANGED <<manager, read, chainVars, out, pipeVars, registryVars,
                   lastStates, delivered, countVars>>

\* With the last out the chain ends, and what it holds is dropped.
CloseChain ==
    /\ manager = "reloading" /\ stopping # None /\ outs = {}
    /\ manager' = "closed"
    /\ EmptyChain
    /\ UNCHANGED <<outs, stopping, read, out, pipeVars, registryVars, lastStates,
                   delivered, countVars>>

\* Then Stop ends the task's goroutine, which first publishes what it holds.
TaskEnds ==
    /\ outs # {} \/ manager = "closed"
    /\ stopping # None /\ out[stopping] = None
    /\ stopping' = None
    /\ UNCHANGED <<manager, outs, read, chainVars, out, pipeVars, registryVars,
                   lastStates, delivered, countVars>>

\* Mutant of StartTasks: the new runner goes on where the old one was.
StartTasksWhereRead ==
    /\ manager = "closed" /\ stopping = None
    /\ manager' = "running" /\ outs' = Tasks
    /\ lastStates' = Store!Blank
    /\ UNCHANGED <<stopping, read, chainVars, out, pipeVars, registryVars, delivered,
                   countVars>>

\* Stop waits for the task goroutines; then the new tasks start, with the
\* states taken at the beginning.
StartTasks ==
    /\ manager = "closed" /\ stopping = None
    /\ manager' = "running" /\ outs' = Tasks
    /\ read' = From(lastStates)
    /\ lastStates' = Store!Blank
    /\ UNCHANGED <<stopping, chainVars, out, pipeVars, registryVars, delivered,
                   countVars>>

-----------------------------------------------------------------------------

Next ==
    \/ Run \/ Crash
    \/ \E f \in Files : OnEvent(f) \/ OnStateEvent(f) \/ SenderFlush(f)
    \/ InputToFilter \/ FilterDrops \/ FilterToProcessor
    \/ CacheSend \/ SenderTick \/ SendReturns
    \/ \E t \in Tasks : SendToTask(t) \/ SendEvent(t) \/ RemoveOutput(t)
    \/ Publish
    \/ \E n \in 1 .. QueueSize : AckEvents(n)
    \/ OnEvents \/ Flush \/ Sync
    \/ Reload \/ CloseChain \/ TaskEnds \/ StartTasks

\* Every goroutine that can take its step eventually does; a process that is
\* down is restarted; the runner keeps reading.  Crash and Reload are free.
Fairness ==
    /\ WF_vars(Run)
    /\ \A f \in Files : WF_vars(OnEvent(f)) /\ WF_vars(OnStateEvent(f))
                        /\ WF_vars(SenderFlush(f))
    /\ WF_vars(InputToFilter) /\ WF_vars(FilterDrops) /\ WF_vars(FilterToProcessor)
    /\ WF_vars(CacheSend) /\ WF_vars(SenderTick) /\ WF_vars(SendReturns)
    /\ \A t \in Tasks : WF_vars(SendToTask(t)) /\ WF_vars(SendEvent(t))
    /\ WF_vars(Publish)
    /\ WF_vars(\E n \in 1 .. QueueSize : AckEvents(n))
    /\ WF_vars(OnEvents) /\ WF_vars(Flush) /\ WF_vars(Sync)
    /\ WF_vars(\E t \in Tasks : RemoveOutput(t))
    /\ WF_vars(CloseChain) /\ WF_vars(TaskEnds) /\ WF_vars(StartTasks)

Spec == Init /\ [][Next]_vars /\ Fairness

-----------------------------------------------------------------------------
(* Properties.                                                             *)

TypeOK ==
    /\ manager \in {"down", "running", "reloading", "closed"}
    /\ outs \subseteq Tasks /\ stopping \in Tasks \cup {None}
    /\ read \in [Files -> Offsets]
    /\ {input, filter, processor} \subseteq Event \cup {None}
    /\ cache \in [Files -> Seq(Event)]
    /\ flushing \subseteq Files
    /\ sending \in [package : Package, left : SUBSET Tasks] \cup {None}
    /\ out \in [Tasks -> Package \cup {None}]
    /\ queue \in Seq([task : Tasks \cup {None}, src : Files, off : Lines,
                      lines : SUBSET Lines])
    /\ sent \in 0 .. Len(queue)
    /\ channel \in Seq([src : Files, off : Lines])
    /\ {live, staged, saved, lastStates} \subseteq [Files -> Offsets \cup {None}]
    /\ delivered \in [Tasks -> SUBSET (Files \X Lines)]
    /\ crashes \in 0 .. MaxCrashes /\ reloads \in 0 .. MaxReloads

\* Lines some task must get: neither excluded by the runner nor filtered out.
Wanted == (Files \X Lines) \ (Excluded \cup Unmatched)

\* All wanted lines up to the offset have been delivered to every task.
Covered(f, off) ==
    \A t \in Tasks, l \in Lines :
        l <= off /\ <<f, l>> \in Wanted => <<f, l>> \in delivered[t]

\* "Events are sent at least once" (AckEvents): the progress the registry
\* holds in memory, in the store or on disk, and hence the place where a
\* restart or a reload resumes, never passes a line that some task has not
\* been delivered.
AtLeastOnce ==
    \A f \in Files, states \in {live, staged, saved, lastStates} :
        states[f] # None => Covered(f, states[f])

\* The chain, the publisher, the registry, crashes and reloads together
\* implement module Collection for every task and file: no step takes a
\* delivery back, and none records a mark past a wanted line that is missing.
Promise == INSTANCE Collection
    WITH Streams   <- Tasks \X Files,
         Last      <- MaxLine,
         Wanted    <- [s \in Tasks \X Files |-> {l \in Lines : <<s[2], l>> \in Wanted}],
         delivered <- [s \in Tasks \X Files |->
                         {l \in Lines : <<s[2], l>> \in delivered[s[1]]}],
         resume    <- [s \in Tasks \X Files |->
                         {live[s[2]], staged[s[2]], saved[s[2]], lastStates[s[2]]}
                         \ {None}]

CollectsAll == Promise!CSpec

\* A line that a task has not been delivered is in the process, in one of the
\* places it can be on its way to the task, or will still be read for it:
\* no goroutine and no step of a reload drops a line for good.
InFlight(t) ==
    LET held == {e \in {input, filter, processor} : e # None}
        cached == UNION {{cache[f][i] : i \in DOMAIN cache[f]} : f \in Files}
        packages == (IF sending # None /\ t \in sending.left
                     THEN {sending.package} ELSE {})
                    \cup ({out[t]} \ {None})
                    \cup {queue[i] : i \in {j \in DOMAIN queue : queue[j].task = t}}
    IN  {<<e.src, e.off>> : e \in held \cup cached}
        \cup UNION {{p.src} \X p.lines : p \in packages}

Resume(t, f) == IF t \in outs THEN read[f] ELSE From(lastStates)[f]

NothingForgotten ==
    manager # "down" =>
        \A t \in Tasks, line \in Wanted :
            \/ line \in delivered[t] \cup InFlight(t)
            \/ line[2] > Resume(t, line[1])

\* The sender never holds a full package back: the caches of a sender that
\* packages stay below the package size, and one that does not has none.
CacheBelowPackage ==
    \A f \in Files : cache[f] = <<>> \/ (CanPackage /\ Len(cache[f]) < PackageCount)

\* Every line of every file is delivered to every task in the end.
EventuallyDelivered ==
    \A t \in Tasks, line \in Wanted : <>(line \in delivered[t])

\* The progress of a file that ends in a wanted line is on disk in the end,
\* so that a later restart repeats nothing of it.
EventuallyDurable ==
    \A f \in Files : <<f, MaxLine>> \in Wanted => <>[](saved[f] = MaxLine)
=============================================================================
