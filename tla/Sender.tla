------------------------------- MODULE Sender -------------------------------
(***************************************************************************)
(* One sender node, src/task/sender/sender.go, and its formatter,          *)
(* src/task/formatter: tasks whose configurations differ only in the data  *)
(* ID share it, come and go, and get every package, each under its own     *)
(* data ID.  The manager's goroutine merges configurations and changes     *)
(* Outs while the sender's goroutine caches events and walks over a        *)
(* snapshot of Outs.                                                       *)
(*                                                                         *)
(* Module Delivery follows offsets through one such node; this one follows *)
(* the texts of events, the cache per source, the formats and the tasks.   *)
(* Events that carry a state only do not get here (input.go:182).          *)
(***************************************************************************)
EXTENDS TaskConfig, Sequences, SequencesExt

CONSTANTS Groups,    \* sets of configurations that share a sender
          Sources,
          Streams,   \* per source, the events of an input
          None, Empty,
          MaxStops   \* bound: tasks stopped

Tasks    == UNION Groups
Channels == Tasks \X (1 .. MaxStops + 1)

\* An event carries texts, or a single line among its fields (external).
HasTexts(e) == e.texts # <<>>
GetTexts(e) == IF HasTexts(e) THEN e.texts ELSE <<e.data>>
Count(e)    == Len(GetTexts(e))

Event   == [src : Sources, off : Nat, texts : Seq(STRING), data : STRING]
Item    == [data : STRING, index : Int \cup {None}]
DataIds == {t.dataid : t \in Tasks}

\* What is sent has a data ID; tqos and unifytlogc put one into two more
\* fields, source and destination, here `others'.
Data    == [dataid : DataIds, others : DataIds \cup {None}, items : Seq(Item)]
Sending == [state : Event, data : Data \cup {None}, left : SUBSET Channels]
Package == [src : Sources, off : Nat, dataid : DataIds \cup {None},
            others : DataIds \cup {None}, items : Seq(Item)]

\* An input splits a source into batches or into lines, not into both.
ASSUME SenderAssumption ==
    /\ \A g \in Groups : \A t, u \in g : SenderID(t) = SenderID(u)
    /\ \A t \in Tasks : {"dataid", "output_format", "package", "package_count"} \subseteq DOMAIN t
    /\ MaxStops \in Nat
    /\ Streams \subseteq [Sources -> Seq([texts : Seq(STRING), data : STRING])]
    /\ \A st \in Streams, s \in Sources : \A i, j \in DOMAIN st[s] :
          HasTexts(st[s][i]) <=> HasTexts(st[s][j])
    /\ None \notin Tasks /\ None \notin Data /\ None \notin Sending

VARIABLES
    group, stream,  \* the tasks there are, the events there will be
    node,           \* the sender is in the global map and runs
    config,         \* the task its formatter and sendConfig were made from
    configs,        \* taskConfigMaps: what is merged stays
    merging,        \* the task the manager is adding
    outs,           \* Outs: the tasks and their channels
    alive,          \* channels with a task goroutine behind them
    joins, stops,   \* channels made per task, tasks stopped
    taken,          \* per source, events received
    cache,          \* per source, events not sent yet
    flushing,       \* sources whose cache the tick still has to send
    sending,        \* the package in send, and the outs it is still for
    since,          \* per channel, the events that were sent before it
    received        \* per channel, the packages received

managerVars == <<group, stream, config, configs, merging, outs, alive, joins, stops, since>>
senderVars  == <<node, taken, cache, flushing, sending>>
vars == <<managerVars, senderVars, received>>

\* The channel of a task, and that of the task when it joins again.
Out(t)     == <<t, joins[t]>>
NextOut(t) == <<t, joins[t] + 1>>

NoCache == [s \in Sources |-> <<>>]

Init ==
    /\ group \in Groups /\ stream \in Streams
    /\ node = FALSE /\ config = None /\ configs = {} /\ merging = None
    /\ outs = {} /\ alive = {}
    /\ joins = [t \in group |-> 0] /\ stops = 0
    /\ taken = [s \in Sources |-> 0]
    /\ cache = NoCache /\ flushing = {} /\ sending = None
    /\ since = [c \in {} |-> taken] /\ received = [c \in {} |-> <<>>]

-----------------------------------------------------------------------------
(* Formatters.                                                             *)

\* An empty text is skipped, any other is sent.
Filled(text)    == IF text = Empty THEN <<>> ELSE <<text>>
NonEmpty(texts) == FlattenSeq([i \in DOMAIN texts |-> Filled(texts[i])])

\* The non-empty texts of several lists, which is what v1, tqos and
\* unifytlogc send.
Texts(lists) == FlattenSeq([i \in DOMAIN lists |-> NonEmpty(lists[i])])

Numbered(texts) == [i \in DOMAIN texts |-> [data |-> texts[i], index |-> i - 1]]
Plain(texts)    == [i \in DOMAIN texts |-> [data |-> texts[i], index |-> None]]

\* Mutant of V2Items: the position of a text counts the empty ones too.
V2ItemsByPosition(events) ==
    LET all == FlattenSeq([i \in DOMAIN events |-> GetTexts(events[i])])
    IN  SelectSeq(Numbered(all), LAMBDA item : item.data # Empty)

\* v2 numbers what it sends; the first event decides whether the texts or
\* the fields of all of them are sent, and fields are sent even when empty.
V2Items(events) ==
    IF HasTexts(events[1]) THEN Numbered(Texts([i \in DOMAIN events |-> events[i].texts]))
    ELSE Numbered([i \in DOMAIN events |-> events[i].data])

ItemsOf(events) ==
    IF config.output_format = "v2" THEN V2Items(events)
    ELSE Plain(Texts([i \in DOMAIN events |-> GetTexts(events[i])]))

NamesOthers(format) == format \in {"tqos", "unifytlogc"}

\* What Format makes of some events for the formatter's own task; nothing
\* (None) when there is nothing to send but the state of the last event.
Format(events) ==
    IF ItemsOf(events) = <<>> THEN None
    ELSE [dataid |-> config.dataid,
          others |-> IF NamesOthers(config.output_format) THEN config.dataid ELSE None,
          items  |-> ItemsOf(events)]

\* What send starts from.
Send(events) == [state |-> events[Len(events)], data |-> Format(events), left |-> outs]

-----------------------------------------------------------------------------
(* The manager adds and removes tasks.                                     *)

\* A task starts to read a channel; what has been taken is behind it, but not
\* what is cached.
Joins(t) ==
    /\ joins' = [joins EXCEPT ![t] = @ + 1]
    /\ outs' = outs \cup {NextOut(t)} /\ alive' = alive \cup {NextOut(t)}
    /\ since' = [c \in DOMAIN since \cup {NextOut(t)} |->
                    IF c = NextOut(t) THEN [s \in Sources |-> taken[s] - Len(cache[s])]
                    ELSE since[c]]
    /\ received' = [c \in DOMAIN received \cup {NextOut(t)} |->
                       IF c = NextOut(t) THEN <<>> ELSE received[c]]

\* The first task creates the node with its configuration (NewSender).
NewSender(t) ==
    /\ ~node /\ merging = None /\ t \in group
    /\ node' = TRUE
    /\ config' = t /\ configs' = {t}
    /\ Joins(t)
    /\ UNCHANGED <<group, stream, merging, stops, taken, cache, flushing, sending>>

\* Mutant of Merge: a sender that has its formatter merges nothing.
MergeNothing(t) ==
    /\ node /\ outs # {} /\ merging = None
    /\ t \in group /\ Out(t) \notin outs
    /\ merging' = t
    /\ UNCHANGED <<group, stream, config, configs, outs, alive, joins, stops, since,
                   senderVars, received>>

\* A later one finds it: its configuration is merged, the formatter stays
\* (GetSender, MergeSenderConfig).
Merge(t) ==
    /\ node /\ outs # {} /\ merging = None
    /\ t \in group /\ Out(t) \notin outs
    /\ merging' = t
    /\ configs' = configs \cup {t}
    /\ UNCHANGED <<group, stream, config, outs, alive, joins, stops, since,
                   senderVars, received>>

AddOutput ==
    /\ merging # None
    /\ Joins(merging)
    /\ merging' = None
    /\ UNCHANGED <<group, stream, config, configs, stops, senderVars>>

\* A stopped task leaves Outs; its goroutine ends a little later.
RemoveOutput(t) ==
    /\ merging = None /\ t \in group /\ Out(t) \in outs /\ stops < MaxStops
    /\ outs' = outs \ {Out(t)}
    /\ stops' = stops + 1
    /\ UNCHANGED <<group, stream, config, configs, merging, alive, joins, since,
                   senderVars, received>>

\* Mutant of TaskEnds: the goroutine ends before the task has left Outs.
TaskEndsEarly(c) ==
    /\ c \in alive
    /\ alive' = alive \ {c}
    /\ UNCHANGED <<group, stream, config, configs, merging, outs, joins, stops, since,
                   senderVars, received>>

TaskEnds(c) ==
    /\ c \in alive \ outs
    /\ alive' = alive \ {c}
    /\ UNCHANGED <<group, stream, config, configs, merging, outs, joins, stops, since,
                   senderVars, received>>

\* Without outs the node ends, wherever its goroutine is, and what it has
\* cached is gone; the next task makes a new one.
Close ==
    /\ node /\ outs = {}
    /\ node' = FALSE /\ config' = None /\ configs' = {}
    /\ cache' = NoCache /\ flushing' = {} /\ sending' = None
    /\ UNCHANGED <<group, stream, merging, outs, alive, joins, stops, since, taken,
                   received>>

-----------------------------------------------------------------------------
(* The sender's goroutine (Run).                                           *)

Ready == node /\ sending = None /\ flushing = {}

\* Event number i of source s.
EventOf(s, i) ==
    [src |-> s, off |-> i, texts |-> stream[s][i].texts, data |-> stream[s][i].data]

Sum(counts) == FoldLeft(LAMBDA a, b : a + b, 0, counts)
Full(buffer) ==
    Sum([i \in DOMAIN buffer |-> Count(buffer[i])]) >= config.package_count

\* Mutant of CacheSend: the event that fills the cache is not in the package.
CacheSendWithoutLast(s) ==
    LET event  == EventOf(s, taken[s] + 1)
        buffer == Append(cache[s], event)
        first  == IF cache[s] = <<>> \/ ~config.package THEN <<event>> ELSE cache[s]
    IN  /\ Ready /\ taken[s] < Len(stream[s])
        /\ taken' = [taken EXCEPT ![s] = @ + 1]
        /\ IF ~config.package
           THEN sending' = Send(first) /\ UNCHANGED cache
           ELSE /\ sending' = IF Full(buffer) THEN Send(first) ELSE None
                /\ cache' = [cache EXCEPT ![s] = IF Full(buffer) THEN <<>> ELSE buffer]
        /\ UNCHANGED <<managerVars, node, flushing, received>>

\* It takes an event and sends the cache of the event's source once that
\* holds package_count texts, empty ones included (cacheSend).
CacheSend(s) ==
    LET event  == EventOf(s, taken[s] + 1)
        buffer == Append(cache[s], event)
    IN  /\ Ready /\ taken[s] < Len(stream[s])
        /\ taken' = [taken EXCEPT ![s] = @ + 1]
        /\ IF ~config.package
           THEN sending' = Send(<<event>>) /\ UNCHANGED cache
           ELSE /\ sending' = IF Full(buffer) THEN Send(buffer) ELSE None
                /\ cache' = [cache EXCEPT ![s] = IF Full(buffer) THEN <<>> ELSE buffer]
        /\ UNCHANGED <<managerVars, node, flushing, received>>

Waiting == {s \in Sources : cache[s] # <<>>}

\* Mutant of Tick: one source per second.
TickOne ==
    /\ Ready /\ Waiting # {}
    /\ flushing' = {CHOOSE s \in Sources : TRUE} \cap Waiting
    /\ UNCHANGED <<managerVars, node, taken, cache, sending, received>>

\* Once a second everything is sent, one source after the other.
Tick ==
    /\ Ready /\ Waiting # {}
    /\ flushing' = Waiting
    /\ UNCHANGED <<managerVars, node, taken, cache, sending, received>>

Flush(s) ==
    /\ node /\ sending = None /\ s \in flushing
    /\ sending' = Send(cache[s])
    /\ cache' = [cache EXCEPT ![s] = <<>>]
    /\ flushing' = flushing \ {s}
    /\ UNCHANGED <<managerVars, node, taken, received>>

\* Mutant of PackageFor: the data ID is left as the formatter set it.
PackageAsFormatted(t) ==
    [src |-> sending.state.src, off |-> sending.state.off,
     dataid |-> IF sending.data = None THEN None ELSE sending.data.dataid,
     others |-> IF sending.data = None THEN None ELSE sending.data.others,
     items |-> IF sending.data = None THEN <<>> ELSE sending.data.items]

\* The package of one task: its data ID replaces that of the formatter's task,
\* whose others stay; with no data it updates the progress only.
PackageFor(t) ==
    [src |-> sending.state.src, off |-> sending.state.off,
     dataid |-> IF sending.data = None THEN None ELSE t.dataid,
     others |-> IF sending.data = None THEN None ELSE sending.data.others,
     items |-> IF sending.data = None THEN <<>> ELSE sending.data.items]

\* One turn of the loop of send: an out without a configuration is skipped,
\* a channel without a reader blocks.
SendTo(c) ==
    /\ sending # None /\ c \in sending.left
    /\ c[1] \in configs => c \in alive
    /\ received' = IF c[1] \in configs
                   THEN [received EXCEPT ![c] = Append(@, PackageFor(c[1]))]
                   ELSE received
    /\ sending' = [sending EXCEPT !.left = @ \ {c}]
    /\ UNCHANGED <<managerVars, node, taken, cache, flushing>>

SendReturns ==
    /\ sending # None /\ sending.left = {}
    /\ sending' = None
    /\ UNCHANGED <<managerVars, node, taken, cache, flushing, received>>

Next ==
    \/ \E t \in Tasks : NewSender(t) \/ Merge(t) \/ RemoveOutput(t)
    \/ AddOutput \/ Close
    \/ \E c \in Channels : TaskEnds(c) \/ SendTo(c)
    \/ \E s \in Sources : CacheSend(s) \/ Flush(s)
    \/ Tick \/ SendReturns

\* The goroutine of the sender goes on whenever it can: its ticker fires, its
\* loops end, running tasks read their channels.  Nothing obliges events to
\* come or the manager to act.
Fairness ==
    /\ WF_vars(Tick) /\ WF_vars(SendReturns)
    /\ \A s \in Sources : WF_vars(Flush(s))
    /\ \A c \in Channels : WF_vars(SendTo(c))

Spec == Init /\ [][Next]_vars /\ Fairness

-----------------------------------------------------------------------------
(* Properties.                                                             *)

\* Every variable has its type.
TypeOK ==
    /\ group \in Groups /\ stream \in Streams
    /\ node \in BOOLEAN /\ config \in group \cup {None} /\ configs \subseteq group
    /\ merging \in group \cup {None}
    /\ outs \subseteq alive /\ alive \subseteq DOMAIN received
    /\ joins \in [group -> 0 .. MaxStops + 1] /\ stops \in 0 .. MaxStops
    /\ taken \in [Sources -> Nat]
    /\ \A s \in Sources : taken[s] <= Len(stream[s])
    /\ cache \in [Sources -> Seq(Event)] /\ flushing \subseteq Waiting
    /\ sending \in Sending \cup {None}
    /\ DOMAIN received \subseteq Channels
    /\ since \in [DOMAIN received -> [Sources -> Nat]]
    /\ \A c \in DOMAIN received : received[c] \in Seq(Package)

\* What the consumer of a task is to get of event i of source s: its texts
\* that are not empty, or in v2 its fields if it has no texts.
Wanted(s, i) ==
    LET e == stream[s][i]
        t == CHOOSE t \in group : TRUE
    IN  IF ~HasTexts(e) /\ t.output_format = "v2" THEN <<e.data>>
        ELSE NonEmpty(GetTexts(e))

WantedOf(s, from, to) ==
    FlattenSeq([i \in 1 .. to - from |-> Wanted(s, from + i)])

\* The last event of s that a task knows of before its i-th package, if it
\* joined behind event number start.
Known(packages, s, start, i) ==
    LET earlier == {j \in 1 .. i - 1 : packages[j].src = s}
    IN  IF earlier = {} THEN start ELSE packages[Max(earlier)].off

Got(c, s) == Known(received[c], s, since[c][s], Len(received[c]) + 1)

DataOf(items) == [i \in DOMAIN items |-> items[i].data]

\* Of each source a task gets one uninterrupted run of texts, in order and
\* none twice, beginning where it joined; the state of a package stands for
\* exactly the texts up to it, so that progress never covers a text that is
\* not in a package.
PackagesInOrder ==
    \A c \in DOMAIN received : \A i \in DOMAIN received[c] :
        LET p      == received[c][i]
            before == Known(received[c], p.src, since[c][p.src], i)
        IN  /\ before < p.off
            /\ DataOf(p.items) = WantedOf(p.src, before, p.off)

\* For a task in Outs, what it has received, what send still has for it and
\* what is cached make up all that was taken since it joined, although it
\* joins and others leave while the sender sends.
NothingDropped ==
    \A c \in outs : \A s \in Sources :
        LET pending == IF sending # None /\ c \in sending.left /\ sending.state.src = s
                       THEN sending.state.off ELSE Got(c, s)
        IN  taken[s] = pending + Len(cache[s])

\* Source and destination are data IDs of the group's tasks in the formats that
\* name them: of the task that made the node, even if another gets the package.
OthersFit(others, items, format) ==
    IF items = <<>> \/ ~NamesOthers(format) THEN others = None
    ELSE others \in {t.dataid : t \in group}

\* A package with data carries the data ID of the task that gets it, and v2
\* numbers its items from zero without a gap; without data it has neither.
\* Only the source and the destination of tqos and unifytlogc may be those of
\* another task, and then of one that shares the sender (send, Format).
WellFormed ==
    \A c \in DOMAIN received : \A i \in DOMAIN received[c] :
        LET p == received[c][i]
        IN  /\ p.dataid = IF p.items = <<>> THEN None ELSE c[1].dataid
            /\ OthersFit(p.others, p.items, c[1].output_format)
            /\ c[1].output_format = "v2" =>
                  \A j \in DOMAIN p.items : p.items[j].index = j - 1

\* As long as no task is stopped, every event taken reaches every task that
\* was there, in a package or as progress, without waiting for another event:
\* again and again all tasks have everything.
EverythingLeaves ==
    \/ <>(stops > 0)
    \/ []<>(\A c \in outs : \A s \in Sources : Got(c, s) = taken[s])
=============================================================================
