# A formal model of bkunifylogbeat

bkunifylogbeat collects log files, redis slow logs and Windows event logs on a
host and sends them on.  It is built on filebeat and libbeat (a framework fork
called libgse), which read the files and publish the events; the repository
itself is what lies between: tasks and their reloads, a shared tree of
processing nodes, the registry of collection progress, a CPU limiter.  This
directory models that part in TLA+, checks the models with TLC and proves with
TLAPS what can be proved for every value of the constants.

Paths below are relative to `src/`.

## 1. The system

### Components, their state and operations

| component | code | state | operations |
|---|---|---|---|
| main loop | `beater/beater.go` | `config`, `isReload`, `lastTaskHash` | signal, reload tick, diff tick, end |
| manager | `beater/manager.go` | `tasks`, the states taken at a reload | `Start`, `Reload`, `startTask`, `removeTask`, `Stop` |
| node tree | `task/base`, `task/{input,filter,processor,sender}`, `task/task.go` | one map of nodes per level; per node `Outs`, `End`, `GameOver` | create or find a node, `AddOutput`, `RemoveOutput`, `Run` |
| delivery chain | the same files seen as goroutines | the event each goroutine holds, the sender's cache per file | receive, filter, package, send, flush by ticker |
| acknowledgement | `beater/acker.go` | none | `AckEvents` turns acknowledged events into a batch of states |
| registry | `registrar/registrar.go` | `states`, `stateIDCache`, `gcRequired`, the key-value store | `Init`, `onEvents`, `gcStates`, `flushRegistry`, `Stop` |
| CPU limiter | `utils/cpulimit*.go`, the gate in `task/input/input.go` | `GlobalCpuLimiter`, `IsEnableRateLimiter`, a window of usage | `SetResourceLimit`, tick, `Allow` |
| filter rules | `config/task.go`, `config/operator.go`, `task/filter/filter.go` | rules of the linked tasks, `filterMaxIndex` | merge, remove, filter a line or a batch |
| sender contents | `task/sender/sender.go`, `task/formatter/*.go` | the cache per source, `taskConfigMaps`, the formatter of its first task | merge a task, cache and send, flush by ticker, format, fan out |
| configuration | `config/*.go` | none | parse, defaults, merge of files, hashes that name tasks and nodes |
| Windows event log input | `task/input/wineventlog/*.go` | one reading goroutine per log with its position | create, run, `OnEvent`, stop, convert records |
| codecs, clock, hashing | `json`, `utils` | none | rendering |

### How they interact

    framework --signal--> main loop --Reload--> manager --NewTask/Stop--> node tree
                                                   |                         |
                                     registry.GetStates          runner -> input -> filter
                                                   |              -> processor -> sender -> task
      registry <--batch-- AckEvents <--ack-- publisher <--SendEvent---------------+
         |
      key-value store (libgse storage: buffered, persisted periodically)

Tasks whose configurations have equal parts share nodes: the ID of a node is a
hash of its part of the configuration and of the parts above it.  Every node has
a goroutine; nodes are linked by unbuffered channels held in the upper node's
`Outs`.  An event carries the state of its file (how far it has been read); when
the publisher has delivered it, `AckEvents` hands the state to the registry, and
the next restart or reload reads on from there.  What must not go wrong is the
relation between the two ways: progress must not overtake delivery.

### What is hard here

* **Progress against delivery.**  Events wait in six places (four goroutines,
  the sender's cache, the publisher's queue) while others overtake; a crash or a
  reload may come at any moment.
* **An incremental, buffered registry.**  A flush writes only the IDs in
  `stateIDCache`; collection deletes key by key; the store loses its buffer in a
  crash; the ID of a file depends on an option that may change.
* **A tree that is pruned while events pass.**  The manager waits inside
  `RemoveOutput` for goroutines that may be blocked on channels of nodes that
  have just gone.
* **Two triggers of a reload** with different ideas of what was loaded last.
* **A gate that opens and closes on its own clock** and is replaced by reloads.
* **One split of a line for the rules of several tasks**, bounded by an index
  that depends on all of them.
* **One sender for several tasks**: it packs texts by count, formats drop some of
  them, and tasks join and leave while a package goes round.
* **Readers of an event log that cannot be stopped**: those of an input that a
  reload has ended read on beside those of the new one.
* **States that nobody updates**: the registry takes the progress of a quiet log
  for that of a log nobody collects any more.

### What makes each component correct

* registry: a restart resumes from what was acknowledged and flushed; nothing
  dirty is forgotten; what is collected stays collected; stored progress does
  not get older; progress reaches the disk.
* delivery: progress never passes an undelivered line; nothing is dropped for
  good; everything is delivered and durable in the end.
* sender: of each source every task gets one uninterrupted run of texts, under
  its own data ID, and the state of a package stands for exactly the texts up to
  it.
* event log: records are delivered in order, and no start passes one that was not
  delivered; of pairs of one name an event has the first.
* identifiers: what tasks share, they agree on, and nodes form a tree.
* node tree: known tasks are linked through live nodes; nothing is left of
  removed ones; the manager never hangs; events are served.
* manager and main loop: the running tasks are those of the configuration;
  signals and changes of the file take effect.
* limiter: the limit holds while the gate is open; held events pass; switching it
  off frees the input.
* filter: each task that was known when a line came gets exactly what its own
  rules want, whoever joins or leaves meanwhile.

`PROJECT.json` lists the hazards line by line with the properties aimed at them.

## 2. The modules

| module | models | refines / composes |
|---|---|---|
| `ProgressStore` | what the registry promises: three copies of a map of offsets; a flush copies all of it, and a crash may find a part copied | abstract specification |
| `Registrar` | `registrar.go`, `acker.go` | implements `ProgressStore` (`KeepsPromise`) |
| `RegistrarProofs` | theorems about `Registrar` | |
| `Collection` | what collecting a stream promises: nothing is taken back, no mark passes what is missing | abstract specification |
| `Delivery` | one input's chain, publisher, acknowledgement, crash, reload | uses `ProgressStore` as its registry, implements `Collection` |
| `DeliveryProofs` | theorems about `Delivery` | |
| `EventRecord` | `eventrecord.go`: how pairs become fields | |
| `WinEventLog` | the event log input with its readers, through crash and reload | extends `EventRecord`, uses `ProgressStore`, implements `Collection` |
| `WinEventLogProofs` | theorems about `WinEventLog` | |
| `TaskConfig` | `config/task.go`: identifiers and the merge of files | |
| `Sender` | one shared sender, its formatter and its tasks | extends `TaskConfig` |
| `SenderProofs` | theorems about `TaskConfig` and `Sender` | |
| `Pipeline` | the node tree and the manager's work on it | |
| `PipelineProofs` | theorems about `Pipeline` | |
| `CpuLimiter` | `cpulimit.go`, `cpulimit_linux.go`, `docker.go` and the gate of the input | |
| `CpuLimiterProofs` | that the limit holds while the gate is open | |
| `FilterRules` | rules and the filter node, beside the manager | |
| `FilterRulesProofs` | theorems about `FilterRules` | |
| `Beater` | the main loop and the manager's comparison of tasks | |
| `BeaterProofs` | theorems about `Beater` | |
| `MC...` | instances for TLC: values of the constants only | |

`PROJECT.json` maps every definition to the lines it translates.  Definitions
introduced by "Mutant of ..." are not part of a specification: each is a
plausible bug in the definition it names, and the property listed with it in
`PROJECT.json` is violated when it takes that definition's place.

### Registrar

One goroutine (`run`) with four cases is four actions: `OnEvents`, `GcTick`,
`FlushTick`, `Stop` (with its deferred flush).  `New` is `New` plus `Init`: load,
migrate the v1 key, deduplicate, reset.  The store (external) is the pair `view`,
what `Get` and `List` answer, and `disk`, what survives a crash; `StorageSync`, `Exit`
and `Crash` relate them.  On `view` a flush and a migration are one step, because
nobody else reads it meanwhile.  On `disk` they are not: the store's flusher is a
goroutine of its own, so that a sync in the middle may have persisted any part
of the deletions and writes of a flush (`Midway`), or of the copies made of a v1
list that is still there (`Copied`), when the process crashes.  A state is its
source, the identifier it was made under, an offset, a timestamp, a TTL and
`Finished`.  TTLs are classes (`unmanaged`, `nano`, `never`, `zero`, `timed`); which
positive TTLs have expired at a flush is a free choice among those that may
(`Expirable`), which covers every clock.  `IdOf` says which ID a source has under
which identifier.

`ProgressStore` forgets all of this: `Flush` copies the whole map, minus what it
forgets, and what is saved is then the old or the new value of each ID.  That the
incremental flush, deletion per key, loading with deduplication and migration
amount to that, also when a crash leaves them half-done, is the refinement
`KeepsPromise`.

### Delivery

Offsets count lines.  Every goroutine holds at most one event (`input`, `filter`,
`processor`, `sending`, `out`), because the channels are unbuffered and each
forwards before it takes the next; the sender's `cache` is a sequence per file.
`Send` takes the snapshot of `outs` that `GetOuts` takes.  The publisher is a queue
that delivers in order and acknowledges prefixes (libbeat's guaranteed mode).
The registry is an instance of `ProgressStore`, so what `Registrar` is shown to
implement is what `Delivery` relies on.  Seen from outside, all of it implements
`Collection` (`CollectsAll`).  A reload is `Reload` (take the states),
per task `RemoveOutput` and `TaskEnds`, `CloseChain` with the last one, and
`StartTasks`.  All tasks of an instance share one chain and differ in their
output.

### Sender and TaskConfig

`Delivery` follows offsets; `Sender` follows what is in a package.  An event has
texts (a batch) or a single line; `Format` says which texts each of the formats
v1, unifytlogc, tqos and v2 sends and how v2 numbers them, or `None` when only the
progress is left.  tqos and unifytlogc put the data ID of the task they were made
for into two more fields (`dstdataid`, `_dstdataid_` and their sources), which are
here `others`: the same ID twice.  `send` replaces `dataid` and leaves those.  The
manager's `NewSender`, `Merge`, `AddOutput` and
`RemoveOutput` interleave with the goroutine's `CacheSend`, `Tick`, `Flush` and, out
by out of its snapshot, `SendTo`.  A task that leaves keeps its channel (`alive`)
until `TaskEnds`; with the last one gone `Close` drops the node.  `since` and
`received` are history: what a channel was there for and what it got.

`TaskConfig` has the identifiers: `SenderID`, `ProcessorID`, `FilterID` and `InputID`
each remove the fields of one level from the one below (`initIDWithConfig`); the
hash stands for what it is computed from.  `Sender` builds its groups of tasks
from it: they share a sender because their `SenderID`s are equal.

### WinEventLog and EventRecord

A reader is the goroutine `eventLogger.run`: `Open`, `Read` (up to `BatchSize`
records, or none, after which it sleeps and reads again), one `OnEvent` per record,
`Fails`.  `reader` is indexed by inputs in the order the process makes them,
because nothing ends the readers of an ended input: the channel `done` is never
created (`input.go:99`).  Their events meet a closed `End` (`OnEventRefused`), and
the return value is not looked at.  `StopReturns` needs all readers to have failed.
The goroutines behind the input are one queue per log (`chain`), the publisher a
second, the registry a `ProgressStore` whose collection may drop what is not
`managed`.  A record has pairs of two kinds, event data and user data, and the
local name of the user data's XML element; `ToEvent` makes fields of both kinds
and puts the local name into those of the user data (`AddXmlName`), over a pair
of that name.

### Pipeline

`Parent` gives the tree; a node re-created under its ID has a new channel, and
`gen` tells the channels apart.  The manager is one sequential process: `NewTask`,
`Link` per level from the task up to the input, then `StartTask`; or `StopTask`,
`RemoveOutput` per level as long as a node is left without outs, then for each
such node from the top `CloseEnd` and `WaitUntilGameOver`.  Node goroutines work on
a snapshot of `Outs` (`work`), and an event passes when the lower goroutine is at
its select (`Pass`).  `Above` is the smallest set of nodes that leads up from a
node, which needs no recursion.  `InputFails` and `OutputFails` are the two error returns of
`NewTask` that leave something behind.

### CpuLimiter

Time passes in units with punctual timers.  How much CPU the process uses in a
unit is free, whether a gate is open or shut: only `Input.Run` waits at the gate
(`input.go:168`), while harvesters, the nodes below, the publisher and the
registry go on, so that the code limits the CPU "to a certain degree"
(`cpulimit.go:164`).  `shut` is history: what a limiter has counted behind its
shut gate.  `limiters` holds every limiter that
was ever created, because a replaced one runs on; `global` and `enabled` are the
two package variables, which the input reads at different moments.  Whether the
process runs in a container is read from files that may be unreadable
(`IsInDocker`) and may differ from one `SetResourceLimit` to the next.

### FilterRules

A line is a sequence of fields.  `NewTaskConfig` normalises and sorts conditions,
those of equal indices in any order, because `sort.Sort` is not stable;
`MergeFilterConfig` takes the largest index from the last condition of each
filter; `SplitN` leaves the rest of the line in its last word.  A single line is
matched on trimmed words, a batch on untrimmed ones, as in the code; the
reference definition `Wants` follows this difference.  Rules are in force with a
delimiter of one character only (`Rules`, `HasFilter`); without a delimiter, or
when the data is no string, an event is passed on to all outs as it is.

The node's goroutine and the manager take turns at every step of an event.  The
goroutine takes it and cuts its first line (`Filter`), cuts the other lines (`Cut`),
gives each task it knows a `Turn`, and waits at the task's out until the processor
has taken the lines (`Sent`).  In between, the manager merges the rules of a task
(`MergeFilterConfig`) and adds its out (`AddOutput`), or removes an out
(`RemoveOutput`), after which the processor ends (`ProcessorEnds`) or, with no outs
left, the node does, wherever it waits (`NodeEnds`).  As in the code, lines are cut
for the largest index of that moment, a `Turn` uses the rules and outs of its own
moment, and an event that is not filtered goes to a snapshot of the outs
(`PassOn`).  `known` and `linked` are history: the tasks the node knew when it took
the event, and those of its outs then that were never removed since.

### Beater

`Edit` and `Signal` are the environment.  The loop's cases are `NoteSignal`,
`ReloadTick`, `DiffTick` and `Done`; a reload that has read its configuration is in
the state `applying` until `Reload` finishes, and edits and signals may come in
between.  `Switch` is `Manager.Reload`'s comparison, with any of the new tasks
failing to start.

## 3. The runs

| run | question | instance | states |
|---|---|---|---|
| `registry` | does the registry restore, forget and persist as promised, through crashes? | a file, an event log, one identifier, a moving clock, with and without a v1 key | 67 000 |
| `delivery` | does progress stay behind delivery, and is everything delivered? | one file of five lines (one reported by state, one filtered, a package of two, a rest), one crash, one reload | 383 000 |
| `sender` | does each task get exactly its texts, in order? | two tasks, two sources, formats v1, tqos and v2, batches with empty texts or single lines, one task stopped | 367 000 |
| `winlog` | are records delivered in order, and none lost? | one log of three records in batches of two, one crash, one reload, four contents | 255 000 |
| `pipeline` | are known tasks linked, and does nothing else stay? does the manager return? | two tasks that share two of three nodes, each ID created up to twice, both failures | 86 000 |
| `limiter` | does the limit hold while the gate is open, does the gate open? | two cores, a second of four units, two valid limits and an invalid one, two check frequencies, two limiters, any CPU use behind a shut gate | 256 000 |
| `filter_rules` | does every task get exactly what it wants, whoever joins or leaves in the middle of an event? | two tasks, nine sets of rules, five lines and three batches, three kinds of delimiter, joins and removals at any moment | 1 398 000 |
| `reload` | do the tasks follow the configuration, are signals honoured? | three configurations, one broken, one with check_diff, two edits, two signals | 24 000 |
| `delivery_state_event` | finding 1 | one file, a state-only event after a line | |
| `pipeline_stall` | finding 2 | two tasks of one sender | |
| `winlog_quiet` | finding 3 | one log of two records, one crash | |
| `reload_there_and_back` | finding 4 | check_diff everywhere, one signal, two edits | |

### Why the bounds are enough

* registry: two sources of the two kinds (with and without a timestamp), two
  offsets for a file that is read and two times tell "restored" from "restored
  with old progress"; a v1 list of both sources can be found copied in part;
  crashes and restarts are unbounded.  Several identifiers, sources
  and times are covered by the theorems, which have no bounds.
* delivery: of the three lines that get to the sender two fill a package and one
  is left to the ticker, so both ways out of the cache happen; a queue of two
  lets one package wait while another is acknowledged; one crash and one reload
  may come at any moment and in any order.  The line reported by state comes
  first, where it cannot overtake (finding 1 has it elsewhere).  Two tasks with a
  crash or a reload are left out on purpose, see section 6; `sender` has two.
* sender: a package count of two is reached exactly, passed by a batch, and
  missed by what the tick sends; empty texts come first, last and alone.  One
  stop is enough for a task that leaves a package in hand, one that comes back
  on a new channel, and the node that is closed and made again.
* winlog: batches of two out of three records let a reader stop between two
  records of a batch; capacities of one make both queues full; one reload gives
  readers of an ended input, and the crash may come before, during or after it.
  The four contents have no pairs, a given name that is taken beside a pair that
  the local name overwrites, an empty value before two of its name beside an
  `xml_name` without a local name, and nothing but empty values.
* pipeline: the tree has a shared part of two nodes (pruned with the last task)
  and a node of one task only (pruned up to the branch); creating every ID twice
  lets a stale channel meet its successor.
* limiter: four units in a second and intervals of one and two units make the
  threshold differ from the limit, and a limit below the interval possible.
* filter rules: the rules have no condition, conditions on the whole text and on
  the first, second and third field in either order, and two filters of which
  one must hold; fields match, match only trimmed, or do not match; a line of
  three fields, cut for a rule about the first, has the rest in its second word.
  Two tasks are one that stays and one that joins, leaves or returns.  The two
  are interchangeable (`SYMMETRY`), since every task may have every rule and the
  run checks no liveness.
* reload: two edits let a file change and change back or break; two signals let
  one arrive during the reload of another.

`CHECK_DEADLOCK FALSE` stands where the system really stops: in `Pipeline` when all
IDs have used their creations and no task is left, in `Beater` after `Done`, in
`Sender` when no events are left, in `WinEventLog` when every reader has failed.

### Fairness

* Registrar: weak fairness of the event case, the flush tick and the store's
  flusher: the first is a goroutine at a select that serves a ready case in the
  end, the other two are tickers.
* Delivery, Pipeline: weak fairness of every goroutine step, since an unblocked
  goroutine goes on.  In `Delivery` also that the runner keeps reading and that a
  process that is down is started again.  Crash, reload, starting and stopping a
  task are never forced.
* Sender: the ticker fires, loops end, and running tasks read their channels;
  nothing obliges events to come or the manager to act.
* WinEventLog: readers open, read and hand over; the chain, the publisher and the
  manager in the middle of a reload go on; a process that is down is started
  again.  Nothing forces the system to write, a read to fail, a crash or a
  reload.
* CpuLimiter: time passes, and goroutines that can go on do.
* Beater: strong fairness of the three cases of the select, because the
  runtime picks among ready cases at random while other cases come and go; weak
  fairness of `Start` and `Reload`, which are sequential code.

## 4. What is proved

`RegistrarProofs`, for all sources, IDs, identifiers, batches, v1 contents and
bounds:

* `TypeCorrect`: `Spec => []TypeOK`.
* `RestartRestoresAlways`, `CollectedIsForgottenAlways`, `RegistrarKeepsPromise`:
  the invariant `RestartRestores`, the action property `CollectedIsForgotten` and
  the refinement of `ProgressStore`, under the assumption `OneIdentifier` that one
  file identifier is configured for ever.  With two identifiers the three are
  false, and TLC shows it: a state is written under the ID of the present
  identifier while the key of the old one stays.

The assumptions on the constants are those of `RegistrarAssumption`: an event log
has its own ID, every acknowledged state is filed under its ID and managed by an
input, a v1 list has one state per ID.

The argument.  None of the three is inductive: that a restart restores progress
depends on where every state in memory came from.  `IInv` adds that both copies
of the store are `WellFormed` (every key holds a state with that ID, nothing is
there before the first flush, and beside a v1 list there are only copies of its
states), that memory and channel are filed under their own IDs, that `cache` has
only IDs with a state, `Synced`: an ID outside `cache` is the same in memory and in
the store, and that a process that is down has one store, since what was not
persisted is gone.  `LoadsItsKeys` reduces loading a well-formed store to reading
its keys; `CopyingKeeps` and `MigrationKeeps` say that a migration, finished or not,
changes no answer, because deduplication finds a copy and its original to be one
state; `FlushSyncs` that a flush re-establishes `Synced` whatever it drops.  That a
crash may meet a flush half-way is `MidwayEffect`: whatever was persisted by then,
each ID has its old state, its new one, or none if it is dropped, and `MidwayKeeps`
that such a store is well-formed.  The refinement uses the same facts step by
step: `OnEvents` is `Update`, `FlushTick` is `Flush` of the dropped IDs, `Stop` is also
a `Flush`, `Exit` is `Halt` because the stopped goroutine left nothing in `cache`.

Also in `RegistrarProofs`, for any number of identifiers, under the assumption
`IdsTellSources` (an ID names one source, whichever identifier made it):

* `DirtyIsCachedAlways`, `ShutdownWritesAllAlways`, `StoredNeverOlderAlways`: the
  incremental flush misses nothing, an orderly stop writes everything, and stored
  progress gets older only in a crash.

The argument.  With several identifiers a state is loaded from one key and
written under another, so "same in memory and store" no longer holds per ID.
`JInv` says instead: no timestamp is of the future (`AllPast`); a state that is not
in `cache` has a key in the store with progress of its source that is as new
(`Backed`), under its own ID unless it has not been touched since the load; and
what is in memory is at least as new as what its own key has (`NotBehind`).

`DeliveryProofs`, for all files, lines, filters, package sizes, queue capacities,
crashes and reloads:

* `DeliveryTypeCorrect` and `DeliveryCacheBelowPackage`, for any tasks.
* `DeliveryAtLeastOnce`, `DeliveryNothingForgotten` and `DeliveryCollectsAll` under two
  assumptions: `OneTask`, the chain is not shared, and `StatesFirst`, a line that is
  reported by state only comes before every wanted line of its file.  Both are
  needed: without the second TLC finds finding 1, without the first the case of
  section 6.
* For tasks that share a chain, what is left without `OneTask`:
  `DeliveryReachesSomeTask`, no mark passes a wanted line that no task at all has been
  delivered, and `DeliveryCollectsTogether`, the chain implements `Collection` for its
  tasks together (both under `StatesFirst`); `DeliveryReachesEveryTask`, as long as the
  process has not crashed or reloaded, `NothingForgotten` holds for every task
  (without either assumption).

The argument.  An event carries the state "read up to here", so it must never be
ahead of lines that are still behind it.  `OrderInv` names the lines that have been
delivered (`Has`) and those in each place from the publisher back to the input
(`Queued`, `Taken`, `Sent`, `Cached`, `Processed`, `Filtered`, `Received`), each with all
places before it, and says of each place that the wanted lines up to the state it
carries are in it or before it.  A step that moves an event moves the line and
the state together; a package carries the last state of its lines; a filtered
line leaves because it is not wanted.  What the places of the chain hold counts
only while the task is in `outs`: a reload drops it, and the new runner starts
from a mark.  `Shape` supplies that a chain without a manager is empty, so that
nothing of the old chain meets the new runner.

With several tasks an acknowledgement for one moves the progress of all, so a mark
is only behind what some task has (`Had`, in `MarksBehind`).  `OrderInv` therefore
says of each place of a task: the lines up to its state are in it, before it, or
in `Had`.  With one task `Had` is `Has`, and the first three theorems follow.  How far
a task is itself served needs its own balance, `Reaches`: what was read is in one
of its places, until a mark is used to start from.

`WinEventLogProofs`, for any logs, numbers of records, batch sizes, capacities,
crashes and reloads:

* `WinTypeCorrect`, `WinDeliveredInOrder`, `WinCollectsAll`: the type, the order of
  delivery, and the refinement of `Collection`;
* `WinFieldsAreFirst`: what is delivered has under each name the first non-empty
  value of its record's pairs, its user data the local name under `xml_name`, and
  no other name.

The argument.  That records are delivered in order depends on every place a
record can be in.  `OrderInv` binds each to those before it: the publisher's queue
follows what is delivered (`Follows`), the chain follows both, the position of the
newest reader follows all three, and every mark a start may take (`Resumable`) is
behind what is delivered.  A reload keeps this because it empties the chain after
the input has ended, and the new reader starts from a mark; old readers cannot
break it because `End` is closed before the new input exists.  For the refinement
`Deliver` is a delivery and every other step moves marks at most.

`WinFieldsAreFirst` is about the loop of `addPairs`, whatever the pairs are, and
about the name that is put on top of its result.  `AllTurns` says that the map is
right after every number of turns, `XmlNameAdded` that the local name changes
nothing but its own field, `ToEventIsFirst` joins them for the two kinds of data.
`EventRecord` states the loop as a recursive function, and `LoopExists` says that
there is one.  Neither lemma is an induction by the library's theorems, which the
provers cannot instantiate: `LoopExists` and `AllTurns` suppose the claim
false, take the smallest number of turns for which it is (`WFMin` on `<`), and
refute it by the turn before.  The other modules argue about sequences in the
same way.

`PipelineProofs`, for all trees, tasks, failures and interleavings with the
goroutines of the nodes:

* `PipelineTypeCorrect`, `PipelineTasksAreLinked`, `PipelineNothingLeaks`.

The assumption is `TreeAssumption`: no node is above itself, which
`SharedNodesShareParents` justifies together with the levels of `NewTask`.

The argument.  Both properties are about the idle manager, so the invariants say
what holds half-way.  `LinkInv`: every chain of a known task is `Linked` at any time;
while a task is being linked, no known task needs what is created again
(`NewIsLinked`, because a node is missing only where no chain passes), and the part
below the cursor is linked already; while one is being unlinked, no known task
needs the cursor or what is to end (`OldIsAlone`, because a node left without outs
has no child in any chain).  `RegisteredRun` supplies that a node that is found
runs, with `End` open unless it is to end now.  `LeakInv`: what runs or is
registered is `Used` by a task, a half-linked or half-unlinked one included, or
`Removed`; and the outs of a used node are present channels of used children.
When `RemoveOutput` stops half-way up, the child that is left shows that another
task needs all nodes from there on.  That a chain is linear (`ChainIsLinear`,
`OnlyChild`, `ChildIsBelow`) follows from the definition of `Above`.

`FilterRulesProofs`, for all rules, lines, batches and tasks:

* `FilterTypeCorrect` and `FilterPassesWhatIsWanted`.

The argument.  A task gets what it wants if each of its conditions sees the word
it names.  `AccessIsHolds` says when: the line was cut into more words than the
condition's index, so that the rest of the line is not in its word.  Between the
cut and the match the manager may do anything, so there are two invariants, one
of the node and one of the event in hand.

`NodeInv` says that the present cut lies above every condition of every task the
node knows (`Covered`).  `MergeFilterConfig` keeps it because the last condition of
a sorted filter has the largest index (`SortedConditions`), because it never
lowers the cut, and because it looks at every filter of the new task
(`MergeCovers`); a task that leaves stays known until the node ends.

`EventInv` says of the event that its tasks are known still (`Kept`), that each of
its lines was cut wide enough for all of them, as `Covered` was true when it was
cut (`WideEnough`), that those linked throughout have a turn to come or had it
(`TurnsDue`), and that what was passed or waits at an out is what the task wants
(`Right`).  Who joins later is not in `known`: its turn, if it gets one, may use
lines cut too short (section 6), and nothing is claimed for it.

`SenderProofs`, for all configurations: `SharedNodesShareParents` (the identifiers
nest, so that `Parent` of `Pipeline` is a function), `SharedNodesAgree` (a node built
from its first task's configuration fits the others), `SendersTellTasksApart` (two
tasks on one sender differ in their data ID) and `LoadOrderIrrelevant` (the order
of files does not matter).  They rest on the hash being injective and on
`TaskConfigAssumption`: no level removes `dataid` or `file_identifier`.

Also in `SenderProofs`, for any group of tasks with one `SenderID`, any sources,
streams, formats and package sizes, and tasks that come and go in any order:

* `SenderTypeCorrect`, `SenderPackagesInOrder`, `SenderNothingDropped`,
  `SenderWellFormed`.

The assumption `SenderAssumption` gives the streams their type and says that no
source mixes batches with single lines, see section 6.

The argument.  `NothingDropped` balances three places: what a task has got, what
`send` has in hand for it, and the cache.  `SourceInv` says that the cache is the
last events taken, so that the balance at the moment `send` starts tells where
each task in `Outs` stands: where the package begins (`SendStarts`).  `SendingInv`
keeps this true of the snapshot while the loop of `send` runs, also for tasks that
leave `Outs` meanwhile; it needs `ManagerInv`, that a configuration is merged before
its channel is added and stays until the node ends.  A task that joins then is
not in the snapshot and starts behind the package (`JoinsKeeps`).  That the texts
are the right ones is separate from all this: `ItemsAreWanted` says of each format
that what it makes of the events of a source are the texts its consumers are to
get, and rests on what `FlattenSeq` computes (`FlattenTurns`, `FlattenSingles`).
`WellFormed` rests on `OneFormat`: tasks with one `SenderID` have one format, so the
formatter of the first is that of all.  The first task's ID stays in `others` of
every package; what `WellFormed` says of it is that it is the ID of a task of the
group (`OthersFit`), no more, because the code does no more.

`CpuLimiterProofs`, for any cores, units, limits, frequencies and reloads:
`CpuWithinLimit`, about what is used with the gate open; nothing is assumed of the
goroutines that go on behind a shut gate.  `Accounts` says what a limiter in force
has counted: with the gate open, what was spare at its last check and what all
cores have used since; with the gate shut, apart from `shut`, no more than they
used in the whole interval before.  A gate that shuts stays shut until a new
second begins, because what was counted only grows.

`BeaterProofs`, for any tasks, configurations, edits and signals:
`BeaterTypeCorrect` (no configuration that cannot be parsed is ever in force) and
`BeaterServesConfig`, whose invariant `Runs` holds at any time, not only between
reloads.

Only model-checked are the liveness properties, because fairness and ENABLED are
beyond the provers here, and the four claims that TLC refutes (section 5).  Every
other property of a run is stated by a theorem.

## 5. Findings

Each is a run that TLC must find violated.

1. `delivery_state_event`: an event without fields is published by the input
   goroutine itself, past the chain; its acknowledgement moves the registry past
   lines that still wait in the chain, and a crash then loses them
   (`task/input/input.go:194`).
2. `pipeline_stall`: a node that took its snapshot of `Outs` before a sibling was
   removed blocks on a channel nobody reads; the `End` it also watches is its
   own and stays open as long as another task needs the node
   (`task/sender/sender.go:290`).
3. `winlog_quiet`: the progress of an event log whose input runs, but which has
   got no new record since the start, keeps the TTL that `ResetStates` gave it and
   is collected as if nobody managed it; the next start reads the log from its
   first record (`registrar/registrar.go:345`).
4. `reload_there_and_back`: a reload by signal does not update `lastTaskHash`; a
   file that goes back to the hashed content is not loaded
   (`beater/beater.go:255`).

## 6. Known limits of the properties

They are not runs because no line of the repository promises otherwise, or
because they are variants of a finding.

TLC shows the following when the bound or the exception that is named is lifted:

* Two tasks that share a sender, with a crash or a reload (a second task in
  `Tasks` of `delivery`): the acknowledgement of one moves the progress both depend
  on, and the other's package may be lost (`sender.go:257`).  No line is lost for
  both (`DeliveryReachesSomeTask`, as long as lines reported by state come first).
* Two identifiers (a second one in `Identifiers` of `registry`): the key of the old
  identifier survives the collection of its state (`registrar.go:359`).
* A change of the file before the first comparison becomes its baseline
  (`beater.go:252`; `EarlyEdits` with `MainConfigFollowed`).
* A reload that changes the check frequency while an event is held: the input
  sleeps the old interval, and a perfectly punctual one can miss every opening
  of the new gate (`input.go:169`; `HeldEventPasses` makes an exception of it).
* A task that is merged after a line was cut, and has its turn with that line, is
  matched on words cut too short: the rest of the line is in one of them
  (`filter.go:174` and `224`, against the comment of line 173).
  `PassesWhatIsWanted` speaks of `known` and not of `seen` for that reason.

The following is in the models as the code has it, and the properties say no
more than it allows:

* The limiter bounds the CPU used while the gate is open.  At a shut gate only
  `Input.Run` waits, the other goroutines use what they use ("to a certain
  degree", `cpulimit.go:164`); `WithinLimit` leaves it out of its sum.
* A limit that is invalid is logged as "disable rate limit", and the limiter
  before it stays in force (`utils/cpulimit.go:175`).
* The formatter of a shared sender is that of its first task: `send` replaces
  `dataid` for each task, while `dstdataid` and `srcdataid` of tqos
  (`formatter/tqos.go:81`) and `_dstdataid_` and `_srcdataid_` of unifytlogc
  (`formatter/unifytlogc.go:81`) stay.
* `Stop` of an event log input does not return while one of its readers can read
  (`wineventlog/input.go:102`); `Input` calls it in a goroutine of its own, so
  only that goroutine and the readers stay.
* A task that fails at its output stays linked, and its nodes run on
  (`task.go:82`); `NothingLeaks` stops at the first failure.

The following was met in reading and is not modelled:

* v2 looks at its first event only to decide between texts and fields
  (`formatter/v2.go:61`): in a package of both, the events of the other kind would
  be left out.  Inputs read a source in one way, which `SenderAssumption` assumes.
* Mounts are sorted by their container path but matched by prefix of the host
  path (`config/task.go:259`), so that a longer host prefix may lose.

## 7. What is not modelled

* Parsing and defaults of the configuration, codecs, metrics, and of the
  formatters file names, world IDs and times: data without control that a
  property here could be about.
* The Windows watcher that stands in for the reload signal (`beater.go:109`): what
  it loses depends on the capacity of the framework's channel.
* The fields of an event record other than those of its event data and user
  data, which are copied, and the line endings that are removed from values.
* In `Sender`, events that only carry a state: they do not get there.
* The host ID watcher: it only sets a value that formatters print.
* `migrate` (`registrar.go:307`), which fills in file information of old states.
* Errors of the key-value store, which occur only after it was closed.
* The memory model of Go: steps are sequentially consistent.  The filter and the
  manager use the same maps without a lock (`filter.go:178`, `131`); a race that the
  runtime detects ends the process, which is the `Crash` of `Delivery`.  The races
  that it does not detect, merges and removals between two turns of the filter or
  while it waits at an out, are steps of `FilterRules`.
* `cpulimit.go:117`, where a failed read after the start is used all the same.
* IDs that collide by chance, and one path identifier equal to another file's
  inode identifier.
* In `Delivery`, files that rotate, are truncated or removed: the runner
  (external) reads lines in order.

## 8. Plan

Done, in this order: `ProgressStore` and `Registrar` with their proofs, `Delivery`,
`Pipeline`, `CpuLimiter`, `Beater`, `FilterRules`; `Collection` as the promise of
`Delivery`, `WinEventLog`, `TaskConfig`, `Sender`; the theorems of section 4, the last
of them those about `FilterRules`, `Sender` and the fields of events; syncs in the
middle of a flush or a migration, and the filter beside the manager.

Next:

1. The claim of states by new file inputs, to put the collection of unmanaged
   states (`registrar.go:344`) against slow starts, as `winlog_quiet` does for event
   logs.
2. `Sender` with a crash, to see which of several tasks loses what (section 6).
3. Theorems: the order in which each task of a chain is delivered its lines, as
   `WinDeliveredInOrder` states it for event logs.
