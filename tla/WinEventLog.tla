---------------------------- MODULE WinEventLog ----------------------------
(***************************************************************************)
(* The Windows event log input, src/task/input/wineventlog: one goroutine  *)
(* per log that reads records and hands them to the task, from the state   *)
(* the registry has of the log, through read errors, crashes and reloads.  *)
(*                                                                         *)
(* A reload ends the input and makes a new one, but the readers of the old *)
(* one go on: Stop waits for them, and nothing tells them to end, because  *)
(* the channel done is never created.  Inputs are numbered in the order in *)
(* which the process makes them.                                           *)
(*                                                                         *)
(* The goroutines behind the input appear as one sequence per log, `chain' *)
(* (module Delivery has them one by one), the publisher's queue likewise,  *)
(* and the registry as the store it implements (module ProgressStore).     *)
(***************************************************************************)
EXTENDS EventRecord

CONSTANTS Logs, None,
          Contents,      \* what the records of a log may have
          MaxRecord,     \* a log gets this many records in the end
          BatchSize,     \* records one Read returns at most
          Capacity,      \* events of a log in the chain, and in the queue
          MaxReloads, MaxCrashes   \* bounds of the instance

ASSUME WinEventLogAssumption ==
    /\ MaxRecord \in Nat /\ MaxReloads \in Nat /\ MaxCrashes \in Nat
    /\ BatchSize \in Nat \ {0} /\ Capacity \in Nat \ {0}
    /\ Contents \subseteq Content
    /\ \A c \in Contents : Absent \notin MapStr(c.event) \cup MapStr(c.user)
    /\ None \notin Int

Records == 1 .. MaxRecord
Marks   == 0 .. MaxRecord      \* 0: no record has been read
Inputs  == 1 .. MaxReloads + 1

\* A reader: the last record it has handed over, the last it has read.
Reader == [pc : {"idle", "opening", "reading", "handing", "failed"},
           pos : Marks, upto : Marks]

Event == [rec : Records, data : {ToEvent(c) : c \in Contents}]

VARIABLES
    written,    \* per log, how many records the system has written
    content,    \* per log, what its records have
    manager,    \* "down", "running", "reloading", "ended" (input ended)
    input,      \* the newest input of this process
    stopped,    \* inputs whose Stop has returned
    reader,     \* per input and log
    chain,      \* per log, events between the input and the publisher
    queue,      \* per log, events in the publisher
    acks,       \* per log, the last acknowledged state
    live, staged, saved,    \* the registry: record numbers
    managed,    \* logs whose state has been updated since the start
    lastStates, \* the states a reload took from the registry
    delivered,  \* per log, events delivered, ever
    crashes, reloads

logVars      == <<written, content>>
managerVars  == <<manager, input, stopped>>
pipeVars     == <<chain, queue, acks>>
registryVars == <<live, staged, saved, managed>>
countVars    == <<crashes, reloads>>
vars == <<logVars, managerVars, reader, pipeVars, registryVars, lastStates,
          delivered, countVars>>

Store == INSTANCE ProgressStore
    WITH Ids <- Logs, Offsets <- Marks, up <- manager # "down"

\* FileStateToWinLogState: a state without a record number reads as zero.
WinState(state) == IF state = None THEN 0 ELSE state

\* Mutant of NewReader: the state is taken for the first record to read.
NewReaderSkips(state, usable) ==
    [pc   |-> IF usable THEN "opening" ELSE "failed",
     pos  |-> IF state = None THEN 0 ELSE IF state = MaxRecord THEN state ELSE state + 1,
     upto |-> IF state = None THEN 0 ELSE IF state = MaxRecord THEN state ELSE state + 1]

\* NewInput and Run: one goroutine for every log that could be created, with
\* the state of that name; a log that could not is skipped.
NewReader(state, usable) ==
    [pc   |-> IF usable THEN "opening" ELSE "failed",
     pos  |-> WinState(state),
     upto |-> WinState(state)]

Idle == [pc |-> "idle", pos |-> 0, upto |-> 0]

\* Input i starts its readers.
StartInput(i, states, usable) ==
    reader' = [reader EXCEPT ![i] =
                 [w \in Logs |-> NewReader(states[w], w \in usable)]]

EmptySeqs == [w \in Logs |-> <<>>]

Init ==
    /\ written = [w \in Logs |-> 0]
    /\ content \in [Logs -> Contents]
    /\ manager = "down" /\ input = 0 /\ stopped = {}
    /\ reader = [i \in Inputs |-> [w \in Logs |-> Idle]]
    /\ chain = EmptySeqs /\ queue = EmptySeqs /\ acks = Store!Blank
    /\ live = Store!Blank /\ staged = Store!Blank /\ saved = Store!Blank
    /\ managed = {}
    /\ lastStates = Store!Blank
    /\ delivered = [w \in Logs |-> {}]
    /\ crashes = 0 /\ reloads = 0

-----------------------------------------------------------------------------
(* The system writes events; the process starts and crashes.               *)

Write(w) ==
    /\ written[w] < MaxRecord
    /\ written' = [written EXCEPT ![w] = @ + 1]
    /\ UNCHANGED <<content, managerVars, reader, pipeVars, registryVars,
                   lastStates, delivered, countVars>>

\* The registry loads its states, none of which an input manages yet.
Run(usable) ==
    /\ manager = "down"
    /\ manager' = "running" /\ input' = 1 /\ UNCHANGED stopped
    /\ Store!Start
    /\ StartInput(1, live', usable)
    /\ UNCHANGED <<logVars, pipeVars, managed, lastStates, delivered, countVars>>

Crash ==
    /\ manager # "down" /\ crashes < MaxCrashes
    /\ crashes' = crashes + 1
    /\ manager' = "down" /\ input' = 0 /\ stopped' = {}
    /\ Store!Fail
    /\ managed' = {}
    /\ reader' = [i \in Inputs |-> [w \in Logs |-> Idle]]
    /\ chain' = EmptySeqs /\ queue' = EmptySeqs /\ acks' = Store!Blank
    /\ lastStates' = Store!Blank
    /\ UNCHANGED <<logVars, delivered, reloads>>

-----------------------------------------------------------------------------
(* The reading goroutine: eventLogger.run.                                 *)

\* The reader of log w in input i goes on as r.
Becomes(i, w, r) == reader' = [reader EXCEPT ![i] = [@ EXCEPT ![w] = r]]

Open(i, w) ==
    /\ reader[i][w].pc = "opening"
    /\ Becomes(i, w, [reader[i][w] EXCEPT !.pc = "reading"])
    /\ UNCHANGED <<logVars, managerVars, pipeVars, registryVars, lastStates,
                   delivered, countVars>>

\* Mutant of Polled: the goroutine returns when there is nothing to read.
PolledOnce(r, n) ==
    [pc |-> IF n = 0 THEN "idle" ELSE "handing", pos |-> r.pos, upto |-> r.upto + n]

\* A reader that has got n records; without any it sleeps and reads again.
Polled(r, n) ==
    [pc |-> IF n = 0 THEN "reading" ELSE "handing", pos |-> r.pos, upto |-> r.upto + n]

\* Read returns what follows the last record it returned.
Read(i, w) ==
    /\ reader[i][w].pc = "reading"
    /\ \E n \in 0 .. BatchSize :
          /\ n <= written[w] - reader[i][w].upto
          /\ n = 0 <=> written[w] = reader[i][w].upto
          /\ Becomes(i, w, Polled(reader[i][w], n))
    /\ UNCHANGED <<logVars, managerVars, pipeVars, registryVars, lastStates,
                   delivered, countVars>>

\* An error of Open or of Read ends the goroutine for good.
Fails(i, w) ==
    /\ reader[i][w].pc \in {"opening", "reading"}
    /\ Becomes(i, w, [reader[i][w] EXCEPT !.pc = "failed"])
    /\ UNCHANGED <<logVars, managerVars, pipeVars, registryVars, lastStates,
                   delivered, countVars>>

\* Mutant of HandedOver: it does not notice the last record.
HandedOverAgain(r) == [pc |-> "handing", pos |-> r.pos + 1, upto |-> r.upto]

\* The reader after it has handed one record over.
HandedOver(r) ==
    [pc   |-> IF r.pos + 1 = r.upto THEN "reading" ELSE "handing",
     pos  |-> r.pos + 1, upto |-> r.upto]

\* The channel End of the input is closed.
Ended(i) == i < input \/ manager = "ended"

\* Mutant of Accepts: the event goes where events of the newest input go.
AcceptsAlways(i, w) == manager # "ended" /\ Len(chain[w]) < Capacity

\* The goroutine of the input takes the event (Input.OnEvent).
Accepts(i, w) == ~Ended(i) /\ Len(chain[w]) < Capacity

OnEvent(i, w) ==
    LET rec == reader[i][w].pos + 1
    IN  /\ reader[i][w].pc = "handing" /\ Accepts(i, w)
        /\ chain' = [chain EXCEPT ![w] =
                       Append(@, [rec |-> rec, data |-> ToEvent(content[w])])]
        /\ Becomes(i, w, HandedOver(reader[i][w]))
        /\ UNCHANGED <<logVars, managerVars, queue, acks, registryVars,
                       lastStates, delivered, countVars>>

\* With End closed OnEvent returns false; the reader does not look, and goes
\* on reading.
OnEventRefused(i, w) ==
    /\ reader[i][w].pc = "handing" /\ Ended(i)
    /\ Becomes(i, w, HandedOver(reader[i][w]))
    /\ UNCHANGED <<logVars, managerVars, pipeVars, registryVars, lastStates,
                   delivered, countVars>>

\* Stop of an ended input returns when all its readers have.
StopReturns(i) ==
    /\ Ended(i) /\ i \in 1 .. input /\ i \notin stopped
    /\ \A w \in Logs : reader[i][w].pc = "failed"
    /\ stopped' = stopped \cup {i}
    /\ UNCHANGED <<logVars, manager, input, reader, pipeVars, registryVars,
                   lastStates, delivered, countVars>>

-----------------------------------------------------------------------------
(* The chain, the publisher and the registry.                              *)

Publish(w) ==
    /\ chain[w] # <<>> /\ Len(queue[w]) < Capacity
    /\ queue' = [queue EXCEPT ![w] = Append(@, Head(chain[w]))]
    /\ chain' = [chain EXCEPT ![w] = Tail(@)]
    /\ UNCHANGED <<logVars, managerVars, reader, acks, registryVars, lastStates,
                   delivered, countVars>>

\* The publisher delivers in order, and acknowledges.
Deliver(w) ==
    /\ queue[w] # <<>>
    /\ delivered' = [delivered EXCEPT ![w] = @ \cup {Head(queue[w])}]
    /\ acks' = [acks EXCEPT ![w] = Head(queue[w]).rec]
    /\ queue' = [queue EXCEPT ![w] = Tail(@)]
    /\ UNCHANGED <<logVars, managerVars, reader, chain, registryVars, lastStates,
                   countVars>>

\* WinLogStateToFileState: the state never expires, and from now on an input
\* manages it.
OnEvents(w) ==
    /\ acks[w] # None
    /\ live' = [live EXCEPT ![w] = acks[w]]
    /\ managed' = managed \cup {w}
    /\ acks' = [acks EXCEPT ![w] = None]
    /\ UNCHANGED <<logVars, managerVars, reader, chain, queue, staged, saved,
                   lastStates, delivered, countVars>>

\* A flush; one that collects may drop the states no input manages.
Flush ==
    /\ UNCHANGED managerVars
    /\ \E dropped \in SUBSET (Logs \ managed) : Store!Flush(dropped)
    /\ UNCHANGED <<logVars, reader, pipeVars, managed, lastStates, delivered,
                   countVars>>

Sync ==
    /\ UNCHANGED managerVars
    /\ Store!Sync
    /\ UNCHANGED <<logVars, reader, pipeVars, managed, lastStates, delivered,
                   countVars>>

-----------------------------------------------------------------------------
(* A reload that replaces the task.                                        *)

Reload ==
    /\ manager = "running" /\ reloads < MaxReloads
    /\ reloads' = reloads + 1
    /\ manager' = "reloading"
    /\ lastStates' = live
    /\ UNCHANGED <<logVars, input, stopped, reader, pipeVars, registryVars,
                   delivered, crashes>>

\* The nodes end one after the other, and what they hold is dropped.
RemoveTask ==
    /\ manager = "reloading"
    /\ manager' = "ended"
    /\ chain' = EmptySeqs
    /\ UNCHANGED <<logVars, input, stopped, reader, queue, acks, registryVars,
                   lastStates, delivered, countVars>>

\* Mutant of StartTask: the new input goes on where the old one has read.
StartTaskWhereRead(usable) ==
    /\ manager = "ended"
    /\ manager' = "running" /\ input' = input + 1
    /\ StartInput(input + 1, [w \in Logs |-> reader[input][w].upto], usable)
    /\ lastStates' = Store!Blank
    /\ UNCHANGED <<logVars, stopped, pipeVars, registryVars, delivered, countVars>>

\* The new input starts from the states the reload took.
StartTask(usable) ==
    /\ manager = "ended"
    /\ manager' = "running" /\ input' = input + 1
    /\ StartInput(input + 1, lastStates, usable)
    /\ lastStates' = Store!Blank
    /\ UNCHANGED <<logVars, stopped, pipeVars, registryVars, delivered, countVars>>

-----------------------------------------------------------------------------

Next ==
    \/ \E usable \in SUBSET Logs : Run(usable) \/ StartTask(usable)
    \/ Crash \/ Reload \/ RemoveTask \/ Flush \/ Sync
    \/ \E w \in Logs : Write(w) \/ Publish(w) \/ Deliver(w) \/ OnEvents(w)
    \/ \E i \in Inputs : StopReturns(i)
    \/ \E i \in Inputs, w \in Logs :
          Open(i, w) \/ Read(i, w) \/ Fails(i, w) \/ OnEvent(i, w)
          \/ OnEventRefused(i, w)

\* Goroutines that can go on do, and a process that is down is started again.
\* Nothing forces the system to write, a read to fail, a crash or a reload.
Fairness ==
    /\ WF_vars(\E usable \in SUBSET Logs : Run(usable))
    /\ WF_vars(RemoveTask)
    /\ WF_vars(\E usable \in SUBSET Logs : StartTask(usable))
    /\ \A i \in Inputs, w \in Logs :
          WF_vars(Open(i, w)) /\ WF_vars(Read(i, w)) /\ WF_vars(OnEvent(i, w))
    /\ \A w \in Logs : WF_vars(Publish(w)) /\ WF_vars(Deliver(w))

Spec == Init /\ [][Next]_vars /\ Fairness

-----------------------------------------------------------------------------
(* Properties.                                                             *)

TypeOK ==
    /\ written \in [Logs -> Marks] /\ content \in [Logs -> Contents]
    /\ manager \in {"down", "running", "reloading", "ended"}
    /\ input \in 0 .. MaxReloads + 1 /\ stopped \subseteq Inputs
    /\ reader \in [Inputs -> [Logs -> Reader]]
    /\ \A i \in Inputs, w \in Logs : reader[i][w].pos <= reader[i][w].upto
    /\ {chain, queue} \subseteq [Logs -> Seq(Event)]
    /\ {acks, live, staged, saved, lastStates} \subseteq [Logs -> Marks \cup {None}]
    /\ managed \subseteq Logs
    /\ delivered \in [Logs -> SUBSET Event]
    /\ crashes \in 0 .. MaxCrashes /\ reloads \in 0 .. MaxReloads

DeliveredRecords(w) == {e.rec : e \in delivered[w]}

\* Whatever ends, fails or starts again, and although the readers of an ended
\* input read on beside those of the new one, a record is never delivered
\* before all earlier records of its log have been (run, OnEvent, NewInput).
DeliveredInOrder ==
    \A w \in Logs : \A r \in DeliveredRecords(w) : 1 .. r \subseteq DeliveredRecords(w)

\* No mark that a restart or a reload may start from passes a record that has
\* not been delivered, and nothing is taken back: the input, its chain and
\* the registry implement module Collection.
Promise == INSTANCE Collection
    WITH Streams <- Logs, Last <- MaxRecord,
         Wanted <- [w \in Logs |-> Records],
         delivered <- [w \in Logs |-> DeliveredRecords(w)],
         resume <- [w \in Logs |->
                      {live[w], staged[w], saved[w], lastStates[w]} \ {None}]

CollectsAll == Promise!CSpec

\* The event data and the user data of a delivered event have, under each name,
\* the first non-empty value of that name, the user data its local name as well
\* and before any pair; they are left out only if all values are empty
\* (ToEvent, addPairs, addOptional).
FieldsAreFirstOfEach ==
    \A w \in Logs : \A e \in delivered[w] : FieldsOf(e.data, content[w])

\* A record that has been written is delivered, unless its log could not be
\* opened or a read of it failed: an empty read is no reason to give up.
EventuallyCollected ==
    \A w \in Logs, r \in Records :
        written[w] >= r ~> \/ r \in DeliveredRecords(w)
                           \/ input > 0 /\ reader[input][w].pc = "failed"

\* "For all states covered by an input, TTL will be overwritten with the
\* input value" (ResetStates): the collection drops no state of a log that
\* an input reads.
Covering(w) ==
    /\ manager = "running"
    /\ reader[input][w].pc \in {"reading", "handing"}

CoveredStatesStay ==
    [][\A w \in Logs :
          Covering(w) /\ live[w] # None /\ manager' = "running" => live'[w] # None]_vars
=============================================================================
