------------------------------ MODULE Registrar ------------------------------
(***************************************************************************)
(* The registry of collection progress, src/registrar/registrar.go.        *)
(*                                                                         *)
(* One goroutine (run) owns the states in memory.  It takes acknowledged   *)
(* batches from Channel (capacity one), and at every flush tick writes the *)
(* states whose IDs are in stateIDCache into the key-value store; a        *)
(* garbage-collection tick makes the next flush drop expired states first. *)
(* The store (libgse storage, external) buffers what is Set and persists   *)
(* its buffer later, in a goroutine of its own: `view' is what Get and     *)
(* List answer, `disk' is what survives a crash.  A flush and a migration  *)
(* are one step on `view', which nobody else reads, but `disk' may be left *)
(* with any part of their calls that a sync in between has persisted.      *)
(*                                                                         *)
(* A source is a file or a Windows event log.  The ID of a file's state    *)
(* depends on the configured file identifier (inode, path, inode_path),    *)
(* which may differ from one process to the next.                          *)
(***************************************************************************)
EXTENDS Integers

CONSTANTS Sources,       \* files and event logs being collected
          WinLogs,       \* the event logs among them
          Ids,           \* state IDs, also the storage keys
          Identifiers,   \* values of the option file_identifier
          IdOf,          \* IdOf[i][s]: ID of the state of s under i
          Legacies,      \* contents the v1 registry key may have at first
          Batches,       \* batches the publisher may acknowledge
          NoState,       \* no state under this ID
          MaxOffset, MaxClock   \* bounds of the instance

Offsets == 0 .. MaxOffset
Times   == 0 .. MaxClock

\* Time-to-live of a state: -2, 1ns, -1, 0 and any other positive duration.
Ttls == {"unmanaged", "nano", "never", "zero", "timed"}

\* What the JSON of a state keeps of it, as far as a restart can tell.
Saved == [src : Sources, ident : Identifiers, off : Offsets, ts : Times]

\* A state in memory.
State == [src : Sources, ident : Identifiers, off : Offsets, ts : Times,
          ttl : Ttls, fin : BOOLEAN]

\* ID of a state (file.State.ID, external): it depends on the identifier
\* the state itself carries.
ID(s) == IdOf[s.ident][s.src]

\* A batch as AckEvents sends it: the last state of each ID.
Batch == [Ids -> State \cup {NoState}]

Nothing == [id \in Ids |-> NoState]

IdAssumption ==
    /\ WinLogs \subseteq Sources
    /\ IdOf \in [Identifiers -> [Sources -> Ids]]
    \* an event log names its ID itself, whatever the identifier, and no
    \* other source has that ID
    /\ \A w \in WinLogs, i, j \in Identifiers, s \in Sources :
          IdOf[i][w] = IdOf[j][s] <=> s = w

BoundAssumption == MaxOffset \in Nat /\ MaxClock \in Nat

\* Acknowledged states belong to logs an input manages, so their TTL is
\* never "unmanaged"; each is filed under its own ID.
BatchAssumption ==
    /\ Batches \subseteq Batch
    /\ \A batch \in Batches, id \in Ids : batch[id] # NoState =>
          ID(batch[id]) = id /\ batch[id].ttl \in {"never", "zero", "timed"}

\* A v1 registry was written in the past, with one state per ID.
LegacyAssumption ==
    \A legacy \in Legacies :
        /\ legacy \subseteq Saved
        /\ \A s, t \in legacy : ID(s) = ID(t) => s = t
        /\ \A s \in legacy : s.ts = 0

NoStateAssumption == NoState \notin State \cup Saved \cup Offsets

ASSUME RegistrarAssumption ==
    /\ IdAssumption
    /\ BoundAssumption
    /\ BatchAssumption
    /\ LegacyAssumption
    /\ NoStateAssumption

VARIABLES
    pc,          \* "down", "running" (goroutine run), "stopped"
    mem,         \* states
    cache,       \* stateIDCache: IDs waiting to be persisted
    channel,     \* Channel: at most one batch
    gcRequired,
    view,        \* the store as this process sees it
    disk,        \* the store as a crash would leave it
    now          \* wall clock

vars == <<pc, mem, cache, channel, gcRequired, view, disk, now>>

Store == [time   : BOOLEAN,               \* timeKey is present
          legacy : SUBSET Saved,          \* registrarKey; {} when absent
          states : [Ids -> Saved \cup {NoState}]]

Live == {id \in Ids : mem[id] # NoState}

-----------------------------------------------------------------------------
(* Loading the registry: Init, deduplicateStates, ResetStates.             *)

\* The states the store holds: the v1 key when it is there, otherwise every
\* key with the state prefix; nothing at all before the first flush.
Stored(store) ==
    IF ~store.time THEN {}
    ELSE IF store.legacy # {} THEN store.legacy
    ELSE {store.states[k] : k \in Ids} \ {NoState}

\* The stored states that have this ID once they carry identifier i.
Candidates(store, i, id) == {s \in Stored(store) : IdOf[i][s.src] = id}

\* deduplicateStates keeps a newest one (which one of several with the same
\* timestamp depends on the order in which the store lists them).
Newest(S) == {s \in S : \A t \in S : t.ts <= s.ts}

\* ResetStates: finished, and with the TTL of a state no input manages.
Reset(s, i) == [src |-> s.src, ident |-> i, off |-> s.off, ts |-> s.ts,
                ttl |-> "unmanaged", fin |-> TRUE]

Loaded(store, i, id) ==
    IF Candidates(store, i, id) = {} THEN {NoState}
    ELSE {Reset(s, i) : s \in Newest(Candidates(store, i, id))}

\* The states of the v1 list that have these IDs are copied under new keys.
Copied(store, ids) ==
    IF ~store.time THEN store
    ELSE [store EXCEPT !.states = [id \in Ids |->
              IF id \in ids /\ \E s \in store.legacy : ID(s) = id
              THEN CHOOSE s \in store.legacy : ID(s) = id
              ELSE store.states[id]]]

\* Mutant of Migrated: the v1 key is not deleted.
MigratedKeepsKey(store) == Copied(store, Ids)

\* The v1 list is copied under the new keys, then its own key is deleted.
Migrated(store) ==
    IF store.time THEN [Copied(store, Ids) EXCEPT !.legacy = {}] ELSE store

\* The store syncs at any moment of the migration, or not at all.
New(i) ==
    /\ pc = "down"
    /\ pc' = "running"
    /\ mem' \in [Ids -> UNION {Loaded(view, i, id) : id \in Ids}]
    /\ \A id \in Ids : mem'[id] \in Loaded(view, i, id)
    /\ view' = Migrated(view)
    /\ disk' \in {disk, Migrated(view)} \cup {Copied(view, ids) : ids \in SUBSET Ids}
    /\ UNCHANGED <<cache, channel, gcRequired, now>>

-----------------------------------------------------------------------------
(* The goroutine run.                                                      *)

\* The publisher's callback hands a batch over; it blocks while the channel
\* is full, whether or not anyone still reads it.
AckEvents(batch) ==
    /\ pc # "down"
    /\ channel = Nothing
    /\ batch # Nothing
    /\ \A id \in Ids : batch[id] # NoState => batch[id].ts <= now
    /\ channel' = batch
    /\ UNCHANGED <<pc, mem, cache, gcRequired, view, disk, now>>

\* Mutant of Stamped: the state keeps the timestamp it came with.
StampedNever(s) == s

\* States are stamped with the current time, except those of event logs.
Stamped(s) == IF s.src \in WinLogs THEN s ELSE [s EXCEPT !.ts = now]

\* Mutant of OnEvents: the IDs are not put into the cache.
OnEventsUncached ==
    /\ pc = "running"
    /\ channel # Nothing
    /\ mem' = [id \in Ids |-> IF channel[id] = NoState THEN mem[id]
                              ELSE Stamped(channel[id])]
    /\ channel' = Nothing
    /\ UNCHANGED <<pc, cache, gcRequired, view, disk, now>>

OnEvents ==
    /\ pc = "running"
    /\ channel # Nothing
    /\ mem' = [id \in Ids |-> IF channel[id] = NoState THEN mem[id]
                              ELSE Stamped(channel[id])]
    /\ cache' = cache \cup {id \in Ids : channel[id] # NoState}
    /\ channel' = Nothing
    /\ UNCHANGED <<pc, gcRequired, view, disk, now>>

GcTick ==
    /\ pc = "running"
    /\ gcRequired' = TRUE
    /\ UNCHANGED <<pc, mem, cache, channel, view, disk, now>>

\* Mutant of Persisted: the state is written with everything it has in memory.
PersistedWhole(s) == s

Persisted(s) == [src |-> s.src, ident |-> s.ident, off |-> s.off, ts |-> s.ts]

\* gcStates does something only when it was asked to and has states.
Collects == gcRequired /\ Live # {}

Unmanaged == {id \in Live : mem[id].ttl = "unmanaged"}

\* Unmanaged states get one nanosecond to live, counted from now.
Aged(id) == IF Collects /\ id \in Unmanaged
            THEN [mem[id] EXCEPT !.ttl = "nano", !.ts = now]
            ELSE mem[id]

\* States.Cleanup (external) drops a finished state with TTL zero, or with a
\* positive TTL that has expired.
Droppable(s) == s.fin /\ s.ttl \in {"zero", "timed", "nano"}

\* The states whose positive TTL may have run out by now; `expired' are those
\* of them for which it has.
Expirable == {id \in Live : Collects /\ Droppable(Aged(id)) /\ Aged(id).ttl # "zero"}

Dropped(expired) ==
    {id \in Live : /\ Collects
                   /\ Droppable(Aged(id))
                   /\ Aged(id).ttl = "zero" \/ id \in expired}

\* What the store holds after a flush that left `kept' in memory.
Written(kept, gone, pending) ==
    [time   |-> TRUE,
     legacy |-> view.legacy,
     states |-> [id \in Ids |->
         IF id \in gone THEN NoState
         ELSE IF id \in pending /\ kept[id] # NoState THEN Persisted(kept[id])
         ELSE view.states[id]]]

\* What a sync in the middle of the flush persists: dropped states are
\* deleted first, then timeKey and the pending states are written.
Midway(kept, gone, pending) ==
    {[view EXCEPT !.states = [id \in Ids |->
          IF id \in deleted THEN NoState ELSE view.states[id]]] : deleted \in SUBSET gone}
    \cup {Written(kept, gone, written) : written \in SUBSET pending}

\* Mutant of FlushRegistry: dropped states stay in the store.
FlushWithoutDelete(expired) ==
    LET gone    == Dropped(expired)
        kept    == [id \in Ids |-> IF id \in gone THEN NoState ELSE Aged(id)]
        pending == cache \cup (IF Collects THEN Unmanaged ELSE {})
    IN  /\ mem' = kept
        /\ view' = Written(kept, {}, pending)
        /\ disk' = disk
        /\ cache' = {}
        /\ gcRequired' = (gcRequired /\ ~Collects)

\* Mutant of FlushRegistry: states aged by the collection are not cached.
FlushWithoutAged(expired) ==
    LET gone == Dropped(expired)
        kept == [id \in Ids |-> IF id \in gone THEN NoState ELSE Aged(id)]
    IN  /\ mem' = kept
        /\ view' = Written(kept, gone, cache)
        /\ disk' = disk
        /\ cache' = {}
        /\ gcRequired' = (gcRequired /\ ~Collects)

\* A flush collects, then writes every cached ID that has a state; the store
\* may sync at any moment of it, or not at all.
FlushRegistry(expired) ==
    LET gone    == Dropped(expired)
        kept    == [id \in Ids |-> IF id \in gone THEN NoState ELSE Aged(id)]
        pending == cache \cup (IF Collects THEN Unmanaged ELSE {})
    IN  /\ cache' = {}
        /\ gcRequired' = (gcRequired /\ ~Collects)
        /\ mem' = kept
        /\ view' = Written(kept, gone, pending)
        /\ disk' = disk \/ disk' \in Midway(kept, gone, pending)

FlushTick(expired) ==
    /\ pc = "running"
    /\ UNCHANGED <<pc, channel, now>>
    /\ FlushRegistry(expired)

\* Mutant of Stop: the goroutine ends without the deferred flush.
StopWithoutFlush(expired) ==
    /\ pc = "running"
    /\ pc' = "stopped"
    /\ UNCHANGED <<mem, cache, channel, gcRequired, view, disk, now>>

\* The done channel is closed: the deferred flush runs and the goroutine
\* ends.  A batch still in Channel stays there.
Stop(expired) ==
    /\ pc = "running"
    /\ pc' = "stopped"
    /\ FlushRegistry(expired)
    /\ UNCHANGED <<channel, now>>

-----------------------------------------------------------------------------
(* The store, the process and the clock.                                   *)

\* The store writes its buffer to the database in one transaction.
StorageSync ==
    /\ pc # "down"
    /\ disk' = view
    /\ UNCHANGED <<pc, mem, cache, channel, gcRequired, view, now>>

ProcessEnds ==
    /\ pc' = "down"
    /\ mem' = Nothing
    /\ cache' = {}
    /\ channel' = Nothing
    /\ gcRequired' = FALSE
    /\ now' = now

\* After Stop the framework closes the store, which persists its buffer.
Exit ==
    /\ pc = "stopped"
    /\ disk' = view
    /\ view' = view
    /\ ProcessEnds

Crash ==
    /\ pc # "down"
    /\ view' = disk
    /\ disk' = disk
    /\ ProcessEnds

Tick ==
    /\ now < MaxClock
    /\ now' = now + 1
    /\ UNCHANGED <<pc, mem, cache, channel, gcRequired, view, disk>>

-----------------------------------------------------------------------------

Init ==
    /\ pc = "down"
    /\ mem = Nothing
    /\ cache = {}
    /\ channel = Nothing
    /\ gcRequired = FALSE
    /\ \E legacy \in Legacies :
          view = [time |-> legacy # {}, legacy |-> legacy, states |-> Nothing]
    /\ disk = view
    /\ now = 0

Next ==
    \/ \E i \in Identifiers : New(i)
    \/ \E batch \in Batches : AckEvents(batch)
    \/ OnEvents
    \/ GcTick
    \/ \E expired \in SUBSET Expirable : FlushTick(expired)
    \/ \E expired \in SUBSET Expirable : Stop(expired)
    \/ StorageSync
    \/ Exit
    \/ Crash
    \/ Tick

\* The select of run serves each of its cases again and again; the store's
\* own flusher runs periodically.
Fairness ==
    /\ WF_vars(OnEvents)
    /\ WF_vars(\E expired \in SUBSET Expirable : FlushTick(expired))
    /\ WF_vars(StorageSync)

Spec == Init /\ [][Next]_vars /\ Fairness

-----------------------------------------------------------------------------
(* Properties.                                                             *)

TypeOK ==
    /\ pc \in {"down", "running", "stopped"}
    /\ mem \in [Ids -> State \cup {NoState}]
    /\ cache \subseteq Ids
    /\ channel \in Batch
    /\ gcRequired \in BOOLEAN
    /\ view \in Store
    /\ disk \in Store
    /\ now \in Times

\* A restart right now would find progress at least as new as m, whichever
\* identifier it is configured with.
RestartFinds(m) ==
    \A i \in Identifiers :
        \E s \in Stored(view) : IdOf[i][s.src] = IdOf[i][m.src] /\ s.ts >= m.ts

\* The flush is incremental: it writes only the IDs in stateIDCache.  No state
\* in memory may be newer than the store without its ID waiting there, or the
\* flush would never write it (onEvents, flushRegistry, gcStates).
DirtyIsCached == \A id \in Live \ cache : RestartFinds(mem[id])

\* Under one identifier a restart right now gives back, for every ID that is
\* not waiting to be persisted, exactly the progress held in memory: what
\* was flushed, and nothing for a state the collection has dropped
\* (flushRegistry, gcStates, deduplicateStates together).
RestartRestores ==
    pc # "down" => \A id \in Ids \ cache, i \in Identifiers :
        \A s \in Loaded(view, i, id) :
            IF mem[id] = NoState THEN s = NoState
            ELSE s # NoState /\ s.off = mem[id].off /\ s.src = mem[id].src

\* When the goroutine has ended, everything it had received is in the store
\* ("Writes registry on shutdown").
ShutdownWritesAll ==
    pc = "stopped" => \A id \in Live : RestartFinds(mem[id])

\* The stored progress of a log is replaced by older progress only in a
\* crash: event-driven updates, collection and migration keep or advance it.
StoredNeverOlder ==
    [][\A id \in Ids :
          LET old == view.states[id]
              new == view'.states[id]
          IN  old # NoState /\ new # NoState /\ old.src \notin WinLogs
                  => new.ts >= old.ts \/ pc' = "down"]_vars

\* "What is not in the new list is deleted" (gcStates): when the collection
\* drops a state and memory has no other of the same source, the store has
\* none of it either, so that no restart finds it again.
Tracked(s) == \E id \in Live : mem[id].src = s

CollectedIsForgotten ==
    [][\A id \in Live, s \in Sources :
          mem[id].src = s /\ mem'[id] = NoState /\ ~Tracked(s)' /\ pc' # "down"
              => \A t \in Stored(view)' : t.src # s]_vars

\* With one identifier the incremental flush, the key-by-key deletions and
\* the load with its deduplication and v1 migration implement a store that
\* copies the whole map of offsets at once (module ProgressStore).
TheIdentifier == CHOOSE i \in Identifiers : TRUE

OffsetOf(s) == IF s = NoState THEN NoState ELSE s.off

Progress(store) ==
    [id \in Ids |->
        OffsetOf(CHOOSE s \in Loaded(store, TheIdentifier, id) : TRUE)]

Promise == INSTANCE ProgressStore
    WITH None   <- NoState,
         up     <- pc # "down",
         live   <- [id \in Ids |-> OffsetOf(mem[id])],
         staged <- Progress(view),
         saved  <- Progress(disk)

KeepsPromise == Promise!PSpec

\* Progress that reached memory becomes durable, unless it is replaced or
\* collected or the process ends first: the incremental flush and the
\* store's buffer together starve no ID.
Durable(id, off) == disk.states[id] # NoState /\ disk.states[id].off = off
Holds(id, off)   == mem[id] # NoState /\ mem[id].off = off

ProgressBecomesDurable ==
    \A id \in Ids, off \in Offsets :
        (pc = "running" /\ Holds(id, off))
            ~> (Durable(id, off) \/ ~Holds(id, off) \/ pc # "running")

=============================================================================
