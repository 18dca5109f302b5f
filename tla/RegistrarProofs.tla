--------------------------- MODULE RegistrarProofs ---------------------------
(***************************************************************************)
(* Proofs about the registry (module Registrar), for every set of sources, *)
(* IDs, batches and v1 contents and every bound.                           *)
(*                                                                         *)
(* TypeCorrect needs no assumption beyond those of the module.  What is    *)
(* restored and forgotten is proved on the assumption that one file        *)
(* identifier is configured for ever: with two of them RestartRestores and *)
(* CollectedIsForgotten are false.  That the incremental flush misses      *)
(* nothing is proved for any number of identifiers, in the last part.      *)
(***************************************************************************)
EXTENDS Registrar, TLAPS

\* Stored and live progress agree.
Same(m, s) == IF m = NoState THEN s = NoState
              ELSE s # NoState /\ s.off = m.off /\ s.src = m.src

\* Every state is filed under its own ID.
Filed(states) == \A id \in Ids : states[id] # NoState => ID(states[id]) = id

\* A store this program has written: nothing before the first flush, and
\* beside the v1 key only copies of its states.
WellFormed(store) ==
    /\ Filed(store.states)
    /\ ~store.time => store.legacy = {} /\ store.states = Nothing
    /\ store.legacy # {} =>
          /\ store.legacy \in Legacies
          /\ \A id \in Ids :
                store.states[id] # NoState => store.states[id] \in store.legacy

\* Whatever is not waiting to be persisted is the same in memory and in the
\* store.
Synced == pc # "down" => \A id \in Ids \ cache : Same(mem[id], view.states[id])

IInv ==
    /\ TypeOK
    /\ WellFormed(view)
    /\ WellFormed(disk)
    /\ Filed(mem)
    /\ Filed(channel)
    /\ pc = "down" => mem = Nothing /\ cache = {} /\ disk = view
    /\ pc # "down" => view.legacy = {}
    /\ pc = "stopped" => cache = {}
    /\ cache \subseteq Live
    /\ Synced

OneIdentifier == \E i \in Identifiers : Identifiers = {i}

-----------------------------------------------------------------------------
(* Type correctness.                                                       *)

LEMMA StateFacts ==
    /\ \A s \in State : s # NoState /\ Persisted(s) \in Saved
    /\ \A s \in Saved : s # NoState
    /\ \A s \in Saved, i \in Identifiers : Reset(s, i) \in State
    /\ Nothing \in Batch
    /\ Nothing \in [Ids -> Saved \cup {NoState}]
BY RegistrarAssumption
   DEF RegistrarAssumption, NoStateAssumption, State, Saved, Persisted, Reset,
       Nothing, Batch, Ttls

LEMMA StoredType ==
    ASSUME NEW store \in Store
    PROVE  Stored(store) \subseteq Saved
BY DEF Stored, Store

LEMMA LoadedType ==
    ASSUME NEW store \in Store, NEW i \in Identifiers, NEW id \in Ids
    PROVE  Loaded(store, i, id) \subseteq State \cup {NoState}
BY StoredType, StateFacts DEF Loaded, Candidates, Newest

\* The state that the v1 list has under an ID.
V1State(store, id) == CHOOSE s \in store.legacy : ID(s) = id

\* What copying the v1 list does, ID by ID.
LEMMA CopiedEffect ==
    ASSUME NEW store \in Store, NEW ids
    PROVE  /\ Copied(store, ids) \in Store
           /\ Copied(store, ids).time = store.time
           /\ Copied(store, ids).legacy = store.legacy
           /\ ~store.time => Copied(store, ids) = store
           /\ \A id \in Ids :
                 Copied(store, ids).states[id] =
                    IF store.time /\ id \in ids /\ \E s \in store.legacy : ID(s) = id
                    THEN V1State(store, id) ELSE store.states[id]
<1> DEFINE copies == [id \in Ids |->
                        IF id \in ids /\ \E s \in store.legacy : ID(s) = id
                        THEN V1State(store, id) ELSE store.states[id]]
<1>1. ASSUME NEW id \in Ids, \E s \in store.legacy : ID(s) = id
      PROVE  V1State(store, id) \in Saved
  BY <1>1 DEF Store, V1State
<1>2. CASE ~store.time
  BY <1>2 DEF Copied
<1>3. CASE store.time
  <2>1. Copied(store, ids) = [store EXCEPT !.states = copies]
    BY <1>3 DEF Copied, V1State
  <2>2. copies \in [Ids -> Saved \cup {NoState}]
    BY <1>1 DEF Store
  <2>3. /\ Copied(store, ids) \in Store
        /\ Copied(store, ids).time = store.time
        /\ Copied(store, ids).legacy = store.legacy
        /\ Copied(store, ids).states = copies
    BY <2>1, <2>2 DEF Store
  <2> QED
    BY <1>3, <2>3
<1> QED
  BY <1>2, <1>3

LEMMA MigratedEffect ==
    ASSUME NEW store \in Store
    PROVE  /\ Migrated(store) \in Store
           /\ Migrated(store).time = store.time
           /\ ~store.time => Migrated(store) = store
           /\ store.time => Migrated(store).legacy = {}
           /\ Migrated(store).states = Copied(store, Ids).states
<1>1. Copied(store, Ids) \in Store /\ Copied(store, Ids).time = store.time
      /\ (~store.time => Copied(store, Ids) = store)
  BY CopiedEffect
<1> QED
  BY <1>1 DEF Migrated, Store

LEMMA StampedType ==
    ASSUME NEW s \in State, now \in Times
    PROVE  Stamped(s) \in State /\ ID(Stamped(s)) = ID(s)
BY DEF Stamped, State, ID

LEMMA AgedFacts ==
    ASSUME TypeOK, NEW id \in Live
    PROVE  /\ Aged(id) \in State
           /\ Aged(id).src = mem[id].src
           /\ Aged(id).off = mem[id].off
           /\ ID(Aged(id)) = ID(mem[id])
           /\ ~(Collects /\ id \in Unmanaged) => Aged(id) = mem[id]
<1>1. mem[id] \in State /\ now \in Times
  BY DEF TypeOK, Live
<1> QED
  BY <1>1 DEF Aged, State, ID, Ttls

\* What FlushRegistry does, ID by ID.
LEMMA FlushEffect ==
    ASSUME TypeOK, NEW expired \in SUBSET Ids, FlushRegistry(expired)
    PROVE  /\ mem' \in [Ids -> State \cup {NoState}]
           /\ cache' = {}
           /\ gcRequired' \in BOOLEAN
           /\ view' \in Store
           /\ view'.time
           /\ view'.legacy = view.legacy
           /\ \A id \in Ids :
                /\ id \notin Live => mem'[id] = NoState
                /\ id \in Dropped(expired) => mem'[id] = NoState
                                              /\ view'.states[id] = NoState
                /\ id \in Live \ Dropped(expired) =>
                      mem'[id] = Aged(id) /\ mem'[id] # NoState
                /\ id \in cache \cup (IF Collects THEN Unmanaged ELSE {})
                   /\ mem'[id] # NoState
                      => view'.states[id] = Persisted(mem'[id])
                /\ id \notin Dropped(expired)
                   /\ (id \notin cache \cup (IF Collects THEN Unmanaged ELSE {})
                       \/ mem'[id] = NoState)
                      => view'.states[id] = view.states[id]
<1> DEFINE gone    == Dropped(expired)
           kept    == [id \in Ids |-> IF id \in gone THEN NoState ELSE Aged(id)]
           pending == cache \cup (IF Collects THEN Unmanaged ELSE {})
           written == [id \in Ids |->
                        IF id \in gone THEN NoState
                        ELSE IF id \in pending /\ kept[id] # NoState
                             THEN Persisted(kept[id])
                             ELSE view.states[id]]
<1>1. /\ mem' = kept
      /\ view' = [time |-> TRUE, legacy |-> view.legacy, states |-> written]
      /\ cache' = {}
      /\ gcRequired' = (gcRequired /\ ~Collects)
  BY DEF FlushRegistry, Written
<1>2. \A id \in Live : Aged(id) \in State /\ Aged(id) # NoState
  BY AgedFacts, StateFacts
<1>3. \A id \in Ids \ Live : Aged(id) = NoState
  BY DEF Aged, Live, Unmanaged
<1>4. Dropped(expired) \subseteq Live /\ Live \subseteq Ids
  BY DEF Dropped, Live
<1>5. kept \in [Ids -> State \cup {NoState}]
  BY <1>2, <1>3
<1>6. written \in [Ids -> Saved \cup {NoState}]
  <2>1. view.states \in [Ids -> Saved \cup {NoState}]
    BY DEF TypeOK, Store
  <2> QED
    BY <1>5, <2>1, StateFacts
<1>7. view' \in Store /\ view'.time = TRUE /\ view'.legacy = view.legacy
      /\ view'.states = written
  BY <1>1, <1>6 DEF TypeOK, Store
<1>8. gcRequired' \in BOOLEAN
  BY <1>1 DEF TypeOK
<1>9. ASSUME NEW id \in Ids
      PROVE  /\ id \notin Live => mem'[id] = NoState
             /\ id \in Dropped(expired) => mem'[id] = NoState
                                           /\ view'.states[id] = NoState
             /\ id \in Live \ Dropped(expired) =>
                   mem'[id] = Aged(id) /\ mem'[id] # NoState
             /\ id \in pending /\ mem'[id] # NoState
                   => view'.states[id] = Persisted(mem'[id])
             /\ id \notin Dropped(expired)
                /\ (id \notin pending \/ mem'[id] = NoState)
                   => view'.states[id] = view.states[id]
  BY <1>1, <1>2, <1>3, <1>4, <1>7
<1> QED
  BY <1>1, <1>5, <1>7, <1>8, <1>9

\* What a sync in the middle of the flush leaves: under every key what was
\* there before or what is there after.
LEMMA MidwayEffect ==
    ASSUME TypeOK, NEW expired \in SUBSET Ids, FlushRegistry(expired)
    PROVE  /\ disk' \in Store
           /\ \/ disk' = disk
              \/ /\ disk'.legacy = view.legacy
                 /\ \A id \in Ids :
                       disk'.states[id] \in {view.states[id], view'.states[id]}
                 /\ ~disk'.time => ~view.time /\ \A id \in Ids :
                       disk'.states[id] \in {NoState, view.states[id]}
<1> DEFINE gone    == Dropped(expired)
           kept    == [id \in Ids |-> IF id \in gone THEN NoState ELSE Aged(id)]
           pending == cache \cup (IF Collects THEN Unmanaged ELSE {})
<1>1. /\ disk' = disk \/ disk' \in Midway(kept, gone, pending)
      /\ view' = Written(kept, gone, pending)
      /\ mem' = kept
  BY DEF FlushRegistry
<1>2. /\ kept \in [Ids -> State \cup {NoState}]
      /\ view \in Store /\ disk \in Store
      /\ view.states \in [Ids -> Saved \cup {NoState}]
  BY <1>1, FlushEffect DEF TypeOK, Store
<1> HIDE DEF kept, gone, pending
<1>3. CASE disk' = disk
  BY <1>2, <1>3
<1>4. ASSUME NEW deleted \in SUBSET gone,
             disk' = [view EXCEPT !.states = [id \in Ids |->
                        IF id \in deleted THEN NoState ELSE view.states[id]]]
      PROVE  /\ disk' \in Store /\ disk'.legacy = view.legacy
             /\ disk'.time = view.time
             /\ \A id \in Ids :
                   /\ disk'.states[id] \in {NoState, view.states[id]}
                   /\ disk'.states[id] \in {view.states[id], view'.states[id]}
  <2> DEFINE states == [id \in Ids |-> IF id \in deleted THEN NoState
                                       ELSE view.states[id]]
  <2>1. states \in [Ids -> Saved \cup {NoState}]
    BY <1>2
  <2>2. disk' \in Store /\ disk'.legacy = view.legacy
        /\ disk'.time = view.time /\ disk'.states = states
    BY <1>2, <1>4, <2>1 DEF Store
  <2>3. \A id \in Ids : id \in gone => view'.states[id] = NoState
    BY <1>1 DEF Written
  <2> QED
    BY <2>2, <2>3
<1>5. ASSUME NEW written \in SUBSET pending, disk' = Written(kept, gone, written)
      PROVE  /\ disk' \in Store /\ disk'.legacy = view.legacy
             /\ disk'.time = TRUE
             /\ \A id \in Ids :
                   disk'.states[id] \in {view.states[id], view'.states[id]}
  <2> DEFINE states(set) ==
          [id \in Ids |-> IF id \in gone THEN NoState
                          ELSE IF id \in set /\ kept[id] # NoState
                               THEN Persisted(kept[id]) ELSE view.states[id]]
  <2>1. states(written) \in [Ids -> Saved \cup {NoState}]
    BY <1>2, StateFacts
  <2>2. /\ disk' = [time |-> TRUE, legacy |-> view.legacy, states |-> states(written)]
        /\ view'.states = states(pending)
    BY <1>1, <1>5 DEF Written
  <2>3. disk' \in Store /\ disk'.legacy = view.legacy /\ disk'.time = TRUE
        /\ disk'.states = states(written)
    BY <1>2, <2>1, <2>2 DEF Store
  <2> QED
    BY <2>2, <2>3
<1>6. CASE disk' \in Midway(kept, gone, pending)
  <2>1. \/ \E deleted \in SUBSET gone :
             disk' = [view EXCEPT !.states = [id \in Ids |->
                        IF id \in deleted THEN NoState ELSE view.states[id]]]
        \/ \E written \in SUBSET pending : disk' = Written(kept, gone, written)
    BY <1>6 DEF Midway
  <2> QED
    BY <1>4, <1>5, <2>1
<1> QED
  BY <1>1, <1>3, <1>6

LEMMA MidwayKeeps ==
    ASSUME TypeOK, NEW expired \in SUBSET Ids, FlushRegistry(expired),
           WellFormed(view), WellFormed(disk), view.legacy = {},
           Filed(view'.states)
    PROVE  WellFormed(disk')
<1>1. CASE disk' = disk
  BY <1>1
<1>2. CASE disk' # disk
  <2>1. /\ disk' \in Store /\ disk'.legacy = {}
        /\ \A id \in Ids : disk'.states[id] \in {view.states[id], view'.states[id]}
        /\ ~disk'.time => ~view.time /\ \A id \in Ids :
              disk'.states[id] \in {NoState, view.states[id]}
    BY <1>2, MidwayEffect
  <2>2. Filed(disk'.states)
    BY <2>1 DEF Filed, WellFormed
  <2>3. ASSUME ~disk'.time PROVE disk'.states = Nothing
    <3>1. \A id \in Ids : disk'.states[id] = NoState
      BY <2>1, <2>3 DEF WellFormed, Nothing
    <3>2. disk'.states \in [Ids -> Saved \cup {NoState}]
      BY <2>1 DEF Store
    <3> QED
      BY <3>1, <3>2 DEF Nothing
  <2> QED
    BY <2>1, <2>2, <2>3 DEF WellFormed
<1> QED
  BY <1>1, <1>2

\* Only states in memory expire.
LEMMA ExpirableIds == \A expired \in SUBSET Expirable : expired \in SUBSET Ids
BY DEF Expirable, Live

-----------------------------------------------------------------------------

LEMMA TypeInit == Init => TypeOK
<1> SUFFICES ASSUME Init PROVE TypeOK
  OBVIOUS
<1>1. PICK legacy \in Legacies :
          view = [time |-> legacy # {}, legacy |-> legacy, states |-> Nothing]
  BY DEF Init
<1>2. legacy \in SUBSET Saved
  BY RegistrarAssumption DEF RegistrarAssumption, LegacyAssumption
<1>3. view \in Store
  BY <1>1, <1>2, StateFacts DEF Store
<1>4. Nothing \in [Ids -> State \cup {NoState}]
  BY DEF Nothing
<1>5. 0 \in Times
  BY RegistrarAssumption DEF RegistrarAssumption, BoundAssumption, Times
<1> QED
  BY <1>3, <1>4, <1>5, StateFacts DEF Init, TypeOK

LEMMA TypeStep == TypeOK /\ [Next]_vars => TypeOK'
<1> SUFFICES ASSUME TypeOK, [Next]_vars PROVE TypeOK'
  OBVIOUS
<1>1. ASSUME NEW i \in Identifiers, New(i) PROVE TypeOK'
  <2>1. /\ view \in Store /\ disk \in Store /\ view' = Migrated(view)
        /\ \/ disk' \in {disk, Migrated(view)}
           \/ \E ids \in SUBSET Ids : disk' = Copied(view, ids)
    BY <1>1 DEF New, TypeOK
  <2>2. view' \in Store /\ disk' \in Store
    BY <2>1, MigratedEffect, CopiedEffect
  <2>3. \A id \in Ids : Loaded(view, i, id) \subseteq State \cup {NoState}
    BY <2>1, LoadedType
  <2>4. mem' \in [Ids -> State \cup {NoState}]
    BY <1>1, <2>3 DEF New
  <2> QED
    BY <1>1, <2>2, <2>4 DEF New, TypeOK
<1>2. ASSUME NEW batch \in Batches, AckEvents(batch) PROVE TypeOK'
  BY <1>2, RegistrarAssumption
     DEF AckEvents, TypeOK, RegistrarAssumption, BatchAssumption
<1>3. CASE OnEvents
  <2>1. \A id \in Ids : channel[id] # NoState => Stamped(channel[id]) \in State
    BY StampedType DEF TypeOK, Batch
  <2>2. mem' \in [Ids -> State \cup {NoState}]
    BY <1>3, <2>1 DEF OnEvents, TypeOK
  <2> QED
    BY <1>3, <2>2, StateFacts DEF OnEvents, TypeOK
<1>4. CASE GcTick
  BY <1>4 DEF GcTick, TypeOK
<1>5. ASSUME NEW expired \in SUBSET Ids, FlushTick(expired) PROVE TypeOK'
  <2>1. FlushRegistry(expired)
    BY <1>5 DEF FlushTick
  <2> QED
    BY <1>5, <2>1, FlushEffect, MidwayEffect DEF FlushTick, TypeOK
<1>6. ASSUME NEW expired \in SUBSET Ids, Stop(expired) PROVE TypeOK'
  <2>1. FlushRegistry(expired)
    BY <1>6 DEF Stop
  <2> QED
    BY <1>6, <2>1, FlushEffect, MidwayEffect DEF Stop, TypeOK
<1>7. CASE StorageSync
  BY <1>7 DEF StorageSync, TypeOK
<1>8. CASE Exit
  BY <1>8, StateFacts DEF Exit, ProcessEnds, TypeOK, Batch
<1>9. CASE Crash
  BY <1>9, StateFacts DEF Crash, ProcessEnds, TypeOK, Batch
<1>10. CASE Tick
  BY <1>10, RegistrarAssumption
     DEF Tick, TypeOK, Times, RegistrarAssumption, BoundAssumption
<1>11. CASE UNCHANGED vars
  BY <1>11 DEF vars, TypeOK
<1> QED
  BY <1>1, <1>2, <1>3, <1>4, <1>5, <1>6, <1>7, <1>8, <1>9, <1>10, <1>11,
     ExpirableIds DEF Next

\* The state of the registry is well typed in every reachable state.
THEOREM TypeCorrect == Spec => []TypeOK
BY TypeInit, TypeStep, PTL DEF Spec

-----------------------------------------------------------------------------
(* The inductive invariant, with one identifier.                           *)

\* Under one identifier a well-formed store without the v1 key loads, for
\* each ID, exactly what it holds under that key.
LEMMA LoadsItsKeys ==
    ASSUME OneIdentifier, NEW store \in Store, WellFormed(store),
           store.legacy = {}, NEW i \in Identifiers, NEW id \in Ids
    PROVE  Loaded(store, i, id) =
              {IF store.states[id] = NoState THEN NoState
               ELSE Reset(store.states[id], i)}
<1>1. \A k \in Ids : store.states[k] # NoState =>
          /\ store.states[k] \in Saved
          /\ IdOf[i][store.states[k].src] = k
  BY DEF OneIdentifier, WellFormed, Filed, Store, ID, Saved
<1>2. Stored(store) = {store.states[k] : k \in Ids} \ {NoState}
  <2>1. CASE store.time
    BY <2>1 DEF Stored
  <2>2. CASE ~store.time
    BY <2>2 DEF Stored, WellFormed, Nothing
  <2> QED
    BY <2>1, <2>2
<1>3. Candidates(store, i, id) =
          IF store.states[id] = NoState THEN {} ELSE {store.states[id]}
  BY <1>1, <1>2 DEF Candidates
<1>4. CASE store.states[id] = NoState
  BY <1>3, <1>4 DEF Loaded
<1>5. CASE store.states[id] # NoState
  <2>1. store.states[id].ts <= store.states[id].ts
    BY <1>1, <1>5, RegistrarAssumption
       DEF Saved, Times, RegistrarAssumption, BoundAssumption
  <2>2. Newest({store.states[id]}) = {store.states[id]}
    BY <2>1 DEF Newest
  <2> QED
    BY <1>3, <1>5, <2>2 DEF Loaded
<1> QED
  BY <1>4, <1>5

\* Copies beside the v1 key are not listed, and are of its states.
LEMMA CopyingKeeps ==
    ASSUME NEW store \in Store, WellFormed(store), NEW ids
    PROVE  /\ WellFormed(Copied(store, ids))
           /\ Stored(Copied(store, ids)) = Stored(store)
           /\ \A id \in Ids : Copied(store, ids).states[id] # NoState =>
                 Copied(store, ids).states[id] \in Stored(store)
<1> DEFINE new == Copied(store, ids)
<1>1. /\ new \in Store /\ new.time = store.time /\ new.legacy = store.legacy
      /\ ~store.time => new = store
      /\ \A id \in Ids :
            new.states[id] =
               IF store.time /\ id \in ids /\ \E s \in store.legacy : ID(s) = id
               THEN V1State(store, id) ELSE store.states[id]
  BY CopiedEffect
<1> HIDE DEF new
<1>2. \A id \in Ids : (\E s \in store.legacy : ID(s) = id) =>
          V1State(store, id) \in store.legacy /\ ID(V1State(store, id)) = id
  BY DEF V1State
<1>3. CASE ~store.time
  <2>1. new = store /\ store.states = Nothing
    BY <1>1, <1>3 DEF WellFormed
  <2> QED
    BY <2>1 DEF Nothing, new
<1>4. CASE store.time /\ store.legacy # {}
  <2>1. \A id \in Ids : new.states[id] # NoState =>
            new.states[id] \in store.legacy /\ ID(new.states[id]) = id
    BY <1>1, <1>2, <1>4 DEF WellFormed, Filed
  <2>2. WellFormed(new)
    BY <1>1, <1>4, <2>1 DEF WellFormed, Filed
  <2>3. Stored(new) = store.legacy /\ Stored(store) = store.legacy
    BY <1>1, <1>4 DEF Stored
  <2> QED
    BY <2>1, <2>2, <2>3 DEF new
<1>5. CASE store.time /\ store.legacy = {}
  <2>1. \A id \in Ids : new.states[id] = store.states[id]
    BY <1>1, <1>5
  <2>2. WellFormed(new)
    BY <1>1, <1>5, <2>1 DEF WellFormed, Filed
  <2>3. /\ Stored(new) = {new.states[k] : k \in Ids} \ {NoState}
        /\ Stored(store) = {store.states[k] : k \in Ids} \ {NoState}
    BY <1>1, <1>5 DEF Stored
  <2>4. Stored(new) = Stored(store)
    BY <2>1, <2>3
  <2> QED
    BY <2>1, <2>2, <2>3, <2>4 DEF new
<1> QED
  BY <1>3, <1>4, <1>5

\* Migrating a well-formed store keeps what it holds, under new keys.
LEMMA MigrationKeeps ==
    ASSUME NEW store \in Store, WellFormed(store)
    PROVE  /\ WellFormed(Migrated(store))
           /\ Migrated(store).legacy = {}
           /\ Stored(Migrated(store)) = Stored(store)
           /\ \A id \in Ids : store.states[id] # NoState =>
                 Migrated(store).states[id] = store.states[id]
<1> DEFINE new == Migrated(store)
<1>1. /\ new.time = store.time /\ (~store.time => new = store)
      /\ store.time => new.legacy = {}
      /\ \A id \in Ids :
            new.states[id] = IF store.time /\ \E s \in store.legacy : ID(s) = id
                             THEN V1State(store, id) ELSE store.states[id]
  BY MigratedEffect, CopiedEffect
<1> HIDE DEF new
<1>2. CASE ~store.time
  BY <1>1, <1>2 DEF WellFormed, new
<1>3. CASE store.time /\ store.legacy = {}
  <2>1. new.time /\ new.legacy = {} /\ \A id \in Ids : new.states[id] = store.states[id]
    BY <1>1, <1>3
  <2>2. WellFormed(new)
    BY <2>1 DEF WellFormed, Filed
  <2>3. /\ Stored(new) = {new.states[k] : k \in Ids} \ {NoState}
        /\ Stored(store) = {store.states[k] : k \in Ids} \ {NoState}
    BY <1>3, <2>1 DEF Stored
  <2>4. Stored(new) = Stored(store)
    BY <2>1, <2>3
  <2> QED
    BY <2>1, <2>2, <2>4 DEF new
<1>4. CASE store.time /\ store.legacy # {}
  <2>1. /\ store.legacy \in Legacies
        /\ store.legacy \subseteq Saved
        /\ Stored(store) = store.legacy
        /\ \A id \in Ids : store.states[id] # NoState =>
              store.states[id] \in store.legacy /\ ID(store.states[id]) = id
    BY <1>4 DEF WellFormed, Filed, Store, Stored
  <2>2. \A s, t \in store.legacy : ID(s) = ID(t) => s = t
    BY <2>1, RegistrarAssumption DEF RegistrarAssumption, LegacyAssumption
  <2>3. \A s \in store.legacy : ID(s) \in Ids /\ s # NoState
    BY <2>1, StateFacts, RegistrarAssumption
       DEF RegistrarAssumption, IdAssumption, ID, Saved
  <2>4. \A s \in store.legacy : V1State(store, ID(s)) = s
    BY <2>2 DEF V1State
  <2>5. \A s \in store.legacy : new.states[ID(s)] = s
    BY <1>1, <1>4, <2>3, <2>4
  <2>6. \A id \in Ids : new.states[id] # NoState =>
            new.states[id] \in store.legacy /\ ID(new.states[id]) = id
    BY <1>1, <1>4, <2>1, <2>4
  <2>7. new.time /\ new.legacy = {}
    BY <1>1, <1>4
  <2>8. WellFormed(new)
    BY <2>6, <2>7 DEF WellFormed, Filed
  <2>9. Stored(new) = {new.states[k] : k \in Ids} \ {NoState}
    BY <2>7 DEF Stored
  <2>10. Stored(new) = store.legacy
    BY <2>3, <2>5, <2>6, <2>9
  <2> QED
    BY <2>1, <2>5, <2>7, <2>8, <2>10 DEF new
<1> QED
  BY <1>2, <1>3, <1>4

\* What a store loads depends on the states it lists only.
LEMMA LoadsWhatIsStored ==
    ASSUME NEW store, NEW other, Stored(store) = Stored(other)
    PROVE  \A i, id : Loaded(store, i, id) = Loaded(other, i, id)
BY DEF Loaded, Candidates

\* Flushing re-establishes the agreement for every ID at once.
LEMMA FlushSyncs ==
    ASSUME IInv, pc # "down", NEW expired \in SUBSET Ids,
           FlushRegistry(expired)
    PROVE  /\ Filed(mem')
           /\ WellFormed(view') /\ WellFormed(disk')
           /\ view'.legacy = {}
           /\ cache' = {}
           /\ \A id \in Ids : Same(mem'[id], view'.states[id])
<1> DEFINE pending == cache \cup (IF Collects THEN Unmanaged ELSE {})
<1>1. TypeOK
  BY DEF IInv
<1>2. /\ mem' \in [Ids -> State \cup {NoState}]
      /\ view' \in Store /\ view'.time /\ view'.legacy = {} /\ cache' = {}
  BY <1>1, FlushEffect DEF IInv
<1>3. ASSUME NEW id \in Ids
      PROVE  /\ Same(mem'[id], view'.states[id])
             /\ mem'[id] # NoState => ID(mem'[id]) = id
             /\ view'.states[id] # NoState => ID(view'.states[id]) = id
  <2>1. mem[id] \in State \cup {NoState} /\ view.states[id] \in Saved \cup {NoState}
    BY <1>1 DEF TypeOK, Store
  <2>2. CASE id \in Dropped(expired)
    BY <1>1, <2>2, FlushEffect DEF Same
  <2>3. CASE id \notin Live
    <3>1. mem[id] = NoState /\ id \notin cache /\ id \notin Dropped(expired)
      BY <2>3 DEF Live, IInv, Dropped
    <3>2. view.states[id] = NoState
      BY <3>1 DEF IInv, Synced, Same
    <3>3. mem'[id] = NoState /\ view'.states[id] = view.states[id]
      BY <1>1, <2>3, <3>1, FlushEffect
    <3> QED
      BY <3>2, <3>3 DEF Same
  <2>4. CASE id \in Live \ Dropped(expired)
    <3>1. /\ mem'[id] = Aged(id) /\ mem'[id] # NoState
          /\ id \in pending => view'.states[id] = Persisted(mem'[id])
          /\ id \notin pending => view'.states[id] = view.states[id]
      BY <1>1, <2>4, FlushEffect
    <3>2. /\ Aged(id) \in State
          /\ ID(Aged(id)) = ID(mem[id])
          /\ ~(Collects /\ id \in Unmanaged) => Aged(id) = mem[id]
      BY <1>1, <2>4, AgedFacts
    <3>3. ID(mem[id]) = id
      BY <2>4 DEF IInv, Filed, Live
    <3>4. CASE id \in pending
      BY <3>1, <3>2, <3>3, <3>4, StateFacts DEF Same, Persisted, ID
    <3>5. CASE id \notin pending
      <4>1. mem'[id] = mem[id] /\ Same(mem[id], view.states[id])
        BY <3>1, <3>2, <3>5 DEF IInv, Synced
      <4>2. view.states[id] # NoState => ID(view.states[id]) = id
        BY DEF IInv, WellFormed, Filed
      <4> QED
        BY <3>1, <3>3, <3>5, <4>1, <4>2
    <3> QED
      BY <3>4, <3>5
  <2> QED
    BY <2>2, <2>3, <2>4
<1>4. Filed(mem') /\ WellFormed(view') /\ Filed(view'.states)
  BY <1>2, <1>3 DEF Filed, WellFormed
<1>5. WellFormed(disk')
  BY <1>1, <1>4, MidwayKeeps DEF IInv
<1> QED
  BY <1>2, <1>3, <1>4, <1>5

LEMMA IInvInit == OneIdentifier /\ Init => IInv
<1> SUFFICES ASSUME Init PROVE IInv
  OBVIOUS
<1>1. TypeOK
  BY TypeInit
<1>2. WellFormed(view) /\ disk = view
  <2>1. PICK legacy \in Legacies :
            view = [time |-> legacy # {}, legacy |-> legacy, states |-> Nothing]
    BY DEF Init
  <2> QED
    BY <2>1 DEF Init, WellFormed, Filed, Nothing
<1> QED
  BY <1>1, <1>2 DEF Init, IInv, Filed, Nothing, Synced

LEMMA IInvStep ==
    ASSUME OneIdentifier, IInv, [Next]_vars
    PROVE  IInv'
<1>1. TypeOK /\ TypeOK'
  BY TypeStep DEF IInv
<1>2. ASSUME NEW i \in Identifiers, New(i) PROVE IInv'
  <2>1. /\ view \in Store /\ WellFormed(view) /\ view' = Migrated(view)
        /\ pc' = "running" /\ cache = {} /\ cache' = {} /\ disk = view
        /\ \/ disk' \in {disk, Migrated(view)}
           \/ \E ids \in SUBSET Ids : disk' = Copied(view, ids)
    BY <1>1, <1>2 DEF New, IInv, TypeOK
  <2>2. WellFormed(view') /\ view'.legacy = {}
    BY <2>1, MigrationKeeps
  <2>3. \A id \in Ids :
            mem'[id] \in {IF view'.states[id] = NoState THEN NoState
                          ELSE Reset(view'.states[id], i)}
    <3>1. view' \in Store
      BY <1>1 DEF TypeOK
    <3>2. \A id \in Ids : Loaded(view, i, id) = Loaded(view', i, id)
      BY <2>1, MigrationKeeps, LoadsWhatIsStored
    <3>3. \A id \in Ids : mem'[id] \in Loaded(view, i, id)
      BY <1>2 DEF New
    <3> QED
      BY <2>2, <3>1, <3>2, <3>3, LoadsItsKeys
  <2>4. \A id \in Ids :
            /\ Same(mem'[id], view'.states[id])
            /\ mem'[id] # NoState => ID(mem'[id]) = id
    <3> TAKE id \in Ids
    <3>1. view'.states[id] \in Saved \cup {NoState}
      BY <1>1 DEF TypeOK, Store
    <3>2. view'.states[id] # NoState => ID(view'.states[id]) = id
      BY <2>2 DEF WellFormed, Filed
    <3>3. \A s \in Saved : Reset(s, i) # NoState /\ ID(Reset(s, i)) = ID(s)
                           /\ Reset(s, i).off = s.off /\ Reset(s, i).src = s.src
      BY StateFacts DEF Reset, ID, OneIdentifier, Saved
    <3> QED
      BY <2>3, <3>1, <3>2, <3>3 DEF Same
  <2> QED
    <3>1. channel' = channel /\ Filed(channel)
      BY <1>2 DEF New, IInv
    <3>2. WellFormed(disk')
      BY <2>1, MigrationKeeps, CopyingKeeps
    <3>3. cache' \subseteq Live'
      BY <2>1
    <3>4. Filed(mem') /\ Synced'
      BY <2>4 DEF Filed, Synced
    <3> QED
      BY <1>1, <2>1, <2>2, <3>1, <3>2, <3>3, <3>4 DEF IInv, Filed
<1>3. ASSUME NEW batch \in Batches, AckEvents(batch) PROVE IInv'
  <2>1. Filed(batch)
    BY RegistrarAssumption DEF RegistrarAssumption, BatchAssumption, Filed
  <2> QED
    BY <1>1, <1>3, <2>1 DEF AckEvents, IInv, Synced, Live
<1>4. CASE OnEvents
  <2>1. \A id \in Ids : channel[id] # NoState =>
            Stamped(channel[id]) # NoState /\ ID(Stamped(channel[id])) = id
    BY <1>1, StampedType, StateFacts DEF IInv, Filed, TypeOK, Batch
  <2>2. Filed(mem')
    BY <1>4, <2>1 DEF OnEvents, IInv, Filed
  <2>3. cache' \subseteq Live'
    BY <1>1, <1>4, <2>1 DEF OnEvents, IInv, Live, TypeOK
  <2>4. Synced'
    BY <1>4, <2>1 DEF OnEvents, IInv, Synced
  <2>5. Filed(channel')
    BY <1>4 DEF OnEvents, Filed, Nothing
  <2> QED
    BY <1>1, <1>4, <2>2, <2>3, <2>4, <2>5 DEF OnEvents, IInv
<1>5. CASE GcTick
  BY <1>1, <1>5 DEF GcTick, IInv, Synced, Live
<1>6. ASSUME NEW expired \in SUBSET Ids, FlushTick(expired) PROVE IInv'
  <2>1. FlushRegistry(expired) /\ pc = "running"
    BY <1>6 DEF FlushTick
  <2>2. /\ Filed(mem') /\ WellFormed(view') /\ WellFormed(disk')
        /\ view'.legacy = {}
        /\ cache' = {} /\ \A id \in Ids : Same(mem'[id], view'.states[id])
    BY <2>1, FlushSyncs
  <2> QED
    BY <1>1, <1>6, <2>2 DEF FlushTick, IInv, Synced
<1>7. ASSUME NEW expired \in SUBSET Ids, Stop(expired) PROVE IInv'
  <2>1. FlushRegistry(expired) /\ pc = "running"
    BY <1>7 DEF Stop
  <2>2. /\ Filed(mem') /\ WellFormed(view') /\ WellFormed(disk')
        /\ view'.legacy = {}
        /\ cache' = {} /\ \A id \in Ids : Same(mem'[id], view'.states[id])
    BY <2>1, FlushSyncs
  <2> QED
    BY <1>1, <1>7, <2>2 DEF Stop, IInv, Synced
<1>8. CASE StorageSync
  BY <1>1, <1>8 DEF StorageSync, IInv, Synced, Live
<1>9. CASE Exit
  BY <1>1, <1>9 DEF Exit, ProcessEnds, IInv, Synced, Filed, Nothing
<1>10. CASE Crash
  BY <1>1, <1>10 DEF Crash, ProcessEnds, IInv, Synced, Filed, Nothing
<1>11. CASE Tick
  BY <1>1, <1>11 DEF Tick, IInv, Synced, Live
<1>12. CASE UNCHANGED vars
  BY <1>1, <1>12 DEF vars, IInv, Synced, Live
<1> QED
  BY <1>2, <1>3, <1>4, <1>5, <1>6, <1>7, <1>8, <1>9, <1>10, <1>11, <1>12,
     ExpirableIds DEF Next

-----------------------------------------------------------------------------
(* The theorems.                                                           *)

\* With one identifier, a restart at any moment restores exactly the progress
\* in memory for every ID that is not waiting to be flushed.
THEOREM RestartRestoresAlways ==
    ASSUME OneIdentifier
    PROVE  Spec => []RestartRestores
<1>1. ASSUME IInv PROVE RestartRestores
  <2> SUFFICES ASSUME pc # "down", NEW id \in Ids \ cache, NEW i \in Identifiers,
                      NEW s \in Loaded(view, i, id)
               PROVE  IF mem[id] = NoState THEN s = NoState
                      ELSE s # NoState /\ s.off = mem[id].off
                           /\ s.src = mem[id].src
    BY DEF RestartRestores
  <2>1. view \in Store /\ WellFormed(view) /\ view.legacy = {}
    BY <1>1 DEF IInv, TypeOK
  <2>2. s = IF view.states[id] = NoState THEN NoState
            ELSE Reset(view.states[id], i)
    BY <2>1, LoadsItsKeys
  <2>3. Same(mem[id], view.states[id])
    BY <1>1 DEF IInv, Synced
  <2>4. view.states[id] \in Saved \cup {NoState}
    BY <2>1 DEF Store
  <2> QED
    BY <2>2, <2>3, <2>4, StateFacts DEF Same, Reset
<1>2. Init => IInv
  BY IInvInit
<1>3. IInv /\ [Next]_vars => IInv'
  BY IInvStep
<1> QED
  BY <1>1, <1>2, <1>3, PTL DEF Spec

\* With one identifier, a source whose last state the collection drops is
\* gone from the store at that very step.
THEOREM CollectedIsForgottenAlways ==
    ASSUME OneIdentifier
    PROVE  Spec => CollectedIsForgotten
<1> DEFINE Forgets ==
        \A id \in Live, s \in Sources :
            mem[id].src = s /\ mem'[id] = NoState /\ ~Tracked(s)' /\ pc' # "down"
                => \A t \in Stored(view)' : t.src # s
<1>1. ASSUME IInv, IInv', [Next]_vars PROVE Forgets
  <2> SUFFICES ASSUME NEW id \in Live, NEW s \in Sources, mem[id].src = s,
                      mem'[id] = NoState, ~Tracked(s)', pc' # "down",
                      NEW t \in Stored(view'), t.src = s
               PROVE  FALSE
    BY DEF Forgets
  <2>1. mem[id] # NoState /\ id \in Ids /\ pc # "down"
    BY <1>1 DEF IInv, Live, Nothing
  <2>2. cache' = {}
    <3>1. ASSUME NEW expired \in SUBSET Ids, FlushRegistry(expired)
          PROVE  cache' = {}
      BY <3>1 DEF FlushRegistry
    <3>2. ASSUME NEW b \in Batches, AckEvents(b) PROVE FALSE
      BY <2>1, <3>2 DEF AckEvents
    <3>3. ASSUME OnEvents PROVE FALSE
      <4>1. channel[id] # NoState => Stamped(channel[id]) # NoState
        BY <1>1, <2>1, StampedType, StateFacts DEF IInv, TypeOK, Batch
      <4> QED
        BY <2>1, <3>3, <4>1 DEF OnEvents
    <3> QED
      BY <1>1, <2>1, <3>1, <3>2, <3>3, ExpirableIds
         DEF Next, vars, New, GcTick, FlushTick, Stop, StorageSync, Exit,
             Crash, ProcessEnds, Tick
  <2>3. PICK k \in Ids : t = view'.states[k] /\ t # NoState
    BY <1>1 DEF IInv, Stored
  <2>4. Same(mem'[k], view'.states[k])
    BY <1>1, <2>2 DEF IInv, Synced
  <2>5. mem'[k] # NoState /\ mem'[k].src = t.src
    BY <2>3, <2>4 DEF Same
  <2> QED
    BY <2>5 DEF Tracked, Live
<1>2. Init => IInv
  BY IInvInit
<1>3. IInv /\ [Next]_vars => IInv'
  BY IInvStep
<1> QED
  BY <1>1, <1>2, <1>3, PTL DEF Spec, CollectedIsForgotten

-----------------------------------------------------------------------------
(* The refinement of ProgressStore.                                        *)

AbsLive == [id \in Ids |-> OffsetOf(mem[id])]

\* Stores that list the same states hold the same progress.
LEMMA ListsDecide ==
    ASSUME NEW store, NEW other, Stored(store) = Stored(other)
    PROVE  Progress(store) = Progress(other)
<1> DEFINE off(st, id) ==
        OffsetOf(CHOOSE s \in Loaded(st, TheIdentifier, id) : TRUE)
<1>1. \A id \in Ids : off(store, id) = off(other, id)
  <2> TAKE id \in Ids
  <2>1. Loaded(store, TheIdentifier, id) = Loaded(other, TheIdentifier, id)
    BY LoadsWhatIsStored
  <2> QED
    BY <2>1
<1>2. /\ Progress(store) = [id \in Ids |-> off(store, id)]
      /\ Progress(other) = [id \in Ids |-> off(other, id)]
  BY DEF Progress
<1> HIDE DEF off
<1> QED
  BY <1>1, <1>2

LEMMA ProgressIsStored ==
    ASSUME OneIdentifier, NEW store \in Store, WellFormed(store)
    PROVE  /\ Progress(store) = Progress(Migrated(store))
           /\ store.legacy = {} =>
                 Progress(store) = [id \in Ids |-> OffsetOf(store.states[id])]
           /\ Progress(store) \in [Ids -> Offsets \cup {NoState}]
<1>1. TheIdentifier \in Identifiers
  BY DEF TheIdentifier, OneIdentifier
<1>2. Progress(store) = Progress(Migrated(store))
  BY MigrationKeeps, ListsDecide
<1>3. ASSUME NEW st \in Store, WellFormed(st), st.legacy = {}
      PROVE  /\ Progress(st) = [id \in Ids |-> OffsetOf(st.states[id])]
             /\ Progress(st) \in [Ids -> Offsets \cup {NoState}]
  <2>1. ASSUME NEW id \in Ids
        PROVE  /\ OffsetOf(CHOOSE s \in Loaded(st, TheIdentifier, id) : TRUE)
                     = OffsetOf(st.states[id])
               /\ OffsetOf(st.states[id]) \in Offsets \cup {NoState}
    <3>1. st.states[id] \in Saved \cup {NoState}
      BY DEF Store
    <3>2. \A s \in Saved : Reset(s, TheIdentifier) # NoState
                           /\ Reset(s, TheIdentifier).off = s.off
      BY <1>1, StateFacts DEF Reset
    <3>3. Loaded(st, TheIdentifier, id) =
             {IF st.states[id] = NoState THEN NoState
              ELSE Reset(st.states[id], TheIdentifier)}
      BY <1>1, <1>3, LoadsItsKeys
    <3>4. (CHOOSE s \in Loaded(st, TheIdentifier, id) : TRUE) =
             IF st.states[id] = NoState THEN NoState
             ELSE Reset(st.states[id], TheIdentifier)
      BY <3>3
    <3> QED
      BY <3>1, <3>2, <3>4 DEF OffsetOf, Saved
  <2> QED
    BY <2>1 DEF Progress
<1>4. Migrated(store) \in Store /\ WellFormed(Migrated(store))
      /\ Migrated(store).legacy = {}
  BY MigratedEffect, MigrationKeeps
<1> QED
  BY <1>2, <1>3, <1>4

LEMMA PromiseInit == OneIdentifier /\ Init => Promise!PInit
<1> SUFFICES ASSUME OneIdentifier, Init PROVE Promise!PInit
  OBVIOUS
<1>1. view \in Store /\ WellFormed(view) /\ disk = view
  BY IInvInit DEF IInv, TypeOK, Init
<1>2. Progress(view) \in [Ids -> Offsets \cup {NoState}]
  BY <1>1, ProgressIsStored
<1>3. AbsLive = Nothing
  BY DEF Init, AbsLive, OffsetOf, Nothing
<1> QED
  BY <1>1, <1>2, <1>3
     DEF Init, Promise!PInit, Promise!Progress, Promise!Blank, AbsLive, Nothing

\* A flush, seen through the mapping, copies the whole live map, some keys
\* of it to the database.
LEMMA FlushIsPromised ==
    ASSUME OneIdentifier, IInv, IInv', pc # "down", pc' # "down",
           NEW expired \in SUBSET Ids, FlushRegistry(expired)
    PROVE  Promise!PNext
<1>1. /\ view' \in Store /\ WellFormed(view') /\ view'.legacy = {}
      /\ \A id \in Ids : Same(mem'[id], view'.states[id])
  BY FlushSyncs DEF IInv, TypeOK
<1>2. TypeOK
  BY DEF IInv
<1>3. \A id \in Ids : OffsetOf(mem'[id]) = OffsetOf(view'.states[id])
  BY <1>1 DEF Same, OffsetOf
<1>4. Progress(view') = AbsLive'
  BY <1>1, <1>3, ProgressIsStored DEF AbsLive
<1>5. \A id \in Ids :
         OffsetOf(mem'[id]) = IF id \in Dropped(expired) THEN NoState
                              ELSE OffsetOf(mem[id])
  <2> TAKE id \in Ids
  <2>1. CASE id \in Dropped(expired)
    BY <1>2, <2>1, FlushEffect DEF OffsetOf
  <2>2. CASE id \in Live \ Dropped(expired)
    <3>1. mem'[id] = Aged(id) /\ mem'[id] # NoState
      BY <1>2, <2>2, FlushEffect
    <3>2. Aged(id).off = mem[id].off
      BY <1>2, <2>2, AgedFacts
    <3> QED
      BY <2>2, <3>1, <3>2 DEF OffsetOf, Live
  <2>3. CASE id \notin Live
    <3>1. id \notin Dropped(expired) /\ mem[id] = NoState
      BY <2>3 DEF Dropped, Live
    <3>2. mem'[id] = NoState
      BY <1>2, <2>3, FlushEffect
    <3> QED
      BY <3>1, <3>2 DEF OffsetOf
  <2> QED
    BY <2>1, <2>2, <2>3
<1>6. Dropped(expired) \in SUBSET Ids
  BY DEF Dropped, Live
<1>7. AbsLive' = [id \in Ids |-> IF id \in Dropped(expired) THEN NoState
                                 ELSE AbsLive[id]]
  BY <1>5 DEF AbsLive
<1>8. CASE disk' = disk
  BY <1>4, <1>6, <1>7, <1>8 DEF Promise!PNext, Promise!Flush, AbsLive
<1>9. CASE disk' # disk
  <2> DEFINE ids == {id \in Ids : disk'.states[id] = view'.states[id]}
  <2>1. /\ disk' \in Store /\ disk'.legacy = {} /\ view.legacy = {}
        /\ \A id \in Ids : disk'.states[id] \in {view.states[id], view'.states[id]}
    BY <1>2, <1>9, MidwayEffect DEF IInv
  <2>2. /\ view \in Store /\ WellFormed(view) /\ WellFormed(disk')
    BY <1>2 DEF IInv, TypeOK
  <2>3. /\ Progress(disk') = [id \in Ids |-> OffsetOf(disk'.states[id])]
        /\ Progress(view) = [id \in Ids |-> OffsetOf(view.states[id])]
        /\ Progress(view') = [id \in Ids |-> OffsetOf(view'.states[id])]
    BY <1>1, <2>1, <2>2, ProgressIsStored
  <2>4. Progress(disk') = [id \in Ids |-> IF id \in ids THEN Progress(view')[id]
                                          ELSE Progress(view)[id]]
    BY <2>1, <2>3
  <2> HIDE DEF ids
  <2>5. ids \in SUBSET Ids
    BY DEF ids
  <2>6. Promise!Flush(Dropped(expired))
    BY <1>4, <1>7, <2>4, <2>5 DEF Promise!Flush, AbsLive
  <2> QED
    BY <1>6, <2>6 DEF Promise!PNext
<1> QED
  BY <1>8, <1>9

LEMMA PromiseStep ==
    ASSUME OneIdentifier, IInv, IInv', [Next]_vars
    PROVE  [Promise!PNext]_(Promise!pvars)
<1>1. /\ view \in Store /\ WellFormed(view) /\ disk \in Store /\ WellFormed(disk)
      /\ view' \in Store /\ WellFormed(view')
      /\ TypeOK /\ TypeOK'
  BY DEF IInv, TypeOK
<1>2. ASSUME NEW i \in Identifiers, New(i) PROVE Promise!PNext
  <2>1. /\ view' = Migrated(view) /\ pc = "down" /\ pc' = "running"
        /\ \/ disk' \in {disk, Migrated(view)}
           \/ \E ids \in SUBSET Ids : disk' = Copied(view, ids)
        /\ disk = view
    BY <1>2 DEF New, IInv
  <2>2. Progress(view') = Progress(view) /\ Progress(disk') = Progress(disk)
    <3>1. Stored(view') = Stored(view) /\ Stored(disk') = Stored(disk)
      BY <1>1, <2>1, MigrationKeeps, CopyingKeeps
    <3> QED
      BY <3>1, ListsDecide
  <2>3. i = TheIdentifier
    BY DEF OneIdentifier, TheIdentifier
  <2>4. \A id \in Ids : mem'[id] = CHOOSE s \in Loaded(view, i, id) : TRUE
    <3> TAKE id \in Ids
    <3>1. mem'[id] \in Loaded(view, i, id)
      BY <1>2 DEF New
    <3>2. Loaded(view, i, id) = Loaded(view', i, id) /\ view'.legacy = {}
      BY <1>1, <2>1, MigrationKeeps, LoadsWhatIsStored
    <3>3. Loaded(view', i, id) = {IF view'.states[id] = NoState THEN NoState
                                  ELSE Reset(view'.states[id], i)}
      BY <1>1, <3>2, LoadsItsKeys
    <3> QED
      BY <3>1, <3>2, <3>3
  <2>5. AbsLive' = Progress(view)
    BY <2>3, <2>4 DEF AbsLive, Progress
  <2>6. Promise!Start
    BY <2>1, <2>2, <2>5 DEF Promise!Start, AbsLive
  <2> QED
    BY <2>6 DEF Promise!PNext
<1>3. CASE OnEvents
  <2>1. AbsLive' \in [Ids -> Offsets \cup {NoState}]
    BY <1>1 DEF TypeOK, AbsLive, OffsetOf, State
  <2>2. \A id \in Ids : AbsLive'[id] = NoState => AbsLive[id] = NoState
    <3> TAKE id \in Ids
    <3>1. \A s \in State : OffsetOf(s) # NoState
      BY RegistrarAssumption
         DEF RegistrarAssumption, NoStateAssumption, OffsetOf, State
    <3>2. mem'[id] \in State \cup {NoState} /\ channel[id] \in State \cup {NoState}
      BY <1>1 DEF TypeOK, Batch
    <3>3. channel[id] # NoState => Stamped(channel[id]) \in State
      BY <1>1, <3>2, StampedType DEF TypeOK
    <3>4. mem'[id] = IF channel[id] = NoState THEN mem[id]
                     ELSE Stamped(channel[id])
      BY <1>3 DEF OnEvents
    <3>5. AbsLive'[id] = OffsetOf(mem'[id]) /\ AbsLive[id] = OffsetOf(mem[id])
      BY DEF AbsLive
    <3>6. CASE channel[id] = NoState
      BY <3>4, <3>5, <3>6
    <3>7. CASE channel[id] # NoState
      BY <3>1, <3>3, <3>4, <3>5, <3>7
    <3> QED
      BY <3>6, <3>7
  <2> QED
    BY <1>3, <2>1, <2>2
       DEF OnEvents, Promise!PNext, Promise!Update, Promise!Progress, AbsLive
<1>4. ASSUME NEW expired \in SUBSET Ids, FlushTick(expired) PROVE Promise!PNext
  BY <1>4, FlushIsPromised DEF FlushTick
<1>5. ASSUME NEW expired \in SUBSET Ids, Stop(expired) PROVE Promise!PNext
  BY <1>5, FlushIsPromised DEF Stop
<1>6. CASE StorageSync
  BY <1>6 DEF StorageSync, Promise!PNext, Promise!Sync
<1>7. CASE Exit
  <2>1. \A id \in Ids : Same(mem[id], view.states[id])
    BY <1>7 DEF Exit, IInv, Synced
  <2>2. AbsLive = Progress(view)
    <3>1. \A id \in Ids : OffsetOf(mem[id]) = OffsetOf(view.states[id])
      BY <2>1 DEF Same, OffsetOf
    <3>2. view.legacy = {}
      BY <1>7 DEF Exit, IInv
    <3> QED
      BY <1>1, <3>1, <3>2, ProgressIsStored DEF AbsLive
  <2>3. AbsLive' = Nothing
    BY <1>7 DEF Exit, ProcessEnds, AbsLive, OffsetOf, Nothing
  <2> QED
    BY <1>7, <2>2, <2>3
       DEF Exit, ProcessEnds, Promise!PNext, Promise!Halt, Promise!Blank,
           AbsLive, Nothing
<1>8. CASE Crash
  <2>1. AbsLive' = Nothing
    BY <1>8 DEF Crash, ProcessEnds, AbsLive, OffsetOf, Nothing
  <2> QED
    BY <1>8, <2>1
       DEF Crash, ProcessEnds, Promise!PNext, Promise!Fail, Promise!Blank,
           AbsLive, Nothing
<1>9. CASE \/ \E batch \in Batches : AckEvents(batch)
           \/ GcTick \/ Tick \/ UNCHANGED vars
  <2>1. mem' = mem /\ view' = view /\ disk' = disk /\ pc' = pc
    BY <1>9 DEF AckEvents, GcTick, Tick, vars
  <2> QED
    BY <2>1 DEF Promise!pvars
<1> QED
  BY <1>2, <1>3, <1>4, <1>5, <1>6, <1>7, <1>8, <1>9, ExpirableIds DEF Next

\* With one identifier the registry implements ProgressStore: its incremental
\* flush, its deletions and its load are invisible.
THEOREM RegistrarKeepsPromise ==
    ASSUME OneIdentifier
    PROVE  Spec => KeepsPromise
<1>1. Init => IInv /\ Promise!PInit
  BY IInvInit, PromiseInit
<1>2. IInv /\ [Next]_vars => IInv'
  BY IInvStep
<1>3. IInv /\ IInv' /\ [Next]_vars => [Promise!PNext]_(Promise!pvars)
  BY PromiseStep
<1> QED
  BY <1>1, <1>2, <1>3, PTL DEF Spec, KeepsPromise, Promise!PSpec

-----------------------------------------------------------------------------
(* The incremental flush misses nothing, for every number of file          *)
(* identifiers: a process may write its states under other keys than the   *)
(* one that loaded them.  The theorems assume that an ID tells the source, *)
(* whichever identifier it is of.                                          *)

IdsTellSources ==
    \A i, j \in Identifiers, s, t \in Sources : IdOf[i][s] = IdOf[j][t] => s = t

\* No state has a timestamp of the future.
Past(states) == \A id \in Ids : states[id] # NoState => states[id].ts <= now

AllPast == Past(mem) /\ Past(channel) /\ Past(view.states) /\ Past(disk.states)

\* Key k of the store holds progress of the source of m that is as new as m.
Backs(k, m) ==
    /\ view.states[k] # NoState
    /\ view.states[k].src = m.src
    /\ view.states[k].ts >= m.ts

\* A state that is not waiting to be persisted has been under its own key,
\* or has been loaded from some key and not been touched since.
Backed ==
    \A id \in Live \ cache :
        \E k \in Ids : Backs(k, mem[id]) /\ (k = id \/ mem[id].ttl = "unmanaged")

\* What is in memory is at least as new as what is stored under its ID.
NotBehind ==
    \A id \in Live :
        view.states[id] # NoState /\ mem[id].src \notin WinLogs
            => mem[id].ts >= view.states[id].ts

JInv ==
    /\ TypeOK
    /\ WellFormed(view) /\ WellFormed(disk)
    /\ Filed(mem) /\ Filed(channel)
    /\ pc = "down" => mem = Nothing /\ cache = {} /\ disk = view
    /\ pc # "down" => view.legacy = {}
    /\ pc = "stopped" => cache = {}
    /\ AllPast
    /\ Backed
    /\ NotBehind

-----------------------------------------------------------------------------

LEMMA TimeFacts ==
    /\ Times \subseteq Int
    /\ \A s \in State : s.ts \in Int /\ s.src \in Sources /\ s.ident \in Identifiers
    /\ \A s \in Saved : s.ts \in Int /\ s.src \in Sources /\ s.ident \in Identifiers
BY RegistrarAssumption
   DEF RegistrarAssumption, BoundAssumption, Times, State, Saved

\* The progress of a source is filed under one ID only if that ID is its own.
LEMMA SameIdSameSource ==
    ASSUME IdsTellSources, NEW s \in State \cup Saved, NEW t \in State \cup Saved,
           ID(s) = ID(t)
    PROVE  s.src = t.src
BY TimeFacts DEF IdsTellSources, ID

\* Migration keeps the set of stored states, and gives it new keys.
LEMMA MigrationStores ==
    ASSUME NEW store \in Store, WellFormed(store)
    PROVE  /\ WellFormed(Migrated(store))
           /\ Migrated(store).legacy = {}
           /\ \A s \in Stored(store) :
                 \E k \in Ids : Migrated(store).states[k] = s
           /\ \A k \in Ids : Migrated(store).states[k] # NoState =>
                 Migrated(store).states[k] \in Stored(store)
<1> DEFINE new == Migrated(store)
<1>1. /\ WellFormed(new) /\ new.legacy = {} /\ Stored(new) = Stored(store)
  BY MigrationKeeps
<1> HIDE DEF new
<1>2. CASE new.time
  <2>1. Stored(new) = {new.states[k] : k \in Ids} \ {NoState}
    BY <1>1, <1>2 DEF Stored
  <2> QED
    BY <1>1, <2>1 DEF new
<1>3. CASE ~new.time
  <2>1. Stored(new) = {} /\ new.states = Nothing
    BY <1>1, <1>3 DEF Stored, WellFormed
  <2> QED
    BY <1>1, <2>1 DEF new, Nothing
<1> QED
  BY <1>2, <1>3

\* What the store holds is of the past, the v1 states included.
LEMMA StoredIsPast ==
    ASSUME JInv, NEW s \in Stored(view)
    PROVE  s.ts <= now
<1>1. view \in Store /\ WellFormed(view) /\ Past(view.states) /\ now \in Times
  BY DEF JInv, AllPast, TypeOK
<1>2. CASE view.legacy # {}
  <2>1. view.legacy \in Legacies /\ s \in view.legacy
    BY <1>1, <1>2 DEF WellFormed, Stored
  <2>2. s.ts = 0
    BY <2>1, RegistrarAssumption DEF RegistrarAssumption, LegacyAssumption
  <2> QED
    BY <1>1, <2>2, RegistrarAssumption
       DEF Times, RegistrarAssumption, BoundAssumption
<1>3. CASE view.legacy = {}
  BY <1>1, <1>3 DEF Stored, Past
<1> QED
  BY <1>2, <1>3

LEMMA JInvInit == Init => JInv
<1> SUFFICES ASSUME Init PROVE JInv
  OBVIOUS
<1>1. TypeOK
  BY TypeInit
<1>2. PICK legacy \in Legacies :
          view = [time |-> legacy # {}, legacy |-> legacy, states |-> Nothing]
  BY DEF Init
<1>3. WellFormed(view) /\ disk = view /\ view.states = Nothing
  BY <1>2 DEF Init, WellFormed, Filed, Nothing
<1> QED
  BY <1>1, <1>3
     DEF Init, JInv, Filed, Nothing, AllPast, Past, Backed, NotBehind, Live

\* Loading: what is in memory stands under some key, and is a newest state of
\* its ID.
LEMMA LoadStep ==
    ASSUME IdsTellSources, JInv, TypeOK', NEW i \in Identifiers, New(i)
    PROVE  JInv'
<1>1. /\ TypeOK /\ TypeOK' /\ view \in Store /\ WellFormed(view)
      /\ view' = Migrated(view) /\ disk = view /\ now' = now
      /\ channel' = channel /\ cache' = {} /\ pc' = "running"
      /\ \/ disk' \in {disk, Migrated(view)}
         \/ \E ids \in SUBSET Ids : disk' = Copied(view, ids)
  BY DEF JInv, New, TypeOK
<1>2. /\ WellFormed(view') /\ view'.legacy = {}
      /\ \A s \in Stored(view) : \E k \in Ids : view'.states[k] = s
      /\ \A k \in Ids : view'.states[k] # NoState => view'.states[k] \in Stored(view)
  BY <1>1, MigrationStores
<1>3. ASSUME NEW id \in Ids, mem'[id] # NoState
      PROVE  \E s \in Stored(view) :
                /\ IdOf[i][s.src] = id
                /\ \A t \in Stored(view) : IdOf[i][t.src] = id => t.ts <= s.ts
                /\ mem'[id].src = s.src /\ mem'[id].ident = i
                /\ mem'[id].ts = s.ts /\ mem'[id].ttl = "unmanaged"
  <2>1. mem'[id] \in Loaded(view, i, id)
    BY DEF New
  <2>2. PICK s \in Newest(Candidates(view, i, id)) : mem'[id] = Reset(s, i)
    BY <1>3, <2>1 DEF Loaded
  <2>3. /\ s \in Stored(view) /\ IdOf[i][s.src] = id
        /\ \A t \in Stored(view) : IdOf[i][t.src] = id => t.ts <= s.ts
    BY DEF Newest, Candidates
  <2>4. /\ mem'[id].src = s.src /\ mem'[id].ident = i
        /\ mem'[id].ts = s.ts /\ mem'[id].ttl = "unmanaged"
    BY <2>2 DEF Reset
  <2> QED
    BY <2>3, <2>4
<1>4. Stored(view) \subseteq Saved
  BY <1>1, StoredType
<1>5. Filed(mem')
  BY <1>3 DEF Filed, ID
<1>6. AllPast' /\ WellFormed(disk')
  <2>1. Past(view.states)'
    BY <1>1, <1>2, StoredIsPast DEF Past
  <2>2. Past(mem)'
    BY <1>1, <1>3, StoredIsPast DEF Past
  <2>3. Past(disk.states)' /\ WellFormed(disk')
    <3>1. CASE disk' = disk
      BY <1>1, <3>1 DEF JInv, AllPast, Past
    <3>2. CASE disk' = Migrated(view)
      BY <1>1, <1>2, <2>1, <3>2 DEF Past
    <3>3. ASSUME NEW ids \in SUBSET Ids, disk' = Copied(view, ids)
          PROVE  Past(disk.states)' /\ WellFormed(disk')
      <4>1. /\ WellFormed(disk')
            /\ \A id \in Ids : disk'.states[id] # NoState =>
                  disk'.states[id] \in Stored(view)
        BY <1>1, <3>3, CopyingKeeps
      <4> QED
        BY <1>1, <4>1, StoredIsPast DEF Past
    <3> QED
      BY <1>1, <3>1, <3>2, <3>3
  <2> QED
    BY <1>1, <2>1, <2>2, <2>3 DEF AllPast, Past, JInv
<1>7. Backed'
  <2> SUFFICES ASSUME NEW id \in Ids, mem'[id] # NoState
               PROVE  \E k \in Ids : /\ view'.states[k] # NoState
                                     /\ view'.states[k].src = mem'[id].src
                                     /\ view'.states[k].ts >= mem'[id].ts
                                     /\ mem'[id].ttl = "unmanaged"
    BY <1>1 DEF Backed, Backs, Live
  <2>1. PICK s \in Stored(view) :
            /\ mem'[id].src = s.src /\ mem'[id].ts = s.ts
            /\ mem'[id].ttl = "unmanaged"
    BY <1>3
  <2>2. PICK k \in Ids : view'.states[k] = s
    BY <1>2
  <2>3. s \in Saved /\ s # NoState /\ s.ts \in Int
    BY <1>4, StateFacts, TimeFacts
  <2> QED
    BY <2>1, <2>2, <2>3
<1>8. NotBehind'
  <2> SUFFICES ASSUME NEW id \in Ids, mem'[id] # NoState,
                      view'.states[id] # NoState
               PROVE  mem'[id].ts >= view'.states[id].ts
    BY DEF NotBehind, Live
  <2>1. PICK s \in Stored(view) :
            /\ IdOf[i][s.src] = id /\ mem'[id].ts = s.ts
            /\ \A t \in Stored(view) : IdOf[i][t.src] = id => t.ts <= s.ts
    BY <1>3
  <2> DEFINE t == view'.states[id]
  <2>2. t \in Stored(view) /\ ID(t) = id
    BY <1>2 DEF WellFormed, Filed
  <2>3. s \in Saved /\ t \in Saved
    BY <1>4, <2>2
  <2>4. t.src = s.src
    BY <2>1, <2>2, <2>3, TimeFacts DEF IdsTellSources, ID
  <2> QED
    BY <2>1, <2>2, <2>3, <2>4, TimeFacts
<1> QED
  BY <1>1, <1>2, <1>5, <1>6, <1>7, <1>8 DEF JInv, Filed

\* Flushing: what stays in memory is from now on under its own key, or was
\* not to be written and is as it was; what was loaded from another key and
\* is still unmanaged is written before any key goes.
LEMMA FlushStep ==
    ASSUME IdsTellSources, JInv, TypeOK', pc # "down", NEW expired \in SUBSET Ids,
           FlushRegistry(expired), UNCHANGED <<channel, now>>
    PROVE  /\ WellFormed(view') /\ view'.legacy = {} /\ WellFormed(disk')
           /\ Filed(mem') /\ cache' = {}
           /\ AllPast' /\ Backed' /\ NotBehind'
           /\ \A id \in Ids :
                 LET old == view.states[id]
                     new == view'.states[id]
                 IN  old # NoState /\ new # NoState /\ old.src \notin WinLogs
                        => new.ts >= old.ts
<1> DEFINE pending == cache \cup (IF Collects THEN Unmanaged ELSE {})
<1>1. /\ TypeOK /\ mem \in [Ids -> State \cup {NoState}]
      /\ view.states \in [Ids -> Saved \cup {NoState}]
      /\ now \in Int /\ now' = now
      /\ \A id \in Ids : mem[id] # NoState => mem[id].ts <= now
      /\ \A id \in Ids : view.states[id] # NoState =>
            view.states[id].ts <= now /\ ID(view.states[id]) = id
      /\ \A id \in Ids : mem[id] # NoState => ID(mem[id]) = id
  BY TimeFacts DEF JInv, TypeOK, Store, AllPast, Past, Filed, WellFormed
<1>2. /\ mem' \in [Ids -> State \cup {NoState}] /\ view' \in Store
      /\ view'.time /\ view'.legacy = {} /\ cache' = {}
  BY <1>1, FlushEffect DEF JInv
<1>3. ASSUME NEW id \in Ids
      PROVE  /\ id \notin Live => mem'[id] = NoState
             /\ id \in Dropped(expired) =>
                   mem'[id] = NoState /\ view'.states[id] = NoState
             /\ id \in Live \ Dropped(expired) =>
                   mem'[id] = Aged(id) /\ mem'[id] # NoState
             /\ id \in pending /\ mem'[id] # NoState
                   => view'.states[id] = Persisted(mem'[id])
             /\ id \notin Dropped(expired)
                /\ (id \notin pending \/ mem'[id] = NoState)
                   => view'.states[id] = view.states[id]
  BY <1>1, FlushEffect
<1>4. ASSUME NEW id \in Ids, mem'[id] # NoState
      PROVE  /\ id \in Live \ Dropped(expired)
             /\ mem'[id] \in State /\ mem'[id].ts \in Int
             /\ mem'[id].ts <= now
             /\ mem'[id].ts >= mem[id].ts
             /\ mem'[id].src = mem[id].src
             /\ ID(mem'[id]) = id
             /\ id \notin pending => mem'[id] = mem[id]
             /\ Collects => mem'[id].ttl # "unmanaged"
  <2>1. id \in Live \ Dropped(expired) /\ mem'[id] = Aged(id)
    BY <1>3, <1>4
  <2>2. /\ mem[id] \in State /\ mem[id].ts \in Int /\ mem[id].ts <= now
        /\ ID(mem[id]) = id /\ id \in Live
    BY <1>1, <2>1, TimeFacts DEF Live
  <2>3. /\ Aged(id) \in State /\ Aged(id).src = mem[id].src /\ ID(Aged(id)) = id
    BY <1>1, <2>2, AgedFacts
  <2>4. CASE Collects /\ id \in Unmanaged
    <3>1. Aged(id) = [mem[id] EXCEPT !.ttl = "nano", !.ts = now]
      BY <2>4 DEF Aged
    <3>2. Aged(id).ts = now /\ Aged(id).ttl = "nano"
      BY <2>2, <3>1 DEF State
    <3> QED
      BY <1>1, <2>1, <2>2, <2>3, <2>4, <3>2
  <2>5. CASE ~(Collects /\ id \in Unmanaged)
    <3>1. Aged(id) = mem[id]
      BY <2>5 DEF Aged
    <3>2. Collects => mem[id].ttl # "unmanaged"
      BY <2>2, <2>5 DEF Unmanaged
    <3> QED
      BY <2>1, <2>2, <2>3, <3>1, <3>2
  <2> QED
    BY <2>4, <2>5
<1>5. ASSUME NEW id \in Ids, id \in pending, mem'[id] # NoState
      PROVE  /\ view'.states[id] # NoState
             /\ view'.states[id].src = mem'[id].src
             /\ view'.states[id].ident = mem'[id].ident
             /\ view'.states[id].ts = mem'[id].ts
  <2>1. view'.states[id] = Persisted(mem'[id]) /\ Persisted(mem'[id]) \in Saved
    BY <1>3, <1>4, <1>5, StateFacts
  <2>2. Persisted(mem'[id]) # NoState
    BY <2>1, StateFacts
  <2> QED
    BY <2>1, <2>2 DEF Persisted
<1>6. ASSUME NEW id \in Ids, view'.states[id] # NoState
      PROVE  \/ id \in pending /\ mem'[id] # NoState
             \/ view'.states[id] = view.states[id]
  BY <1>3, <1>6
<1>7. Filed(mem')
  BY <1>4 DEF Filed
<1>8. ASSUME NEW id \in Ids, view'.states[id] # NoState
      PROVE  ID(view'.states[id]) = id /\ view'.states[id].ts <= now
  BY <1>1, <1>4, <1>5, <1>6, <1>8 DEF ID
<1>9. WellFormed(view')
  BY <1>2, <1>8 DEF WellFormed, Filed
<1>10. AllPast' /\ WellFormed(disk')
  <2>1. Past(channel) /\ Past(disk.states)
    BY DEF JInv, AllPast
  <2>2. WellFormed(disk')
    BY <1>1, <1>9, MidwayKeeps DEF JInv, WellFormed
  <2>3. \A id \in Ids : disk'.states[id] # NoState => disk'.states[id].ts <= now
    <3>1. \/ disk' = disk
          \/ \A id \in Ids : disk'.states[id] \in {view.states[id], view'.states[id]}
      BY <1>1, MidwayEffect
    <3> QED
      BY <1>1, <1>8, <2>1, <3>1 DEF Past
  <2> QED
    BY <1>1, <1>4, <1>8, <2>1, <2>2, <2>3 DEF AllPast, Past
<1>11. \A id \in Ids : view.states[id] # NoState /\ mem[id] # NoState
           => view.states[id].src = mem[id].src
  BY <1>1, SameIdSameSource
<1>12. NotBehind'
  <2> SUFFICES ASSUME NEW id \in Ids, mem'[id] # NoState, view'.states[id] # NoState,
                      mem'[id].src \notin WinLogs
               PROVE  mem'[id].ts >= view'.states[id].ts
    BY DEF NotBehind, Live
  <2>1. CASE id \in pending
    BY <1>4, <1>5, <2>1
  <2>2. CASE id \notin pending
    <3>1. mem'[id] = mem[id] /\ view'.states[id] = view.states[id] /\ id \in Live
      BY <1>4, <1>6, <2>2
    <3> QED
      BY <3>1 DEF JInv, NotBehind
  <2> QED
    BY <2>1, <2>2
<1>13. Backed'
  <2> SUFFICES ASSUME NEW id \in Ids, mem'[id] # NoState
               PROVE  \E k \in Ids : Backs(k, mem[id])'
                                    /\ (k = id \/ mem'[id].ttl = "unmanaged")
    BY DEF Backed, Live
  <2> USE DEF Backs
  <2>1. CASE id \in pending
    BY <1>4, <1>5, <2>1
  <2>2. CASE id \notin pending
    <3>1. mem'[id] = mem[id] /\ id \in Live \ cache
      BY <1>4, <2>2
    <3>2. PICK k \in Ids : /\ view.states[k] # NoState
                           /\ view.states[k].src = mem[id].src
                           /\ view.states[k].ts >= mem[id].ts
                           /\ k = id \/ mem[id].ttl = "unmanaged"
      BY <3>1 DEF JInv, Backed, Backs
    <3>3. CASE k \in Dropped(expired)
      \* a collection, which leaves no unmanaged state unwritten
      <4>1. Collects
        BY <3>3 DEF Dropped
      <4>2. k # id /\ mem[id].ttl # "unmanaged"
        BY <1>4, <3>1, <3>3, <4>1
      <4> QED
        BY <3>2, <4>2
    <3>4. CASE k \notin Dropped(expired) /\ ~(k \in pending /\ mem'[k] # NoState)
      BY <1>3, <3>1, <3>2, <3>4
    <3>5. CASE k \in pending /\ mem'[k] # NoState /\ k # id
      \* overwritten with newer progress of the same source
      <4>1. /\ view'.states[k] # NoState
            /\ view'.states[k].src = mem[k].src
            /\ view'.states[k].ts = mem'[k].ts /\ mem'[k].ts >= mem[k].ts
            /\ k \in Live /\ mem[k] \in State /\ mem[k] # NoState
            /\ view.states[k] \in Saved
            /\ mem'[k].ts \in Int /\ mem[k].ts \in Int /\ view.states[k].ts \in Int
            /\ mem[id] \in State /\ mem[id].ts \in Int
        BY <1>1, <1>4, <1>5, <3>1, <3>2, <3>5, TimeFacts DEF Live
      <4>2. mem[k].src = mem[id].src
        BY <1>11, <3>2, <4>1
      <4>3. mem[id].src \notin WinLogs
        <5>1. ID(mem[k]) # ID(mem[id]) /\ mem[k].ident \in Identifiers
              /\ mem[id].ident \in Identifiers /\ mem[k].src \in Sources
          BY <1>1, <3>1, <3>5, <4>1, TimeFacts DEF Live
        <5>2. \A w \in WinLogs, i, j \in Identifiers, s \in Sources :
                 IdOf[i][w] = IdOf[j][s] <=> s = w
          BY RegistrarAssumption DEF RegistrarAssumption, IdAssumption
        <5> QED
          BY <4>2, <5>1, <5>2 DEF ID
      <4>4. mem[k].ts >= view.states[k].ts
        BY <3>2, <4>1, <4>2, <4>3 DEF JInv, NotBehind
      <4> QED
        BY <3>1, <3>2, <4>1, <4>2, <4>4
    <3>6. CASE k = id
      BY <1>3, <1>4, <2>2, <3>1, <3>2, <3>6
    <3> QED
      BY <3>3, <3>4, <3>5, <3>6
  <2> QED
    BY <2>1, <2>2
<1>14. ASSUME NEW id \in Ids, view.states[id] # NoState, view'.states[id] # NoState,
              view.states[id].src \notin WinLogs
       PROVE  view'.states[id].ts >= view.states[id].ts
  <2>1. view.states[id].ts \in Int
    BY <1>1, <1>14, TimeFacts
  <2>2. CASE id \in pending /\ mem'[id] # NoState
    <3>1. id \in Live /\ mem[id].src \notin WinLogs /\ mem[id].ts \in Int
      BY <1>1, <1>4, <1>11, <1>14, <2>2, TimeFacts DEF Live
    <3>2. mem[id].ts >= view.states[id].ts
      BY <1>14, <3>1 DEF JInv, NotBehind
    <3> QED
      BY <1>4, <1>5, <2>1, <2>2, <3>1, <3>2
  <2> QED
    BY <1>6, <1>14, <2>1, <2>2
<1> QED
  BY <1>2, <1>7, <1>9, <1>10, <1>12, <1>13, <1>14

\* The steps that change neither memory nor store, but perhaps the clock.
LEMMA QuietStep ==
    ASSUME JInv, TypeOK', mem' = mem, cache' = cache, view' = view, pc' = pc,
           now' >= now, Filed(channel'), Past(channel)',
           disk' = disk \/ disk' = view
    PROVE  JInv'
<1>1. now \in Int /\ now' \in Int /\ TypeOK
  BY TimeFacts DEF JInv, TypeOK
<1>2. \A id \in Ids : /\ mem[id] # NoState => mem[id].ts \in Int
                      /\ view.states[id] # NoState => view.states[id].ts \in Int
                      /\ disk.states[id] # NoState => disk.states[id].ts \in Int
  BY <1>1, TimeFacts DEF TypeOK, Store
<1>3. AllPast'
  <2>1. Past(mem) /\ Past(view.states) /\ Past(disk.states)
    BY DEF JInv, AllPast
  <2>2. Past(mem)' /\ Past(view.states)' /\ Past(disk.states)'
    BY <1>1, <1>2, <2>1 DEF Past
  <2> QED
    BY <2>2 DEF AllPast
<1>4. Backed' /\ NotBehind'
  BY DEF JInv, Backed, Backs, NotBehind, Live
<1> QED
  BY <1>3, <1>4 DEF JInv

LEMMA JInvStep ==
    ASSUME IdsTellSources, JInv, [Next]_vars
    PROVE  JInv'
<1>1. TypeOK /\ TypeOK' /\ now \in Int /\ Past(channel) /\ Filed(channel)
  BY TypeStep, TimeFacts DEF JInv, TypeOK, AllPast
<1>2. ASSUME NEW i \in Identifiers, New(i) PROVE JInv'
  BY <1>1, <1>2, LoadStep
<1>3. ASSUME NEW batch \in Batches, AckEvents(batch) PROVE JInv'
  <2>1. Filed(channel') /\ Past(channel)'
    BY <1>3, RegistrarAssumption
       DEF RegistrarAssumption, BatchAssumption, Filed, Past, AckEvents
  <2> QED
    BY <1>1, <1>3, <2>1, QuietStep DEF AckEvents
<1>4. CASE OnEvents
  <2>1. ASSUME NEW id \in Ids, channel[id] # NoState
        PROVE  /\ Stamped(channel[id]) \in State /\ Stamped(channel[id]) # NoState
               /\ ID(Stamped(channel[id])) = id
               /\ Stamped(channel[id]).src = channel[id].src
               /\ Stamped(channel[id]).ts <= now
               /\ Stamped(channel[id]).src \notin WinLogs
                     => Stamped(channel[id]).ts = now
    <3>1. channel[id] \in State /\ ID(channel[id]) = id /\ channel[id].ts <= now
      BY <1>1, <2>1 DEF TypeOK, Batch, Filed, Past
    <3>2. Stamped(channel[id]) \in State /\ ID(Stamped(channel[id])) = id
      BY <1>1, <3>1, StampedType DEF TypeOK
    <3>3. /\ Stamped(channel[id]).src = channel[id].src
          /\ channel[id].src \in WinLogs => Stamped(channel[id]) = channel[id]
          /\ channel[id].src \notin WinLogs => Stamped(channel[id]).ts = now
      BY <3>1 DEF Stamped, State
    <3> QED
      BY <1>1, <3>1, <3>2, <3>3, StateFacts
  <2>2. /\ pc' = pc /\ pc = "running" /\ now' = now /\ view' = view /\ disk' = disk
        /\ channel' = Nothing
        /\ cache' = cache \cup {id \in Ids : channel[id] # NoState}
        /\ mem' = [id \in Ids |-> IF channel[id] = NoState THEN mem[id]
                                  ELSE Stamped(channel[id])]
    BY <1>4 DEF OnEvents
  <2>3. Filed(mem') /\ Filed(channel')
    BY <2>1, <2>2 DEF JInv, Filed, Nothing
  <2>4. AllPast'
    BY <2>1, <2>2 DEF JInv, AllPast, Past, Nothing
  <2>5. Backed'
    <3> SUFFICES ASSUME NEW id \in Ids, mem'[id] # NoState, id \notin cache'
                 PROVE  \E k \in Ids : Backs(k, mem[id])'
                                      /\ (k = id \/ mem'[id].ttl = "unmanaged")
      BY DEF Backed, Live
    <3>1. id \notin cache /\ mem'[id] = mem[id]
      BY <2>2
    <3> QED
      BY <2>2, <3>1 DEF JInv, Backed, Backs, Live
  <2>6. NotBehind'
    <3> SUFFICES ASSUME NEW id \in Ids, mem'[id] # NoState, view'.states[id] # NoState,
                        mem'[id].src \notin WinLogs
                 PROVE  mem'[id].ts >= view'.states[id].ts
      BY DEF NotBehind, Live
    <3>1. CASE channel[id] = NoState
      BY <2>2, <3>1 DEF JInv, NotBehind, Live
    <3>2. CASE channel[id] # NoState
      <4>1. mem'[id].ts = now
        BY <2>1, <2>2, <3>2
      <4>2. view'.states[id].ts <= now /\ view'.states[id] \in Saved
        BY <1>1, <2>2 DEF JInv, AllPast, Past, TypeOK, Store
      <4> QED
        BY <1>1, <4>1, <4>2, TimeFacts
    <3> QED
      BY <3>1, <3>2
  <2> QED
    BY <1>1, <2>2, <2>3, <2>4, <2>5, <2>6 DEF JInv
<1>5. CASE GcTick
  BY <1>1, <1>5, QuietStep DEF GcTick, Past
<1>6. ASSUME NEW expired \in SUBSET Ids, FlushTick(expired) PROVE JInv'
  <2>1. FlushRegistry(expired) /\ pc = "running" /\ UNCHANGED <<channel, now>>
    BY <1>6 DEF FlushTick
  <2> QED
    BY <1>1, <1>6, <2>1, FlushStep DEF FlushTick, JInv
<1>7. ASSUME NEW expired \in SUBSET Ids, Stop(expired) PROVE JInv'
  <2>1. FlushRegistry(expired) /\ pc = "running" /\ UNCHANGED <<channel, now>>
    BY <1>7 DEF Stop
  <2> QED
    BY <1>1, <1>7, <2>1, FlushStep DEF Stop, JInv
<1>8. CASE StorageSync
  BY <1>1, <1>8, QuietStep DEF StorageSync, Past
<1>9. CASE Exit \/ Crash
  <2>1. /\ pc' = "down" /\ mem' = Nothing /\ cache' = {} /\ channel' = Nothing
        /\ now' = now /\ view' = disk'
        /\ view' = view \/ view' = disk
    BY <1>9 DEF Exit, Crash, ProcessEnds
  <2>2. WellFormed(view') /\ WellFormed(disk') /\ AllPast'
    BY <2>1 DEF JInv, AllPast, Past, Nothing
  <2>3. Filed(mem') /\ Filed(channel') /\ Backed' /\ NotBehind'
    BY <2>1 DEF Filed, Backed, NotBehind, Live, Nothing
  <2> QED
    BY <1>1, <2>1, <2>2, <2>3 DEF JInv
<1>10. CASE Tick
  <2>1. Past(channel)'
    BY <1>1, <1>10, TimeFacts DEF Tick, Past, TypeOK, Batch
  <2> QED
    BY <1>1, <1>10, <2>1, QuietStep DEF Tick
<1>11. CASE UNCHANGED vars
  BY <1>1, <1>11, QuietStep DEF vars, Past
<1> QED
  BY <1>2, <1>3, <1>4, <1>5, <1>6, <1>7, <1>8, <1>9, <1>10, <1>11,
     ExpirableIds DEF Next

-----------------------------------------------------------------------------
(* The theorems.                                                           *)

\* What is not waiting to be persisted would be found by a restart.
LEMMA BackedIsFound ==
    ASSUME JInv, NEW id \in Live \ cache
    PROVE  RestartFinds(mem[id])
<1>1. PICK k \in Ids : Backs(k, mem[id])
  BY DEF JInv, Backed
<1>2. pc # "down" /\ view.time /\ view.legacy = {}
  BY <1>1 DEF JInv, WellFormed, Backs, Live, Nothing
<1>3. view.states[k] \in Stored(view)
  BY <1>1, <1>2 DEF Stored, Backs
<1> QED
  BY <1>1, <1>3 DEF RestartFinds, Backs

\* The flush never misses a state: whatever identifiers the processes have
\* been configured with, one that is newer than the store waits in the cache.
THEOREM DirtyIsCachedAlways ==
    ASSUME IdsTellSources
    PROVE  Spec => []DirtyIsCached
<1>1. JInv => DirtyIsCached
  BY BackedIsFound DEF DirtyIsCached
<1> QED
  BY <1>1, JInvInit, JInvStep, PTL DEF Spec

\* When the goroutine has ended, the store has everything it had received.
THEOREM ShutdownWritesAllAlways ==
    ASSUME IdsTellSources
    PROVE  Spec => []ShutdownWritesAll
<1>1. JInv => ShutdownWritesAll
  BY BackedIsFound DEF ShutdownWritesAll, JInv
<1> QED
  BY <1>1, JInvInit, JInvStep, PTL DEF Spec

\* Stored progress of a file gets older only in a crash.
THEOREM StoredNeverOlderAlways ==
    ASSUME IdsTellSources
    PROVE  Spec => StoredNeverOlder
<1> DEFINE Kept ==
        \A id \in Ids :
            LET old == view.states[id]
                new == view'.states[id]
            IN  old # NoState /\ new # NoState /\ old.src \notin WinLogs
                    => new.ts >= old.ts \/ pc' = "down"
<1>1. ASSUME JInv, [Next]_vars PROVE Kept
  <2>1. TypeOK /\ TypeOK' /\ view \in Store
    BY <1>1, TypeStep DEF JInv, TypeOK
  <2>2. ASSUME NEW expired \in SUBSET Ids, FlushTick(expired) \/ Stop(expired)
        PROVE  Kept
    <3>1. /\ FlushRegistry(expired) /\ pc # "down"
          /\ UNCHANGED <<channel, now>>
      BY <2>2 DEF FlushTick, Stop
    <3> QED
      BY <1>1, <2>1, <3>1, FlushStep
  <2>3. ASSUME NEW i \in Identifiers, New(i) PROVE Kept
    <3>1. view' = Migrated(view)
      BY <2>3 DEF New
    <3>2. \A id \in Ids : view.states[id] # NoState =>
              view'.states[id] = view.states[id]
      BY <1>1, <2>1, <3>1, MigrationKeeps DEF JInv
    <3>3. \A id \in Ids : view.states[id] # NoState => view.states[id].ts \in Int
      BY <2>1, TimeFacts DEF Store
    <3> QED
      BY <3>2, <3>3
  <2>4. CASE view' = view \/ pc' = "down"
    <3>1. \A id \in Ids : view.states[id] # NoState => view.states[id].ts \in Int
      BY <2>1, TimeFacts DEF Store
    <3> QED
      BY <2>4, <3>1
  <2> QED
    BY <1>1, <2>2, <2>3, <2>4, ExpirableIds
       DEF Next, vars, AckEvents, OnEvents, GcTick, StorageSync, Exit, Crash,
           ProcessEnds, Tick
<1> QED
  BY <1>1, JInvInit, JInvStep, PTL DEF Spec, StoredNeverOlder
=============================================================================
