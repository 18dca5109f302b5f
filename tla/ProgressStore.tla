---------------------------- MODULE ProgressStore ----------------------------
(***************************************************************************)
(* What the registry promises, without its machinery: three copies of one  *)
(* map from state IDs to offsets.  `live' is what acknowledgements update, *)
(* `staged' what an orderly restart finds, `saved' what a crash leaves.    *)
(* A flush copies the WHOLE of `live', minus what it forgets; there is no  *)
(* dirty set, and that the flush writes and deletes key by key shows only  *)
(* in `saved', some of whose keys may be ahead of the others.              *)
(***************************************************************************)
CONSTANTS Ids, Offsets, None

VARIABLES up, live, staged, saved

pvars == <<up, live, staged, saved>>

Progress == [Ids -> Offsets \cup {None}]
Blank    == [id \in Ids |-> None]

PInit == /\ up = FALSE
         /\ live = Blank
         /\ staged \in Progress
         /\ saved = staged

Start == /\ ~up
         /\ up' = TRUE
         /\ live' = staged
         /\ UNCHANGED <<staged, saved>>

\* An acknowledgement replaces the progress of some IDs and removes none.
Update == /\ up
          /\ live' \in Progress
          /\ \A id \in Ids : live'[id] = None => live[id] = None
          /\ UNCHANGED <<up, staged, saved>>

Flush(forgotten) ==
    /\ up
    /\ live' = [id \in Ids |-> IF id \in forgotten THEN None ELSE live[id]]
    /\ staged' = live'
    /\ \/ saved' = saved
       \/ \E ids \in SUBSET Ids :
             saved' = [id \in Ids |-> IF id \in ids THEN staged'[id] ELSE staged[id]]
    /\ UNCHANGED up

Sync == /\ up
        /\ saved' = staged
        /\ UNCHANGED <<up, live, staged>>

\* An orderly end persists what is staged, which is all there was.
Halt == /\ up
        /\ live = staged
        /\ up' = FALSE
        /\ live' = Blank
        /\ saved' = staged
        /\ UNCHANGED staged

Fail == /\ up
        /\ up' = FALSE
        /\ live' = Blank
        /\ staged' = saved
        /\ UNCHANGED saved

PNext == \/ Start \/ Update \/ Sync \/ Halt \/ Fail
         \/ \E forgotten \in SUBSET Ids : Flush(forgotten)

PSpec == PInit /\ [][PNext]_pvars
=============================================================================
