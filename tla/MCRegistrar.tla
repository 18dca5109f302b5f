---------------------------- MODULE MCRegistrar ----------------------------
(***************************************************************************)
(* Instance of the registry for TLC: one file and one event log under one  *)
(* identifier.                                                             *)
(***************************************************************************)
EXTENDS Registrar

CONSTANTS f, w, inode

\* One identifier: every source has one ID for ever.
OneIds     == {"inode-f", "winlog-w"}
OneIdOf    == [i \in {inode} |-> [s \in {f, w} |->
                  IF s = w THEN "winlog-w" ELSE "inode-f"]]

\* The acknowledged states of the instance: of a file that is read, of one
\* that has been read and closed and of one that has been read and removed,
\* and one of an event log, which never expires (WinLogStateToFileState).
Samples ==
    {b \in [src : Sources, ident : Identifiers, off : Offsets, ts : {0},
            ttl : {"never", "timed", "zero"}, fin : BOOLEAN] :
        /\ b.fin <=> b.ttl # "never"
        /\ b.fin \/ b.src \in WinLogs => b.off = MaxOffset
        /\ b.src \in WinLogs => ~b.fin}

\* One batch per set of at most one state for each ID.
SampleBatches ==
    {b \in [Ids -> Samples \cup {NoState}] :
        \A id \in Ids : b[id] # NoState => ID(b[id]) = id}

\* Batches of a single state.
SingleBatches ==
    {b \in SampleBatches : \A j, k \in Ids :
        b[j] # NoState /\ b[k] # NoState => j = k}

\* A v1 registry may be there, with a state of each source.
SomeLegacy ==
    {{}, {[src |-> s, ident |-> inode, off |-> IF s = w THEN MaxOffset ELSE 0,
           ts |-> 0] : s \in {f, w}}}
=============================================================================
