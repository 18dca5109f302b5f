----------------------------- MODULE Collection -----------------------------
(***************************************************************************)
(* What collecting a stream of positions (lines of a file, records of an   *)
(* event log) promises its consumer, with no cache, queue, goroutine or    *)
(* registry in sight: what has been delivered stays delivered, and no mark *)
(* from which a restart or a reload may resume passes a wanted position    *)
(* that has not been delivered.  Resuming too early is allowed, so a       *)
(* position may be delivered twice.                                        *)
(***************************************************************************)
EXTENDS Integers

CONSTANTS Streams,      \* who consumes what
          Last,         \* a stream has the positions 1 .. Last
          Wanted        \* Wanted[s]: those its consumer must get

VARIABLES delivered,    \* per stream, the positions delivered so far
          resume        \* per stream, the marks recorded anywhere

cvars == <<delivered, resume>>

\* Resuming behind m loses nothing of s.
Covered(s, m) == \A p \in Wanted[s] : p <= m => p \in delivered[s]

CInit ==
    /\ delivered = [s \in Streams |-> {}]
    /\ resume = [s \in Streams |-> {}]

Deliver ==
    /\ delivered' \in [Streams -> SUBSET (1 .. Last)]
    /\ \A s \in Streams : delivered[s] \subseteq delivered'[s]
    /\ UNCHANGED resume

Mark ==
    /\ resume' \in [Streams -> SUBSET (0 .. Last)]
    /\ \A s \in Streams : \A m \in resume'[s] : Covered(s, m)
    /\ UNCHANGED delivered

CNext == Deliver \/ Mark

CSpec == CInit /\ [][CNext]_cvars

\* Every wanted position is delivered in the end.
CLive == \A s \in Streams : \A p \in Wanted[s] : <>(p \in delivered[s])
=============================================================================
