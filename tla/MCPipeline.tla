----------------------------- MODULE MCPipeline -----------------------------
(***************************************************************************)
(* Instances of the tree of nodes for TLC.                                 *)
(***************************************************************************)
EXTENDS Pipeline, TLC

CONSTANTS t, u, v, i, f, s

\* Two tasks of one input and one filter; only t has a sender below it that v
\* does not share, and the other levels are left out.
TwoTasks == t :> s @@ v :> f @@ s :> f @@ f :> i @@ i :> None

\* Two tasks of one sender.
OneSender == t :> s @@ u :> s @@ s :> i @@ i :> None
=============================================================================
