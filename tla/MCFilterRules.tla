--------------------------- MODULE MCFilterRules ---------------------------
(***************************************************************************)
(* Two tasks on one filter, with rules of up to two conditions.            *)
(***************************************************************************)
EXTENDS FilterRules

If(n, o) == [index |-> n, op |-> o, key |-> "x"]

\* No rule, one that accepts everything, conditions on the whole text and on
\* fields that are configured in either order, and two filters of which one
\* must hold.
SomeRules ==
    {<<>>, <<<<>>>>,
     <<<<If(-1, "=")>>>>, <<<<If(-1, "!=")>>>>,
     <<<<If(1, "=")>>>>, <<<<If(3, "!=")>>>>,
     <<<<If(3, "="), If(1, "!=")>>>>, <<<<If(1, "="), If(3, "=")>>>>,
     <<<<If(1, "=")>>, <<If(2, "include")>>>>}

X == [key |-> "x", padded |-> FALSE]
P == [key |-> "x", padded |-> TRUE]
Y == [key |-> "y", padded |-> FALSE]

Lines == {<<P>>, <<Y, X>>, <<X, Y, P>>, <<P, X, Y>>, <<Y, P, X>>}

\* Batches of lines that differ in their fields.
Lists == {<<<<X, Y, X>>, <<Y, X, P>>>>, <<<<X, X, Y>>, <<P, X, X>>>>,
          <<<<Y>>, <<X, X>>>>}

Symmetry == Permutations(Tasks)
=============================================================================
