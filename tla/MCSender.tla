------------------------------ MODULE MCSender ------------------------------
(***************************************************************************)
(* Instances of the sender for TLC.                                        *)
(***************************************************************************)
EXTENDS Sender, FiniteSets

CONSTANTS f, g

SenderOnly  == {"package", "package_count", "output_format"}
FilterOnly  == {"delimiter", "filters"}
InputOnly   == {"paths"}
Processors  == {"processors"}
TwoValues   == {1, 2}

\* The claims about identifiers, over configurations with a field of every
\* level.
Some == UNION {[{"dataid"} \cup F -> {1, 2}] :
                  F \in SUBSET {"output_format", "processors", "filters"}}

ASSUME IdentifiersNest ==
    \A c, d \in Some : /\ LevelsNest(c, d) /\ LevelsAgree(c, d)
                       /\ DataIdTellsTask(c, d)
                       /\ LoadOrder(<<>>, c, d)

Config(id, format, package) ==
    [dataid |-> id, output_format |-> format, package |-> package, package_count |-> 2]

Group(format, package) == {Config(1, format, package), Config(2, format, package)}

AllGroups == {Group("v1", TRUE), Group("tqos", TRUE), Group("v2", TRUE), Group("v2", FALSE)}

Batch(texts) == [texts |-> texts, data |-> ""]
Line(text)   == [texts |-> <<>>, data |-> text]

\* Batches with empty texts in front, between and alone; single lines, one of
\* them empty.
BatchStream == f :> <<Batch(<<"", "a">>), Batch(<<"">>), Batch(<<"b", "", "c">>)>>
            @@ g :> <<Batch(<<"d">>)>>
LineStream  == f :> <<Line("a"), Line(""), Line("b")>>
            @@ g :> <<Line("c")>>
AllStreams  == {BatchStream, LineStream}
=============================================================================
