---------------------------- MODULE MCWinEventLog ----------------------------
(***************************************************************************)
(* Instances of the event log input for TLC.                               *)
(***************************************************************************)
EXTENDS WinEventLog

AllKeys   == {"Data", "name", "param1", "param2", "xml_name"}
NoNames   == {"Data"}
ParamName == <<"param1", "param2", "param3">>

Name(k, v) == [key |-> k, value |-> v]

Has(event, user, local) == [event |-> event, user |-> user, local |-> local]

\* No pairs, but a local name; a given name that is taken already, and a pair
\* that the local name overwrites; an empty value before two others of its
\* name, and a pair where there is no local name; nothing but empty values.
SomeContents ==
    {Has(<<>>, <<>>, "a"),
     Has(<<Name("param2", "a"), Name("Data", "b")>>,
         <<Name("xml_name", "a"), Name("name", "b")>>, "b"),
     Has(<<Name("name", ""), Name("name", "a"), Name("name", "b")>>,
         <<Name("Data", ""), Name("xml_name", "a")>>, ""),
     Has(<<Name("Data", "")>>, <<Name("name", "")>>, "a")}

\* Nothing in any record.
NoContents == {Has(<<>>, <<>>, "")}
=============================================================================
