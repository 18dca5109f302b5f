----------------------------- MODULE EventRecord -----------------------------
(***************************************************************************)
(* How a Windows event becomes the fields of an event to send:             *)
(* src/task/input/wineventlog/eventrecord.go.  The rendered pairs of an    *)
(* event, its event data and its user data, are each a sequence of keys    *)
(* and values; most keys are free text, so two may be equal, empty, or     *)
(* equal to a name that is given to an unnamed one.  The user data also    *)
(* has the local name of its XML element, which may be empty.              *)
(***************************************************************************)
EXTENDS Integers, Sequences

CONSTANTS Keys,      \* keys a pair may have
          Unnamed,   \* those that are replaced: the empty one and "Data"
          Param,     \* Param[i]: the name an unnamed pair at place i gets
          XmlName,   \* "xml_name", under which the local name is put
          Values,    \* values a pair may have, and local names
          Empty,     \* the empty one among them
          Absent     \* there is no such field

Pair == [key : Keys, value : Values]

\* What a record has: pairs of both kinds, and the local name.
Content == [event : Seq(Pair), user : Seq(Pair), local : Values]

NameOf(pairs, i) ==
    IF pairs[i].key \in Unnamed THEN Param[i] ELSE pairs[i].key

With(h, name, value) ==
    [n \in DOMAIN h \cup {name} |-> IF n = name THEN value ELSE h[n]]

\* Mutant of AddPair: a later pair of the same name overwrites.
AddPairOverwrites(h, pairs, i) ==
    IF pairs[i].value = Empty THEN h
    ELSE With(h, NameOf(pairs, i), pairs[i].value)

\* One turn of the loop of addPairs: an empty value is ignored, and a name
\* that is taken is not overwritten.
AddPair(h, pairs, i) ==
    IF pairs[i].value = Empty \/ NameOf(pairs, i) \in DOMAIN h THEN h
    ELSE With(h, NameOf(pairs, i), pairs[i].value)

NoFields == [n \in {} |-> Empty]

\* The maps that some pairs may become.
MapStr(pairs) ==
    UNION {[F -> Values] :
              F \in SUBSET ({NameOf(pairs, i) : i \in DOMAIN pairs} \cup {XmlName})}

\* The loop of addPairs: the map after each number of turns.
Added(pairs) ==
    LET added[i \in 0 .. Len(pairs)] ==
            IF i = 0 THEN NoFields ELSE AddPair(added[i - 1], pairs, i)
    IN  added

\* The map that is put under the key; none when nothing is left to put.
AddPairs(pairs) ==
    LET h == Added(pairs)[Len(pairs)] IN IF DOMAIN h = {} THEN Absent ELSE h

\* What is put for pairs of either kind; where there are none, an empty map.
DataOf(pairs) == IF pairs = <<>> THEN NoFields ELSE AddPairs(pairs)

\* addOptional: nothing is put into no map, and no empty name; a pair of that
\* name is overwritten.
AddXmlName(h, local) ==
    IF h = Absent \/ local = Empty THEN h ELSE With(h, XmlName, local)

\* Only user data that has pairs gets the local name.
ToEvent(c) ==
    [event |-> DataOf(c.event),
     user  |-> IF c.user = <<>> THEN NoFields
               ELSE AddXmlName(AddPairs(c.user), c.local)]

-----------------------------------------------------------------------------
(* What the fields must be.                                                *)

\* "If any keys are duplicates, the first key/value pair is added and the
\* remaining duplicates are dropped" (addPairs): apart from the names in
\* extra, h has under each name the value of the first non-empty pair with
\* that name; it has those in extra, and no other name.
IsFirstOfEach(h, pairs, extra) ==
    LET filled == {i \in DOMAIN pairs : pairs[i].value # Empty}
        first(i) == \A j \in filled : NameOf(pairs, j) = NameOf(pairs, i) => i <= j
    IN  /\ DOMAIN h = {NameOf(pairs, i) : i \in filled} \cup extra
        /\ \A i \in filled : first(i) /\ NameOf(pairs, i) \notin extra
                               => h[NameOf(pairs, i)] = pairs[i].value

\* The map is left out exactly when there are pairs and all values are empty.
LeftOut(h, pairs) ==
    h = Absent <=> (pairs # <<>> /\ \A i \in DOMAIN pairs : pairs[i].value = Empty)

\* Under "xml_name" user data with pairs has the local name, if there is one,
\* and what a pair says otherwise.
FieldsOf(fields, c) ==
    LET extra == IF c.user = <<>> \/ c.local = Empty THEN {} ELSE {XmlName}
    IN  /\ LeftOut(fields.event, c.event) /\ LeftOut(fields.user, c.user)
        /\ fields.event # Absent => IsFirstOfEach(fields.event, c.event, {})
        /\ fields.user # Absent =>
              /\ IsFirstOfEach(fields.user, c.user, extra)
              /\ \A n \in extra : fields.user[n] = c.local
=============================================================================
