---------------------------- MODULE FilterRules ----------------------------
(***************************************************************************)
(* A filter node, src/task/filter/filter.go, and the rules that            *)
(* NewTaskConfig (src/config/task.go) prepares for it.  The tasks that     *)
(* share the node have rules of their own, but a line is cut once for all  *)
(* of them, into as many words as the largest index of any rule calls for. *)
(*                                                                         *)
(* The node's goroutine cuts the lines of an event, then takes the tasks   *)
(* it knows in turn, matches and hands on, waiting at each out.  Between   *)
(* any two of these steps the manager may link and remove tasks: the node  *)
(* looks its rules and its outs up as they are when a task has its turn.   *)
(*                                                                         *)
(* A text is the sequence of its fields, the pieces between delimiters; a  *)
(* word that SplitN leaves unsplit is a sequence of several fields.  A     *)
(* padded field has spaces around it.                                      *)
(***************************************************************************)
EXTENDS Integers, Sequences, FiniteSets, SequencesExt

CONSTANTS Tasks,      \* tasks with different processors
          Keys,       \* what a field may hold, and a condition may ask for
          Configured, \* rules as configured
          Texts, Batches,   \* single lines and lists of lines to filter
          Delimiters,       \* "none", "single" character or "several"
          None

Field == [key : Keys, padded : BOOLEAN]
Text  == Seq(Field)

\* A condition: whole text (index < 1) or n-th field, operation and key.
Condition == [index : Int, op : {"=", "eq", "!=", "include"}, key : Keys]

ASSUME FilterRulesAssumption ==
    /\ Configured \subseteq Seq(Seq(Condition)) /\ None \notin Seq(Seq(Condition))
    /\ Texts \subseteq Text \ {<<>>}
    /\ Batches \subseteq Seq(Text \ {<<>>}) \ {<<>>}
    /\ Delimiters \subseteq {"none", "single", "several"}
    /\ None \notin Tasks

\* Data that is no string has no fields.
NoString == <<>>

VARIABLES
    delimiter,        \* of the node: its tasks agree on it
    conf,             \* the rules of each task as configured
    taskConfigMaps,   \* the rules the node knows, None if it has none
    outs,             \* tasks in Outs
    filterMaxIndex,
    merging, leaving, \* the task the manager is linking, or removing, or None
    event             \* what the node is working on, None at its select

\* Of an event: its texts; whether it is a batch; `cuts', for each text cut
\* so far the number of words; `must', the tasks that must have their turn;
\* `seen', those that had it; `at', the task whose out the node is waiting
\* at with `lines', or None; `dead', tasks whose processor has ended since
\* their out was looked up; `passed', what was handed on.  History: `known'
\* and `linked', the tasks the node knew when it took the event, and those of
\* its outs then that have not been removed since.

manager == <<merging, leaving>>
node    == <<taskConfigMaps, outs, filterMaxIndex>>
vars    == <<delimiter, conf, node, manager, event>>

-----------------------------------------------------------------------------
(* NewTaskConfig.                                                          *)

\* An old "=" on the whole text means that it includes the key.
Normal(c) == IF c.index <= 0 /\ c.op = "=" THEN [c EXCEPT !.op = "include"] ELSE c

ByIndex(f) == \A i, j \in DOMAIN f : i < j => f[i].index <= f[j].index

\* Mutant of SortConditions: the conditions stay in their order.
KeepConditions(f) == {f}

\* sort.Sort(ConditionSortByIndex), which is not stable: equal indices may
\* come in any order.
SortConditions(f) ==
    {g \in {[i \in DOMAIN f |-> f[p[i]]] : p \in Bijection(DOMAIN f, DOMAIN f)} :
        ByIndex(g)}

\* What rules may be once they are prepared.
Prepared(filters) ==
    LET sorted(i) == SortConditions([j \in DOMAIN filters[i] |-> Normal(filters[i][j])])
    IN  {g \in [DOMAIN filters -> UNION {sorted(i) : i \in DOMAIN filters}] :
            \A i \in DOMAIN filters : g[i] \in sorted(i)}

\* Rules are in force only with a delimiter of one character (HasFilter).
Rules(t) == IF delimiter = "single" THEN conf[t] ELSE <<>>

NewTaskConfig(t) == Prepared(Rules(t))

-----------------------------------------------------------------------------
(* Splitting and matching.                                                 *)

\* At most n pieces, the last of them with all that is left.
SplitN(text, n) ==
    IF Len(text) <= n THEN [i \in DOMAIN text |-> <<text[i]>>]
    ELSE [i \in 1 .. n |-> IF i < n THEN <<text[i]>> ELSE SubSeq(text, n, Len(text))]

\* Without the spaces around it.
Bare(field) == [field EXCEPT !.padded = FALSE]

\* TrimSpace trims a word at its two ends.
TrimSpace(word) ==
    [i \in DOMAIN word |-> IF Len(word) = 1 THEN Bare(word[i]) ELSE word[i]]

\* The matcher of a condition on a word or on the whole text.
Matches(c, word) ==
    LET key == <<[key |-> c.key, padded |-> FALSE]>>
    IN  CASE c.op \in {"=", "eq"} -> word = key
          [] c.op = "!="          -> word # key
          [] c.op = "include"     -> \E i \in DOMAIN word : word[i].key = c.key

Access(c, words, text) ==
    IF c.index <= 0 THEN Matches(c, text)
    ELSE c.index <= Len(words) /\ Matches(c, words[c.index])

\* One of the filters has no condition that fails; no filter, no filtering.
Handle(words, text, filters) ==
    \/ filters = <<>>
    \/ \E i \in DOMAIN filters :
          \A j \in DOMAIN filters[i] : Access(filters[i][j], words, text)

\* The words of a line cut into so many; those of a line alone are trimmed,
\* those of several lines in one event are not.
Words(text, cut, batch) ==
    LET words == SplitN(text, cut)
    IN  [i \in DOMAIN words |-> IF batch THEN words[i] ELSE TrimSpace(words[i])]

\* The texts at some places, in their order.
Keep(texts, places) ==
    FlattenSeq([i \in DOMAIN texts |-> IF i \in places THEN <<texts[i]>> ELSE <<>>])

-----------------------------------------------------------------------------
(* The manager links and removes tasks.                                    *)

Known == {t \in Tasks : taskConfigMaps[t] # None}

Init ==
    /\ delimiter \in Delimiters
    /\ conf \in [Tasks -> Configured]
    /\ taskConfigMaps = [t \in Tasks |-> None]
    /\ outs = {}
    /\ filterMaxIndex = 0
    /\ merging = None /\ leaving = None
    /\ event = None

\* The index of the last condition of each filter; conditions are sorted.
MaxIndices(filters) ==
    {filters[i][Len(filters[i])].index : i \in {k \in DOMAIN filters : filters[k] # <<>>}}

\* Mutant of MergeFilterConfig: the index of the last task replaces the others.
MergeFilterConfigLast(t) ==
    /\ merging = None /\ leaving = None /\ t \notin outs
    /\ \E filters \in NewTaskConfig(t) :
          /\ filterMaxIndex' = IF MaxIndices(filters) = {} THEN filterMaxIndex
                               ELSE Max(MaxIndices(filters))
          /\ taskConfigMaps' = [taskConfigMaps EXCEPT ![t] = filters]
    /\ merging' = t
    /\ UNCHANGED <<delimiter, conf, outs, leaving, event>>

MergeFilterConfig(t) ==
    /\ merging = None /\ leaving = None /\ t \notin outs
    /\ \E filters \in NewTaskConfig(t) :
          /\ filterMaxIndex' = Max(MaxIndices(filters) \cup {filterMaxIndex})
          /\ taskConfigMaps' = [taskConfigMaps EXCEPT ![t] = filters]
    /\ merging' = t
    /\ UNCHANGED <<delimiter, conf, outs, leaving, event>>

AddOutput ==
    /\ merging # None
    /\ outs' = outs \cup {merging}
    /\ merging' = None
    /\ UNCHANGED <<delimiter, conf, taskConfigMaps, filterMaxIndex, leaving, event>>

\* A task is removed from the node, which keeps its rules.
RemoveOutput(t) ==
    /\ merging = None /\ leaving = None /\ t \in outs
    /\ outs' = outs \ {t}
    /\ leaving' = t
    /\ event' = IF event = None THEN None ELSE [event EXCEPT !.linked = @ \ {t}]
    /\ UNCHANGED <<delimiter, conf, taskConfigMaps, filterMaxIndex, merging>>

\* The processor of the removed task takes nothing any more.
ProcessorEnds ==
    /\ leaving # None /\ outs # {}
    /\ leaving' = None
    /\ event' = IF event = None THEN None ELSE [event EXCEPT !.dead = @ \cup {leaving}]
    /\ UNCHANGED <<delimiter, conf, node, merging>>

\* Without outs the node ends, at its select or waiting at an out; the next
\* task makes a new one.
NodeEnds ==
    /\ leaving # None /\ outs = {}
    /\ event # None => event.at # None
    /\ event' = None
    /\ leaving' = None
    /\ taskConfigMaps' = [t \in Tasks |-> None]
    /\ filterMaxIndex' = 0
    /\ UNCHANGED <<delimiter, conf, outs, merging>>

-----------------------------------------------------------------------------
(* The node filters.                                                       *)

\* What is handed on as it is, to all outs.
Whole(texts) == delimiter = "none" \/ texts = <<NoString>>

\* The node runs; it takes an event, and a snapshot of its outs (GetOuts) or
\* its first text, cut for the largest index of this moment.
Filter(texts, batch) ==
    /\ event = None /\ (outs # {} \/ leaving # None)
    /\ event' = [texts  |-> texts, batch |-> batch,
                 cuts   |-> IF Whole(texts) THEN <<>> ELSE <<filterMaxIndex + 1>>,
                 must   |-> IF Whole(texts) THEN outs ELSE {},
                 seen   |-> {}, at |-> None, lines |-> <<>>, dead |-> {},
                 passed |-> [t \in Tasks |-> <<>>],
                 known  |-> Known, linked |-> outs]
    /\ UNCHANGED <<delimiter, conf, node, manager>>

SingleFilter(text) == Filter(<<text>>, FALSE)

BatchFilter(texts) == Filter(texts, TRUE)

\* The next text of a batch is cut, for the largest index of this moment.
Cut ==
    /\ event # None /\ ~Whole(event.texts) /\ Len(event.cuts) < Len(event.texts)
    /\ event' = [event EXCEPT !.cuts = Append(@, filterMaxIndex + 1)]
    /\ UNCHANGED <<delimiter, conf, node, manager>>

\* What the rules a task has now match of the lines as they were cut.
Matched(t, e) ==
    Keep(e.texts, {i \in DOMAIN e.texts :
                      Handle(Words(e.texts[i], e.cuts[i], e.batch), e.texts[i],
                             taskConfigMaps[t])})

\* A known task has its turn.  The loop ranges over the live map: all tasks
\* of its beginning have a turn, one that is merged on the way may have one.
\* What matches goes to the task's out, if it has one now.
Turn(t) ==
    /\ event # None /\ ~Whole(event.texts) /\ Len(event.cuts) = Len(event.texts)
    /\ event.at = None /\ t \in Known \ event.seen
    /\ LET matched == Matched(t, event)
           sends   == matched # <<>> /\ t \in outs
       IN  event' = [event EXCEPT !.must  = IF event.seen = {} THEN Known ELSE @,
                                  !.seen  = @ \cup {t},
                                  !.dead  = @ \ {t},
                                  !.at    = IF sends THEN t ELSE None,
                                  !.lines = IF sends THEN matched ELSE <<>>]
    /\ UNCHANGED <<delimiter, conf, node, manager>>

\* An event that is not filtered goes to the next out of the snapshot.
PassOn(t) ==
    /\ event # None /\ Whole(event.texts)
    /\ event.at = None /\ t \in event.must \ event.seen
    /\ event' = [event EXCEPT !.seen = @ \cup {t}, !.at = t, !.lines = event.texts]
    /\ UNCHANGED <<delimiter, conf, node, manager>>

\* The processor takes what the node offers.
Sent ==
    /\ event # None /\ event.at # None /\ event.at \notin event.dead
    /\ event' = [event EXCEPT !.passed[event.at] = event.lines, !.at = None]
    /\ UNCHANGED <<delimiter, conf, node, manager>>

\* All that must have a turn have had it; the loop over the rules has begun.
Served ==
    /\ event # None /\ event.at = None /\ event.must \subseteq event.seen
    /\ ~Whole(event.texts) => event.seen # {}

EventEnds ==
    /\ Served
    /\ event' = None
    /\ UNCHANGED <<delimiter, conf, node, manager>>

Next ==
    \/ AddOutput \/ ProcessorEnds \/ NodeEnds \/ Cut \/ Sent \/ EventEnds
    \/ \E t \in Tasks : \/ MergeFilterConfig(t) \/ RemoveOutput(t)
                        \/ Turn(t) \/ PassOn(t)
    \/ \E text \in Texts \cup {NoString} : SingleFilter(text)
    \/ \E texts \in Batches : BatchFilter(texts)

Spec == Init /\ [][Next]_vars

-----------------------------------------------------------------------------
(* Properties.                                                             *)

\* The types of the node's state: what it knows of a task are the task's own
\* rules, prepared, it has no out without rules, and the index it cuts lines
\* at is never that of no rule.
TypeOK ==
    /\ delimiter \in Delimiters
    /\ conf \in [Tasks -> Configured]
    /\ \A t \in Tasks : taskConfigMaps[t] \in NewTaskConfig(t) \cup {None}
    /\ outs \subseteq Known
    /\ filterMaxIndex \in Nat
    /\ {merging, leaving} \subseteq Tasks \cup {None}
    /\ event # None => /\ event.at \in Tasks \cup {None}
                       /\ event.seen \subseteq Tasks

\* What a condition means, one field at a time.
Holds(c, text, batch) ==
    IF c.index <= 0 THEN Matches(Normal(c), text)
    ELSE /\ c.index <= Len(text)
         /\ Matches(c, <<IF batch THEN text[c.index] ELSE Bare(text[c.index])>>)

\* What the rules of one task mean.
Wants(filters, text, batch) ==
    filters = <<>> \/ \E i \in DOMAIN filters :
                         \A j \in DOMAIN filters[i] : Holds(filters[i][j], text, batch)

\* The lines of an event that a task wants: those its own rules want, all of
\* them if the event is not filtered.
Wanted(t, e) ==
    IF Whole(e.texts) THEN e.texts
    ELSE Keep(e.texts, {i \in DOMAIN e.texts : Wants(Rules(t), e.texts[i], e.batch)})

\* A task that the node knew when it took an event is passed nothing or
\* exactly the lines its own rules want, in their order, and one that stays
\* linked has been passed them when the event is done: whatever tasks join,
\* leave and return while the event is cut and handed on, whatever their
\* rules, and in whatever order conditions were configured.
PassesWhatIsWanted ==
    event # None =>
        /\ \A t \in event.known : event.passed[t] \in {<<>>, Wanted(t, event)}
        /\ Served => \A t \in event.linked : event.passed[t] = Wanted(t, event)
=============================================================================
