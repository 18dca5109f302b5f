----------------------------- MODULE TaskConfig -----------------------------
(***************************************************************************)
(* The configuration of a task and the identifiers that decide which nodes *)
(* it shares with others: src/config/task.go.  A raw configuration is a    *)
(* function from the names of its fields to their values.  An identifier   *)
(* is a hash of what is left of it after the fields of lower levels have   *)
(* been removed; the hash is taken for injective and stands here for what  *)
(* it is computed from.                                                    *)
(***************************************************************************)
EXTENDS Integers

CONSTANTS SenderFields, ProcessorFields, FilterFields,  \* fields of a level
          InputFields,     \* everything else a task may set
          FieldValues

Fields == {"dataid", "file_identifier"} \cup SenderFields \cup ProcessorFields
            \cup FilterFields \cup InputFields

ASSUME TaskConfigAssumption == {"dataid", "file_identifier"} \cap
    (SenderFields \cup ProcessorFields \cup FilterFields \cup InputFields) = {}

RawConfig == UNION {[F -> FieldValues] : F \in SUBSET Fields}

-----------------------------------------------------------------------------
(* NewTaskConfig.                                                          *)

\* The file identifier of the collector becomes part of every task.
Completed(raw, fileIdentifier) ==
    [f \in DOMAIN raw \cup {"file_identifier"} |->
        IF f = "file_identifier" THEN fileIdentifier ELSE raw[f]]

\* A task without a data ID is refused, and so is a condition whose operator
\* has no matcher (known: the filters all of whose operators are known).
Acceptable(raw, known) ==
    /\ "dataid" \in DOMAIN raw /\ raw["dataid"] # 0
    /\ "filters" \in DOMAIN raw => raw["filters"] \in known

\* RemoveFields.
Without(c, removed) == [f \in DOMAIN c \ removed |-> c[f]]

ID(c) == [dataid |-> c["dataid"], config |-> c]

\* initIDWithConfig: each identifier is made from what the one below it was
\* made from, less the fields of that level.  The delimiter splits lines for
\* every task of a filter, so it stays in the identifier of the filter.
SenderID(c)    == Without(c, {"dataid"})
ProcessorID(c) == Without(SenderID(c), SenderFields)
FilterID(c)    == Without(ProcessorID(c), ProcessorFields \cup {"filters"})
InputID(c)     == Without(FilterID(c), FilterFields)

\* GetTasks: a task found again, in another file or in the main one,
\* replaces the earlier under its identifier.
Put(tasks, c) ==
    [i \in DOMAIN tasks \cup {ID(c)} |-> IF i = ID(c) THEN c ELSE tasks[i]]

-----------------------------------------------------------------------------
(* What sharing relies on.                                                 *)

\* The node above a node is the same for all tasks that share it: the tree of
\* nodes is a tree (module Pipeline's Parent is a function).
LevelsNest(c, d) ==
    /\ SenderID(c) = SenderID(d) => ProcessorID(c) = ProcessorID(d)
    /\ ProcessorID(c) = ProcessorID(d) => FilterID(c) = FilterID(d)
    /\ FilterID(c) = FilterID(d) => InputID(c) = InputID(d)

\* A node built from the configuration of its first task fits the others:
\* "the configurations are the same" (sender.go:133 and, for processors,
\* processor.go:128).
LevelsAgree(c, d) ==
    /\ SenderID(c) = SenderID(d) =>
         \A f \in SenderFields :
            /\ f \in DOMAIN c <=> f \in DOMAIN d
            /\ f \in DOMAIN c => c[f] = d[f]
    /\ ProcessorID(c) = ProcessorID(d) =>
         \A f \in ProcessorFields \ SenderFields :
            /\ f \in DOMAIN c <=> f \in DOMAIN d
            /\ f \in DOMAIN c => c[f] = d[f]

\* Two tasks on one sender differ in their data IDs, so a package's data ID
\* tells whose it is.
DataIdTellsTask(c, d) ==
    (SenderID(c) = SenderID(d) /\ c["dataid"] = d["dataid"]) => c = d

\* Tasks are never mixed up by the maps that hold them, and the order in
\* which the files are read does not matter.
LoadOrder(tasks, c, d) == Put(Put(tasks, c), d) = Put(Put(tasks, d), c)

Tasked == {c \in RawConfig : "dataid" \in DOMAIN c}
=============================================================================
