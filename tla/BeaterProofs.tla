---------------------------- MODULE BeaterProofs ----------------------------
(***************************************************************************)
(* Theorems about the main loop, for all tasks, configurations and files,  *)
(* and any number of edits and signals.                                    *)
(***************************************************************************)
EXTENDS Beater, TLAPS

\* What the manager runs is what it was last told to, but for the tasks that
\* would not start: true at any time, not only between reloads.
Runs == tasks = wanted \ failed

\* A reload that is under way has something to apply.
Applying == pc = "applying" => raw # None

IInv == TypeOK /\ Runs /\ Applying

\* A reload of the manager starts from any tasks it may have, and leaves it
\* with the new ones that start and the old ones that stay.
LEMMA SwitchRuns ==
    ASSUME tasks \subseteq Tasks, NEW new \in SUBSET Tasks, Switch(new)
    PROVE  /\ tasks' \subseteq Tasks /\ wanted' \subseteq Tasks
           /\ failed' \subseteq Tasks /\ Runs'
BY DEF Switch, Runs

LEMMA BeaterInit == Init => IInv
<1> SUFFICES ASSUME Init PROVE IInv
  OBVIOUS
<1>1. /\ edits \in 0 .. MaxEdits /\ signals \in 0 .. MaxSignals
  BY BeaterAssumption DEF Init
<1>2. pending \in BOOLEAN /\ isReload \in BOOLEAN
  BY DEF Init
<1>3. file \in Configs
  BY DEF Init, Good
<1> QED BY <1>1, <1>2, <1>3 DEF Init, IInv, TypeOK, Runs, Applying

LEMMA BeaterStep ==
    ASSUME IInv, [Next]_vars
    PROVE  IInv'
<1> USE DEF IInv, Applying
<1>1. \A c \in Good : GetTasks(c) \in SUBSET Tasks
  BY BeaterAssumption DEF GetTasks, TypeOK, Good
<1>2. CASE Edit
  <2>1. edits' \in 0 .. MaxEdits
    BY <1>2, BeaterAssumption DEF Edit, MayEdit, TypeOK
  <2> QED BY <1>2, <2>1 DEF Edit, TypeOK, Runs, loop, mgr
<1>3. CASE Signal
  <2>1. signals' \in 0 .. MaxSignals
    BY <1>3, BeaterAssumption DEF Signal, TypeOK
  <2>2. signalled' \in [main : Configs, secondary : SUBSET Tasks] \cup {None}
    BY <1>3 DEF Signal, TypeOK
  <2>3. framework' \in Configs /\ pending' \in BOOLEAN
    BY <1>3 DEF Signal, TypeOK
  <2> QED BY <1>3, <2>1, <2>2, <2>3 DEF Signal, TypeOK, Runs, files, loop, mgr
<1>4. CASE Start
  <2>1. Switch(GetTasks(config)) /\ tasks \subseteq Tasks /\ config \in Good
    BY <1>4 DEF Start, TypeOK
  <2>2. /\ tasks' \subseteq Tasks /\ wanted' \subseteq Tasks
        /\ failed' \subseteq Tasks /\ Runs'
    BY <1>1, <2>1, SwitchRuns
  <2> QED BY <1>4, <2>2 DEF Start, TypeOK, files, loop
<1>5. CASE NoteSignal
  BY <1>5 DEF NoteSignal, TypeOK, Runs, files, mgr
<1>6. CASE ReloadTick
  <2>1. raw' \in Configs \cup {None}
    BY <1>6 DEF ReloadTick, RawConfig, TypeOK
  <2> QED BY <1>6, <2>1 DEF ReloadTick, TypeOK, Runs, files, mgr
<1>7. CASE DiffTick
  <2>1. lastTaskHash' \in Good /\ Good \subseteq Configs /\ None \notin Configs
    BY <1>7, BeaterAssumption DEF DiffTick, Good
  <2>2. \/ UNCHANGED <<pc, raw>>
        \/ raw' \in Good /\ pc' = "applying"
    BY <1>7 DEF DiffTick
  <2> QED BY <1>7, <2>1, <2>2 DEF DiffTick, TypeOK, Runs, files, mgr
<1>8. CASE Reload
  <2> DEFINE c == IF raw \in Broken THEN config ELSE raw
  <2>1. raw # None
    BY <1>8 DEF Reload
  <2>2. c \in Good
    BY <1>8, <2>1 DEF TypeOK, Good
  <2>3. Switch(GetTasks(c)) /\ tasks \subseteq Tasks
    BY <1>8 DEF Reload, TypeOK
  <2>4. config' = c
    BY <1>8 DEF Reload
  <2> HIDE DEF c
  <2>5. /\ tasks' \subseteq Tasks /\ wanted' \subseteq Tasks
        /\ failed' \subseteq Tasks /\ Runs'
    BY <1>1, <2>2, <2>3, SwitchRuns
  <2> QED BY <1>8, <2>2, <2>4, <2>5 DEF Reload, TypeOK, files
<1>9. CASE Done
  BY <1>9 DEF Done, TypeOK, Runs, files, loop
<1>10. CASE UNCHANGED vars
  BY <1>10 DEF vars, TypeOK, Runs
<1> QED
  BY <1>2, <1>3, <1>4, <1>5, <1>6, <1>7, <1>8, <1>9, <1>10 DEF Next

\* Every variable keeps its type; in particular the loop never takes over a
\* configuration that cannot be parsed (ParseConfig).
THEOREM BeaterTypeCorrect == Spec => []TypeOK
<1>1. IInv => TypeOK
  BY DEF IInv
<1> QED BY <1>1, BeaterInit, BeaterStep, PTL DEF Spec

\* After any history of reloads and failed starts the collector runs the tasks
\* it was last told to run, except those that would not start.
THEOREM BeaterServesConfig == Spec => []TasksServeConfig
<1>1. IInv => TasksServeConfig
  BY DEF IInv, Runs, TasksServeConfig
<1> QED BY <1>1, BeaterInit, BeaterStep, PTL DEF Spec
=============================================================================
