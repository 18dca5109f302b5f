------------------------------- MODULE Beater -------------------------------
(***************************************************************************)
(* The main loop of the collector, src/beater/beater.go, and the part of a *)
(* reload in which the manager (src/beater/manager.go) compares its tasks  *)
(* with those of the configuration.                                        *)
(*                                                                         *)
(* A reload starts from a signal of the framework, which the loop notes    *)
(* and serves at its next tick, or, if the option check_diff is on, from a *)
(* periodic comparison of the main configuration file with its last hash.  *)
(* The tasks come from the main configuration and from secondary files,    *)
(* which are read when the reload is applied.  A task is named by the hash *)
(* of its configuration: to edit a task is to replace it.                  *)
(***************************************************************************)
EXTENDS Integers, FiniteSets

CONSTANTS Tasks,          \* IDs of tasks
          Configs,        \* contents of the main configuration file
          Broken,         \* those that cannot be parsed
          Check,          \* those with check_diff
          MainTasks,      \* MainTasks[c]: the tasks in c
          Unreadable,     \* the file cannot be read
          None,
          MaxEdits, MaxSignals,   \* bounds: edits of files, signals
          EarlyEdits      \* files are edited before the first comparison too

ASSUME BeaterAssumption ==
    /\ Broken \subseteq Configs /\ Check \subseteq Configs
    /\ Configs \ Broken # {}
    /\ MainTasks \in [Configs -> SUBSET Tasks]
    /\ {Unreadable, None} \cap Configs = {}
    /\ MaxEdits \in Nat /\ MaxSignals \in Nat /\ EarlyEdits \in BOOLEAN

VARIABLES
    file,          \* the main configuration file
    secondary,     \* tasks in the secondary files
    framework,     \* the configuration the framework has loaded
    pending,       \* a signal is in ReloadChan
    pc,            \* "starting", "idle", "applying", "stopped"
    config,        \* config
    isReload,
    lastTaskHash,  \* the content it is the hash of, or None
    raw,           \* what a reload in progress has read
    tasks,         \* the manager's tasks
    wanted,        \* the tasks the manager last compared them with
    failed,        \* those of them that could not be started
    signalled,     \* the files at the last signal; None after an edit
    edits, signals

vars == <<file, secondary, framework, pending, pc, config, isReload, lastTaskHash,
          raw, tasks, wanted, failed, signalled, edits, signals>>

files == <<file, secondary, edits>>
loop  == <<config, isReload, lastTaskHash>>
mgr   == <<tasks, wanted, failed>>

\* What Parse accepts.
Good == Configs \ Broken

Init ==
    /\ file \in Good /\ secondary \in SUBSET Tasks
    /\ framework = file /\ pending = FALSE
    /\ pc = "starting" /\ config = file /\ raw = None
    /\ isReload = FALSE /\ lastTaskHash = None
    /\ tasks = {} /\ wanted = {} /\ failed = {}
    /\ signalled = None /\ edits = 0 /\ signals = 0

-----------------------------------------------------------------------------
(* The files and the framework (external).                                 *)

MayEdit == edits < MaxEdits /\ (EarlyEdits \/ lastTaskHash # None)

Edit ==
    /\ MayEdit
    /\ edits' = edits + 1
    /\ \/ file' \in (Configs \cup {Unreadable}) \ {file} /\ UNCHANGED secondary
       \/ secondary' \in SUBSET Tasks \ {secondary} /\ UNCHANGED file
    /\ signalled' = None
    /\ UNCHANGED <<framework, pending, pc, raw, loop, mgr, signals>>

\* The framework loads the file and signals; whether Parse will accept the
\* content is not its business.
Signal ==
    /\ signals < MaxSignals /\ file # Unreadable
    /\ signals' = signals + 1
    /\ framework' = file
    /\ pending' = TRUE
    /\ signalled' = [main |-> file, secondary |-> secondary]
    /\ UNCHANGED <<files, pc, raw, loop, mgr>>

-----------------------------------------------------------------------------
(* The manager.                                                            *)

\* GetTasks: the tasks of the secondary files and of the main configuration.
GetTasks(c) == secondary \cup MainTasks[c]

\* Mutant of Switch: tasks that are gone from the configuration stay.
SwitchKeepsOld(new) ==
    \E failing \in SUBSET (new \ tasks) :
        /\ tasks' = tasks \cup (new \ failing)
        /\ failed' = failing
        /\ wanted' = new

\* The manager stops the tasks that are gone and starts those that are new;
\* a start may fail.
Switch(new) ==
    LET removeTasks == tasks \ new
        addTasks    == new \ tasks
    IN  \E failing \in SUBSET addTasks :
            /\ tasks' = (tasks \ removeTasks) \cup (addTasks \ failing)
            /\ failed' = failing
            /\ wanted' = new

-----------------------------------------------------------------------------
(* The main loop.                                                          *)

Start ==
    /\ pc = "starting"
    /\ pc' = "idle"
    /\ Switch(GetTasks(config))
    /\ UNCHANGED <<files, framework, pending, raw, loop, signalled, signals>>

\* case <-beat.ReloadChan
NoteSignal ==
    /\ pc = "idle" /\ pending
    /\ pending' = FALSE
    /\ isReload' = TRUE
    /\ UNCHANGED <<files, framework, pc, config, lastTaskHash, raw, mgr, signalled,
                   signals>>

\* GetRawConfig: nothing when the file cannot be read.
RawConfig == IF file = Unreadable THEN None ELSE file

\* case <-reloadTicker.C: the noted signal is spent, whether or not there is
\* a configuration to reload.
ReloadTick ==
    LET read == IF config \in Check THEN RawConfig ELSE framework
    IN  /\ pc = "idle" /\ isReload
        /\ isReload' = FALSE
        /\ raw' = read
        /\ pc' = IF read = None THEN "idle" ELSE "applying"
        /\ UNCHANGED <<files, framework, pending, config, lastTaskHash, mgr,
                       signalled, signals>>

\* case <-diffTaskTicker.C (checkDiffReload): a file that cannot be read or
\* parsed is an error; the first hash is only remembered.
DiffTick ==
    LET read == RawConfig
    IN  /\ pc = "idle" /\ config \in Check
        /\ read \in Good
        /\ lastTaskHash' = read
        /\ IF lastTaskHash \in {None, read}
           THEN UNCHANGED <<pc, raw>>
           ELSE raw' = read /\ pc' = "applying"
        /\ UNCHANGED <<files, framework, pending, config, isReload, mgr, signalled,
                       signals>>

\* Mutant of Reload: a signal that came during the reload is taken as served.
ReloadDrains ==
    LET c == IF raw \in Broken THEN config ELSE raw
    IN  /\ pc = "applying"
        /\ pc' = "idle"
        /\ config' = c
        /\ Switch(GetTasks(c))
        /\ raw' = None
        /\ pending' = FALSE
        /\ UNCHANGED <<files, framework, isReload, lastTaskHash, signalled,
                       signals>>

\* Mutant of Reload: a configuration that cannot be parsed is taken over.
ReloadUnparsed ==
    /\ pc = "applying"
    /\ pc' = "idle"
    /\ config' = raw
    /\ Switch(GetTasks(raw))
    /\ raw' = None
    /\ UNCHANGED <<files, framework, pending, isReload, lastTaskHash, signalled,
                   signals>>

\* LogBeat.Reload: a configuration that cannot be parsed is only logged; the
\* manager reloads with the old one then.
Reload ==
    LET c == IF raw \in Broken THEN config ELSE raw
    IN  /\ pc = "applying"
        /\ pc' = "idle"
        /\ config' = c
        /\ Switch(GetTasks(c))
        /\ raw' = None
        /\ UNCHANGED <<files, framework, pending, isReload, lastTaskHash, signalled,
                       signals>>

\* case <-beat.Done: the manager stops its tasks.
Done ==
    /\ pc = "idle"
    /\ pc' = "stopped"
    /\ tasks' = {} /\ wanted' = {} /\ failed' = {}
    /\ UNCHANGED <<files, framework, pending, raw, loop, signalled, signals>>

-----------------------------------------------------------------------------

Next == Edit \/ Signal \/ Start \/ NoteSignal \/ ReloadTick \/ DiffTick \/ Reload \/ Done

\* The tickers fire again and again, and a signal in the channel is received
\* in the end: the loop's select serves each case it offers infinitely often.
Fairness ==
    /\ WF_vars(Start) /\ WF_vars(Reload)
    /\ SF_vars(NoteSignal) /\ SF_vars(ReloadTick) /\ SF_vars(DiffTick)

Spec == Init /\ [][Next]_vars /\ Fairness

-----------------------------------------------------------------------------
(* Properties.                                                             *)

TypeOK ==
    /\ file \in Configs \cup {Unreadable} /\ secondary \subseteq Tasks
    /\ framework \in Configs /\ config \in Good
    /\ pending \in BOOLEAN /\ isReload \in BOOLEAN
    /\ pc \in {"starting", "idle", "applying", "stopped"}
    /\ lastTaskHash \in Good \cup {None} /\ raw \in Configs \cup {None}
    /\ tasks \subseteq Tasks /\ wanted \subseteq Tasks /\ failed \subseteq Tasks
    /\ signalled \in [main : Configs, secondary : SUBSET Tasks] \cup {None}
    /\ edits \in 0 .. MaxEdits /\ signals \in 0 .. MaxSignals

\* Whatever reloads came before, the tasks are those the manager last wanted,
\* except for the ones whose start failed then: a task that stays is neither
\* lost nor doubled, and one that had failed is tried again (Manager.Reload).
TasksServeConfig == pc = "idle" => tasks = wanted \ failed

\* A signal is honoured: unless the files are edited again, another signal
\* comes or the collector stops, it runs the tasks of the signalled files in
\* the end, if they can be parsed.  A signal that arrives while an older one is being served must
\* not be lost ("handle the reload signal sent by the framework", Run).
Serves(k) == config = k.main /\ wanted = k.secondary \cup MainTasks[k.main]

SignalHonoured ==
    \A k \in [main : Good, secondary : SUBSET Tasks] :
        (signalled = k) ~> (Serves(k) \/ signalled # k \/ pc = "stopped")

\* "Handle whether the main configuration has changed; if so, reload" (Run):
\* with check_diff the collector ends up with the configuration that the file
\* keeps.
MainConfigFollowed ==
    \A c \in Check \ Broken :
        (<>[](file = c) /\ [](config \in Check))
            => <>[](config = c \/ pc = "stopped")
=============================================================================
