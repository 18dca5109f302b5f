----------------------------- MODULE CpuLimiter -----------------------------
(***************************************************************************)
(* The CPU limiter, src/utils/cpulimit.go: a goroutine that watches the    *)
(* CPU time of the process and opens and closes a gate, and the input      *)
(* goroutine (src/task/input/input.go) that waits at the gate with every   *)
(* event.  Each start or reload of the manager calls SetResourceLimit.     *)
(*                                                                         *)
(* Time passes in units; a second has Second of them, and a limit is the   *)
(* number of units of CPU time that may be used in a second.  Timers are   *)
(* punctual: what is due happens before the next unit passes.  How much    *)
(* CPU a unit of time takes is free, whether a gate is open or shut: only  *)
(* the input goroutine waits, harvesters, the nodes below, the publisher   *)
(* and the registry go on.                                                 *)
(***************************************************************************)
EXTENDS Integers, Sequences

CONSTANTS Cores,           \* number of CPUs
          Second,          \* units of time in a second
          MaxCheckTimes,   \* most checks in a second
          Limits,          \* configured values of max_cpu_limit,
          CheckTimes,      \*   and of cpu_check_times
          MaxLimiters      \* bound: limiters created

\* How often a limiter checks, and how many units pass between two checks.
Times(checkTimes) ==
    IF checkTimes < 1 \/ checkTimes > MaxCheckTimes THEN MaxCheckTimes ELSE checkTimes

Interval(checkTimes) == Second \div Times(checkTimes)

ASSUME CpuLimiterAssumption ==
    /\ Cores \in Nat \ {0} /\ Second \in Nat \ {0}
    /\ MaxCheckTimes \in 1 .. Second /\ MaxLimiters \in Nat
    /\ Limits \subseteq Int /\ CheckTimes \subseteq Int
    /\ \A n \in CheckTimes : Times(n) * Interval(n) = Second

VARIABLES
    limiters,     \* the limiters created so far
    global,       \* GlobalCpuLimiter: an index of limiters, or 0
    enabled,      \* IsEnableRateLimiter
    setting,      \* the last valid limit configured (history)
    input,        \* the input goroutine: "idle", "checking", "sleeping"
    interval,     \* the check interval it has read
    sleep         \* units it still sleeps

vars == <<limiters, global, enabled, setting, input, interval, sleep>>

Init ==
    /\ limiters = <<>> /\ global = 0 /\ enabled = FALSE /\ setting = 0
    /\ input = "idle" /\ interval = 0 /\ sleep = 0

-----------------------------------------------------------------------------

Valid(limit) == 0 < limit /\ limit <= Cores * Second

\* NewCPULimit; the goroutine does not run when the statistics of the process
\* cannot be read at that moment.
NewLimiter(limit, checkTimes, running) ==
    [limit |-> limit, times |-> Times(checkTimes), interval |-> Interval(checkTimes),
     elapsed |-> 0, ticks |-> 0, used |-> 0, shut |-> 0,
     allow |-> TRUE, running |-> running, closed |-> FALSE]

\* What the process finds out about its surroundings: the file /.dockerenv,
\* the flags of the cgroup mounts, and the PID in /proc/1/sched.
Surroundings == [dockerenv : BOOLEAN,
                 cgroup    : {"ro", "rw", "unreadable"},
                 sched     : {"one", "other", "unreadable"}]

IsInDocker(x) == x.dockerenv /\ (x.cgroup = "ro" \/ x.sched = "other")

\* In a container a valid limit installs a new limiter; an invalid one is
\* logged as "disable rate limit" and changes nothing.  Outside, the limiter
\* is stopped.
SetResourceLimit(limit, checkTimes) ==
    /\ setting' = IF Valid(limit) THEN limit ELSE setting
    /\ \E inDocker \in {IsInDocker(x) : x \in Surroundings} :
          \/ /\ inDocker /\ Valid(limit) /\ Len(limiters) < MaxLimiters
             /\ \E running \in BOOLEAN :
                   limiters' = Append(limiters, NewLimiter(limit, checkTimes, running))
             /\ global' = Len(limiters) + 1
             /\ enabled' = TRUE
          \/ /\ inDocker /\ ~Valid(limit)
             /\ UNCHANGED <<limiters, global, enabled>>
          \/ /\ ~inDocker
             /\ limiters' = IF global = 0 THEN limiters
                            ELSE [limiters EXCEPT ![global].closed = TRUE]
             /\ enabled' = FALSE
             /\ UNCHANGED global
    /\ UNCHANGED <<input, interval, sleep>>

\* Mutant of LimiterDone: the gate stays as it is.
LimiterDoneShut(k) ==
    /\ limiters[k].running /\ limiters[k].closed
    /\ limiters' = [limiters EXCEPT ![k].running = FALSE]
    /\ UNCHANGED <<global, enabled, setting, input, interval, sleep>>

\* A stopped limiter opens its gate and ends.
LimiterDone(k) ==
    /\ limiters[k].running /\ limiters[k].closed
    /\ limiters' = [limiters EXCEPT ![k].running = FALSE, ![k].allow = TRUE]
    /\ UNCHANGED <<global, enabled, setting, input, interval, sleep>>

\* Mutant of Exceeds: the gate closes when the limit has been passed.
ExceedsLate(l) == l.used > l.limit

\* The gate closes one interval before the limit could be passed.
Exceeds(l) == l.used > l.limit - l.interval

\* A tick of the limiter's ticker; the last one in a second opens the gate
\* and starts a new account.
Check(l) ==
    IF l.ticks + 1 = l.times
    THEN [l EXCEPT !.elapsed = 0, !.ticks = 0, !.used = 0, !.shut = 0, !.allow = TRUE]
    ELSE [l EXCEPT !.elapsed = 0, !.ticks = @ + 1, !.allow = ~Exceeds(l)]

\* A limiter after a unit of time in which the process used c units of CPU;
\* `shut' tells how many of those used were used behind a shut gate (history).
Elapsed(l, c) ==
    LET later == [l EXCEPT !.elapsed = @ + 1, !.used = @ + c,
                           !.shut = @ + (IF l.allow THEN 0 ELSE c)]
    IN  IF ~l.running THEN l
        ELSE IF later.elapsed = l.interval THEN Check(later) ELSE later

\* CPU time the process may use in a unit of time, as its statistics tell it
\* (GetCpuTime).
CpuTimes == 0 .. Cores

\* A unit of time passes in which the process uses c units of CPU.
Elapse(c) ==
    /\ input # "checking"
    /\ limiters' = [k \in DOMAIN limiters |-> Elapsed(limiters[k], c)]
    /\ IF input = "sleeping"
       THEN /\ sleep' = sleep - 1
            /\ input' = IF sleep = 1 THEN "checking" ELSE "sleeping"
       ELSE UNCHANGED <<input, sleep>>
    /\ UNCHANGED <<global, enabled, setting, interval>>

-----------------------------------------------------------------------------
(* The input goroutine.                                                    *)

\* An event arrives while rate limiting is enabled: the goroutine reads the
\* interval once, for as long as it waits with this event.
TakeEvent ==
    /\ input = "idle" /\ enabled /\ global # 0
    /\ input' = "checking"
    /\ interval' = limiters[global].interval
    /\ UNCHANGED <<limiters, global, enabled, setting, sleep>>

\* The loop asks the present limiter, whether or not limiting is enabled.
Allow ==
    /\ input = "checking"
    /\ IF limiters[global].allow
       THEN input' = "idle" /\ interval' = 0 /\ UNCHANGED sleep
       ELSE input' = "sleeping" /\ sleep' = interval /\ UNCHANGED interval
    /\ UNCHANGED <<limiters, global, enabled, setting>>

-----------------------------------------------------------------------------

Next ==
    \/ \E limit \in Limits, n \in CheckTimes : SetResourceLimit(limit, n)
    \/ \E k \in DOMAIN limiters : LimiterDone(k)
    \/ \E c \in CpuTimes : Elapse(c)
    \/ TakeEvent \/ Allow

\* Time passes, and goroutines that can go on do; nothing forces a reload or
\* an event.
Fairness ==
    /\ WF_vars(\E c \in CpuTimes : Elapse(c))
    /\ WF_vars(\E k \in DOMAIN limiters : LimiterDone(k))
    /\ WF_vars(Allow)

Spec == Init /\ [][Next]_vars /\ Fairness

-----------------------------------------------------------------------------
(* Properties.                                                             *)

\* While limiting is enabled, no reload lets the process exceed the last valid
\* limit with the gate open: in every second, what it uses is within the limit,
\* up to what all cores can use in the one interval before a check ("usage >
\* limit + toleranceVal" in cpulimit_test.go, with a tolerance of one of ten
\* intervals per core).  What goroutines that do not wait use behind the shut
\* gate comes on top.
WithinLimit ==
    enabled /\ limiters[global].running /\ ~limiters[global].closed =>
        LET l     == limiters[global]
            spare == IF setting > l.interval THEN setting - l.interval ELSE 0
        IN  l.used - l.shut <= spare + Cores * l.interval

\* An event waits at the gate only for a while: the gate of every limiter
\* opens once a second, and one that is stopped leaves it open.  The input
\* looks often enough unless a reload has changed the check frequency since
\* it read the interval.
HeldEventPasses ==
    (input # "idle")
        ~> (input = "idle" \/ interval # limiters[global].interval)
=============================================================================
