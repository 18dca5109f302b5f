-------------------------- MODULE CpuLimiterProofs --------------------------
(***************************************************************************)
(* The CPU limiter keeps the open gate within the limit: for any number of *)
(* cores, any unit of time, any limits and check frequencies, and any      *)
(* number of reloads.                                                      *)
(***************************************************************************)
EXTENDS CpuLimiter, TLAPS

\* A limiter as its goroutine finds it: in the middle of an interval.
Limiter ==
    [limit : Int, times : Int, interval : Nat \ {0}, elapsed : Nat, ticks : Int,
     used : Nat, shut : Nat, allow : BOOLEAN, running : BOOLEAN, closed : BOOLEAN]

Spare(l) == IF l.limit > l.interval THEN l.limit - l.interval ELSE 0

\* The account of a limiter: with the gate open, what was spare at the last
\* check and what all cores have used since, and none of it behind a shut gate;
\* with the gate shut, what was used before is at most what they used in the
\* whole of the interval before it was, and the gate stays shut until the
\* second ends, because what is used in a second only grows.
Accounts(l) ==
    /\ l.elapsed < l.interval
    /\ l.allow => l.shut = 0 /\ l.used <= Spare(l) + Cores * l.elapsed
    /\ ~l.allow => Exceeds(l) /\ l.used - l.shut <= Spare(l) + Cores * l.interval

InForce == enabled /\ limiters[global].running /\ ~limiters[global].closed

TypeInv ==
    /\ limiters \in Seq(Limiter)
    /\ global \in 0 .. Len(limiters)
    /\ enabled \in BOOLEAN /\ enabled => global # 0

LimitInv ==
    /\ TypeInv
    /\ \A k \in DOMAIN limiters : limiters[k].elapsed < limiters[k].interval
    /\ enabled => limiters[global].limit = setting
    /\ InForce => Accounts(limiters[global])

LEMMA Distribute ==
    ASSUME NEW a \in Nat, NEW b \in Nat, NEW c \in Nat, a <= b
    PROVE  c * (a + 1) = c * a + c /\ c * a <= c * b /\ c * a \in Nat
OBVIOUS

\* A limiter with one field changed.
LEMMA Changed ==
    ASSUME NEW l \in Limiter
    PROVE  /\ \A n \in Nat : [l EXCEPT !.elapsed = n] \in Limiter
           /\ \A n \in Nat : [l EXCEPT !.used = n] \in Limiter
           /\ \A n \in Nat : [l EXCEPT !.shut = n] \in Limiter
           /\ \A n \in Int : [l EXCEPT !.ticks = n] \in Limiter
           /\ \A b \in BOOLEAN : [l EXCEPT !.allow = b] \in Limiter
<1>1. \A n \in Nat : [l EXCEPT !.elapsed = n] \in Limiter
  BY DEF Limiter
<1>2. \A n \in Nat : [l EXCEPT !.used = n] \in Limiter
  BY DEF Limiter
<1>3. \A n \in Int : [l EXCEPT !.ticks = n] \in Limiter
  BY DEF Limiter
<1>4. \A b \in BOOLEAN : [l EXCEPT !.allow = b] \in Limiter
  BY DEF Limiter
<1>5. \A n \in Nat : [l EXCEPT !.shut = n] \in Limiter
  BY DEF Limiter
<1> QED BY <1>1, <1>2, <1>3, <1>4, <1>5

\* A limiter after a unit of time, before it checks.
Later(l, c) == [l EXCEPT !.elapsed = @ + 1, !.used = @ + c,
                         !.shut = @ + (IF l.allow THEN 0 ELSE c)]

LEMMA LaterTyped ==
    ASSUME NEW l \in Limiter, NEW c \in CpuTimes
    PROVE  /\ Later(l, c) \in Limiter
           /\ Later(l, c).elapsed = l.elapsed + 1 /\ Later(l, c).used = l.used + c
           /\ Later(l, c).shut = l.shut + (IF l.allow THEN 0 ELSE c)
           /\ Later(l, c).interval = l.interval /\ Later(l, c).limit = l.limit
           /\ Later(l, c).ticks = l.ticks /\ Later(l, c).times = l.times
           /\ Later(l, c).allow = l.allow
           /\ Later(l, c).running = l.running /\ Later(l, c).closed = l.closed
<1> DEFINE s == IF l.allow THEN 0 ELSE c
<1>1. Later(l, c) = [[[l EXCEPT !.elapsed = l.elapsed + 1] EXCEPT !.used = l.used + c]
                       EXCEPT !.shut = l.shut + s]
  BY DEF Limiter, Later
<1>2. l.elapsed + 1 \in Nat /\ l.used + c \in Nat /\ l.shut + s \in Nat
  BY CpuLimiterAssumption DEF Limiter, CpuTimes
<1> HIDE DEF s
<1>3. Later(l, c) \in Limiter
  <2> DEFINE l1 == [l EXCEPT !.elapsed = l.elapsed + 1]
             l2 == [l1 EXCEPT !.used = l.used + c]
  <2>1. l1 \in Limiter
    BY <1>2, Changed
  <2>2. l2 \in Limiter
    <3> HIDE DEF l1
    <3> QED BY <1>2, <2>1, Changed
  <2>3. Later(l, c) = [l2 EXCEPT !.shut = l.shut + s]
    BY <1>1
  <2> HIDE DEF l2
  <2> QED BY <1>2, <2>2, <2>3, Changed
<1>4. /\ Later(l, c).elapsed = l.elapsed + 1 /\ Later(l, c).used = l.used + c
      /\ Later(l, c).shut = l.shut + s
      /\ Later(l, c).interval = l.interval /\ Later(l, c).limit = l.limit
      /\ Later(l, c).ticks = l.ticks /\ Later(l, c).times = l.times
      /\ Later(l, c).allow = l.allow
      /\ Later(l, c).running = l.running /\ Later(l, c).closed = l.closed
  BY DEF Limiter, Later, s
<1> QED BY <1>3, <1>4 DEF s

\* A limiter after a check.
LEMMA CheckTyped ==
    ASSUME NEW l \in Limiter
    PROVE  /\ Check(l) \in Limiter
           /\ Check(l).elapsed = 0 /\ Check(l).interval = l.interval
           /\ Check(l).limit = l.limit
           /\ Check(l).running = l.running /\ Check(l).closed = l.closed
           /\ \/ Check(l).used = 0 /\ Check(l).shut = 0 /\ Check(l).allow
              \/ /\ Check(l).used = l.used /\ Check(l).shut = l.shut
                 /\ Check(l).allow <=> ~Exceeds(l)
<1>1. CASE l.ticks + 1 = l.times
  <2>1. Check(l) = [l EXCEPT !.elapsed = 0, !.ticks = 0, !.used = 0, !.shut = 0,
                             !.allow = TRUE]
    BY <1>1 DEF Check
  <2>2. Check(l) = [[[[[l EXCEPT !.elapsed = 0] EXCEPT !.ticks = 0]
                         EXCEPT !.used = 0] EXCEPT !.shut = 0] EXCEPT !.allow = TRUE]
    BY <2>1 DEF Limiter
  <2>3. Check(l) \in Limiter
    <3> DEFINE l1 == [l EXCEPT !.elapsed = 0]
               l2 == [l1 EXCEPT !.ticks = 0]
               l3 == [l2 EXCEPT !.used = 0]
               l4 == [l3 EXCEPT !.shut = 0]
    <3>1. l1 \in Limiter
      BY Changed
    <3>2. l2 \in Limiter
      <4> HIDE DEF l1
      <4> QED BY <3>1, Changed
    <3>3. l3 \in Limiter
      <4> HIDE DEF l2
      <4> QED BY <3>2, Changed
    <3>4. l4 \in Limiter
      <4> HIDE DEF l3
      <4> QED BY <3>3, Changed
    <3> HIDE DEF l4
    <3>5. [l4 EXCEPT !.allow = TRUE] \in Limiter
      BY <3>4, Changed
    <3> QED BY <2>2, <3>5 DEF l4
  <2>4. /\ Check(l).elapsed = 0 /\ Check(l).interval = l.interval
        /\ Check(l).limit = l.limit
        /\ Check(l).running = l.running /\ Check(l).closed = l.closed
        /\ Check(l).used = 0 /\ Check(l).shut = 0 /\ Check(l).allow
    BY <2>1 DEF Limiter
  <2> QED BY <2>3, <2>4
<1>2. CASE l.ticks + 1 # l.times
  <2>1. Check(l) = [l EXCEPT !.elapsed = 0, !.ticks = @ + 1, !.allow = ~Exceeds(l)]
    BY <1>2 DEF Check
  <2>2. Check(l) = [[[l EXCEPT !.elapsed = 0] EXCEPT !.ticks = l.ticks + 1]
                      EXCEPT !.allow = ~Exceeds(l)]
    BY <2>1 DEF Limiter
  <2>3. Check(l) \in Limiter
    <3> DEFINE l1 == [l EXCEPT !.elapsed = 0]
               l2 == [l1 EXCEPT !.ticks = l.ticks + 1]
               shut == ~Exceeds(l)
    <3>1. l1 \in Limiter
      BY Changed
    <3>2. l.ticks + 1 \in Int
      BY DEF Limiter
    <3>3. l2 \in Limiter
      <4> HIDE DEF l1
      <4> QED BY <3>1, <3>2, Changed
    <3>4. shut \in BOOLEAN
      OBVIOUS
    <3> HIDE DEF l2, shut
    <3>5. [l2 EXCEPT !.allow = shut] \in Limiter
      BY <3>3, <3>4, Changed
    <3> QED BY <2>2, <3>5 DEF l2, shut
  <2>4. /\ Check(l).elapsed = 0 /\ Check(l).interval = l.interval
        /\ Check(l).limit = l.limit
        /\ Check(l).running = l.running /\ Check(l).closed = l.closed
        /\ Check(l).used = l.used /\ Check(l).shut = l.shut
        /\ (Check(l).allow <=> ~Exceeds(l))
    BY <2>1 DEF Limiter
  <2> QED BY <2>3, <2>4
<1> QED BY <1>1, <1>2

\* A check leaves an account that starts from what is spare, or a shut gate.
LEMMA Checking ==
    ASSUME NEW l \in Limiter, l.used - l.shut <= Spare(l) + Cores * l.interval,
           l.shut = 0 \/ Exceeds(l)
    PROVE  /\ Check(l) \in Limiter /\ Accounts(Check(l))
           /\ Check(l).running = l.running /\ Check(l).closed = l.closed
<1> USE CpuLimiterAssumption
<1>1. Cores * 0 = 0 /\ Cores * l.interval \in Nat /\ Spare(l) \in Nat
  BY Distribute DEF Limiter, Spare
<1>2. Exceeds(l) \/ (l.shut = 0 /\ l.used <= Spare(l))
  <2>1. l.used \in Int /\ l.limit \in Int /\ l.interval \in Int
    BY DEF Limiter
  <2>2. Exceeds(l) \/ l.used <= Spare(l)
    BY <2>1 DEF Exceeds, Spare
  <2> QED BY <2>2
<1>3. Spare(Check(l)) = Spare(l)
  BY CheckTyped DEF Spare
<1>4. CASE Check(l).used = 0 /\ Check(l).shut = 0 /\ Check(l).allow
  BY <1>1, <1>3, <1>4, CheckTyped DEF Accounts, Limiter
<1>5. CASE /\ Check(l).used = l.used /\ Check(l).shut = l.shut
           /\ Check(l).allow <=> ~Exceeds(l)
  <2>1. Exceeds(Check(l)) <=> Exceeds(l)
    BY <1>5, CheckTyped DEF Exceeds
  <2> QED BY <1>1, <1>2, <1>3, <1>5, <2>1, CheckTyped DEF Accounts, Limiter
<1> QED BY <1>4, <1>5, CheckTyped

\* A unit of time keeps every limiter what it is.
LEMMA ElapsedTyped ==
    ASSUME NEW l \in Limiter, l.elapsed < l.interval, NEW c \in CpuTimes
    PROVE  /\ Elapsed(l, c) \in Limiter
           /\ Elapsed(l, c).elapsed < Elapsed(l, c).interval
           /\ Elapsed(l, c).limit = l.limit
           /\ Elapsed(l, c).running = l.running
           /\ Elapsed(l, c).closed = l.closed
<1> USE CpuLimiterAssumption
<1> DEFINE later == Later(l, c)
<1>1. /\ later \in Limiter
      /\ later.elapsed = l.elapsed + 1 /\ later.interval = l.interval
      /\ later.limit = l.limit
      /\ later.running = l.running /\ later.closed = l.closed
  BY LaterTyped
<1>0. Elapsed(l, c) = IF ~l.running THEN l
                      ELSE IF later.elapsed = l.interval THEN Check(later) ELSE later
  BY DEF Elapsed, Later
<1> HIDE DEF later
<1>2. CASE ~l.running
  BY <1>0, <1>2
<1>3. CASE l.running /\ later.elapsed = later.interval
  <2>1. Elapsed(l, c) = Check(later)
    BY <1>0, <1>1, <1>3
  <2>2. /\ Check(later) \in Limiter
        /\ Check(later).elapsed = 0 /\ Check(later).interval = later.interval
        /\ Check(later).limit = later.limit
        /\ Check(later).running = later.running /\ Check(later).closed = later.closed
    BY <1>1, CheckTyped
  <2> QED BY <1>1, <2>1, <2>2 DEF Limiter
<1>4. CASE l.running /\ later.elapsed # later.interval
  <2>1. Elapsed(l, c) = later
    BY <1>0, <1>1, <1>4
  <2>2. later.elapsed < later.interval
    BY <1>1, <1>4 DEF Limiter
  <2> QED BY <1>1, <2>1, <2>2
<1> QED BY <1>2, <1>3, <1>4

\* A unit of time keeps the account of a limiter, whatever the process uses.
LEMMA ElapsedAccounts ==
    ASSUME NEW l \in Limiter, Accounts(l), l.running, NEW c \in CpuTimes
    PROVE  Accounts(Elapsed(l, c))
<1> USE CpuLimiterAssumption
<1> DEFINE later == Later(l, c)
<1>0. Elapsed(l, c) = IF later.elapsed = l.interval THEN Check(later) ELSE later
  BY DEF Elapsed, Later
<1>1. /\ later \in Limiter
      /\ later.elapsed = l.elapsed + 1 /\ later.used = l.used + c
      /\ later.shut = l.shut + (IF l.allow THEN 0 ELSE c)
      /\ later.interval = l.interval /\ later.limit = l.limit
      /\ later.allow = l.allow
  BY LaterTyped
<1> HIDE DEF later
<1>2. /\ l.elapsed + 1 <= l.interval /\ c \in 0 .. Cores
      /\ l.elapsed \in Nat /\ l.interval \in Nat /\ l.used \in Nat
      /\ l.shut \in Nat /\ l.limit \in Int
      /\ Spare(l) \in Nat /\ Spare(later) = Spare(l)
  BY <1>1 DEF Accounts, Limiter, CpuTimes, Spare
<1>3. /\ Cores * (l.elapsed + 1) = Cores * l.elapsed + Cores
      /\ Cores * (l.elapsed + 1) <= Cores * l.interval
      /\ Cores * l.elapsed \in Nat /\ Cores * l.interval \in Nat
      /\ Cores * (l.elapsed + 1) \in Nat
  <2>1. /\ Cores * (l.elapsed + 1) = Cores * l.elapsed + Cores
        /\ Cores * l.elapsed \in Nat
    BY <1>2, Distribute
  <2>2. l.elapsed + 1 \in Nat
    BY <1>2
  <2>3. /\ Cores * (l.elapsed + 1) <= Cores * l.interval
        /\ Cores * (l.elapsed + 1) \in Nat
    BY <1>2, <2>2, Distribute
  <2>4. Cores * l.interval \in Nat
    BY <1>2, Distribute
  <2> QED BY <2>1, <2>3, <2>4
<1>4. l.allow => later.shut = 0 /\ later.used <= Spare(l) + Cores * (l.elapsed + 1)
  BY <1>1, <1>2, <1>3 DEF Accounts
<1>5. ~l.allow => /\ Exceeds(later)
                  /\ later.used - later.shut <= Spare(l) + Cores * l.interval
  BY <1>1, <1>2, <1>3 DEF Accounts, Exceeds
<1>6. later.used - later.shut <= Spare(later) + Cores * later.interval
  BY <1>1, <1>2, <1>3, <1>4, <1>5
<1>7. CASE later.elapsed = later.interval
  BY <1>0, <1>1, <1>4, <1>5, <1>6, <1>7, Checking
<1>8. CASE later.elapsed # later.interval
  <2>1. Elapsed(l, c) = later
    BY <1>0, <1>1, <1>8
  <2>2. Accounts(later)
    BY <1>1, <1>2, <1>4, <1>5, <1>8 DEF Accounts
  <2> QED BY <2>1, <2>2
<1> QED BY <1>7, <1>8

\* A limiter that has just been made.
LEMMA NewTyped ==
    ASSUME NEW limit \in Limits, NEW n \in CheckTimes, Valid(limit),
           NEW running \in BOOLEAN
    PROVE  LET l == NewLimiter(limit, n, running)
           IN  l \in Limiter /\ Accounts(l) /\ l.elapsed < l.interval /\ l.limit = limit
<1> USE CpuLimiterAssumption
<1> DEFINE l == NewLimiter(limit, n, running)
<1>1. Times(n) \in Nat \ {0} /\ Interval(n) \in Int /\ Times(n) * Interval(n) = Second
  BY DEF Times, Interval
<1>2. Interval(n) \in Nat \ {0}
  <2> DEFINE a == Times(n)
             b == Interval(n)
  <2>1. a \in Nat \ {0} /\ b \in Int /\ a * b > 0
    BY <1>1
  <2> HIDE DEF a, b
  <2>2. b > 0
    BY <2>1
  <2> QED BY <1>1, <2>2 DEF b
<1>3. /\ l \in Limiter /\ l.elapsed = 0 /\ l.used = 0 /\ l.shut = 0 /\ l.allow = TRUE
      /\ l.interval = Interval(n) /\ l.limit = limit
  BY <1>1, <1>2 DEF NewLimiter, Limiter
<1> HIDE DEF l
<1>4. Cores * 0 = 0 /\ Spare(l) \in Nat
  BY <1>2, <1>3 DEF Spare, Limiter
<1>5. l \in Limiter /\ Accounts(l) /\ l.elapsed < l.interval /\ l.limit = limit
  BY <1>2, <1>3, <1>4 DEF Accounts
<1> QED BY <1>5 DEF l

LEMMA LimitStep ==
    ASSUME LimitInv, [Next]_vars
    PROVE  LimitInv'
<1> USE DEF LimitInv
<1>0. /\ limiters \in Seq(Limiter) /\ Len(limiters) \in Nat
      /\ DOMAIN limiters = 1 .. Len(limiters)
      /\ \A k \in 1 .. Len(limiters) : limiters[k] \in Limiter
      /\ global \in 0 .. Len(limiters)
  BY DEF TypeInv
<1>1. ASSUME NEW limit \in Limits, NEW n \in CheckTimes, SetResourceLimit(limit, n)
      PROVE  LimitInv'
  <2>1. ASSUME Valid(limit), NEW running \in BOOLEAN,
               limiters' = Append(limiters, NewLimiter(limit, n, running)),
               global' = Len(limiters) + 1, enabled' = TRUE
        PROVE  LimitInv'
    <3> DEFINE l == NewLimiter(limit, n, running)
    <3>1. l \in Limiter /\ Accounts(l) /\ l.elapsed < l.interval /\ l.limit = limit
      BY <2>1, NewTyped
    <3> HIDE DEF l
    <3>2. /\ limiters' \in Seq(Limiter) /\ Len(limiters') = Len(limiters) + 1
          /\ DOMAIN limiters' = 1 .. Len(limiters) + 1
          /\ \A k \in 1 .. Len(limiters) : limiters'[k] = limiters[k]
          /\ limiters'[global'] = l
      BY <1>0, <2>1, <3>1 DEF l
    <3>3. TypeInv'
      BY <1>0, <2>1, <3>2 DEF TypeInv
    <3>4. \A k \in DOMAIN limiters' : limiters'[k].elapsed < limiters'[k].interval
      BY <1>0, <2>1, <3>1, <3>2
    <3>5. Accounts(limiters'[global'])
      BY <3>1, <3>2
    <3>6. Accounts(limiters[global])'
      BY <3>5 DEF Accounts, Spare, Exceeds
    <3>7. limiters'[global'].limit = setting'
      BY <1>1, <2>1, <3>1, <3>2 DEF SetResourceLimit
    <3> QED BY <3>3, <3>4, <3>6, <3>7
  <2>2. CASE ~Valid(limit) /\ UNCHANGED <<limiters, global, enabled>>
    <3>1. setting' = setting
      BY <1>1, <2>2 DEF SetResourceLimit
    <3> QED BY <2>2, <3>1 DEF TypeInv, InForce, Accounts, Spare, Exceeds
  <2>3. ASSUME limiters' = IF global = 0 THEN limiters
                           ELSE [limiters EXCEPT ![global].closed = TRUE],
               enabled' = FALSE, UNCHANGED global
        PROVE  LimitInv'
    <3>1. CASE global = 0
      BY <2>3, <3>1 DEF TypeInv, InForce
    <3>2. CASE global # 0
      <4> DEFINE l == [limiters[global] EXCEPT !.closed = TRUE]
      <4>1. /\ global \in 1 .. Len(limiters) /\ limiters[global] \in Limiter
            /\ limiters' = [limiters EXCEPT ![global] = l]
        BY <1>0, <2>3, <3>2
      <4>2. /\ l \in Limiter /\ l.elapsed = limiters[global].elapsed
            /\ l.interval = limiters[global].interval
        BY <4>1 DEF Limiter
      <4> HIDE DEF l
      <4>3. /\ limiters' \in Seq(Limiter) /\ Len(limiters') = Len(limiters)
            /\ DOMAIN limiters' = 1 .. Len(limiters)
            /\ \A k \in 1 .. Len(limiters) :
                  limiters'[k] = IF k = global THEN l ELSE limiters[k]
        BY <1>0, <4>1, <4>2
      <4> QED BY <1>0, <2>3, <4>2, <4>3 DEF TypeInv, InForce
    <3> QED BY <3>1, <3>2
  <2> QED BY <1>1, <2>1, <2>2, <2>3 DEF SetResourceLimit
<1>2. ASSUME NEW k \in DOMAIN limiters, LimiterDone(k) PROVE LimitInv'
  <2> DEFINE l == [limiters[k] EXCEPT !.running = FALSE, !.allow = TRUE]
  <2>1. /\ k \in 1 .. Len(limiters) /\ limiters[k] \in Limiter /\ limiters[k].closed
        /\ limiters' = [limiters EXCEPT ![k] = l] /\ UNCHANGED <<global, enabled, setting>>
    BY <1>0, <1>2 DEF LimiterDone
  <2>2. /\ l \in Limiter /\ l.elapsed = limiters[k].elapsed
        /\ l.interval = limiters[k].interval /\ l.closed = limiters[k].closed
        /\ l.limit = limiters[k].limit
    BY <2>1 DEF Limiter
  <2> HIDE DEF l
  <2>3. /\ limiters' \in Seq(Limiter) /\ Len(limiters') = Len(limiters)
        /\ DOMAIN limiters' = 1 .. Len(limiters)
        /\ \A j \in 1 .. Len(limiters) :
              limiters'[j] = IF j = k THEN l ELSE limiters[j]
    BY <1>0, <2>1, <2>2
  <2>4. TypeInv' /\ \A j \in DOMAIN limiters' : limiters'[j].elapsed < limiters'[j].interval
    BY <1>0, <2>1, <2>2, <2>3 DEF TypeInv
  <2>5. ASSUME InForce' PROVE Accounts(limiters[global])'
    <3>1. /\ global \in 1 .. Len(limiters) /\ global # k
          /\ limiters'[global'] = limiters[global] /\ InForce
      <4>1. global \in 1 .. Len(limiters) /\ enabled
        BY <2>1, <2>5 DEF InForce, TypeInv
      <4>2. /\ limiters'[global] = IF global = k THEN l ELSE limiters[global]
            /\ limiters'[global].running /\ ~limiters'[global].closed
        BY <2>1, <2>3, <2>5, <4>1 DEF InForce
      <4>3. global # k
        BY <2>1, <2>2, <4>2
      <4> QED BY <2>1, <4>1, <4>2, <4>3 DEF InForce
    <3> QED BY <3>1 DEF Accounts, Spare, Exceeds
  <2>6. enabled' => limiters'[global'].limit = setting'
    BY <1>0, <2>1, <2>2, <2>3 DEF TypeInv
  <2> QED BY <2>4, <2>5, <2>6
<1>3. ASSUME NEW c \in CpuTimes, Elapse(c) PROVE LimitInv'
  <2>1. /\ limiters' = [k \in DOMAIN limiters |-> Elapsed(limiters[k], c)]
        /\ UNCHANGED <<global, enabled, setting>>
    BY <1>3 DEF Elapse
  <2>2. \A k \in 1 .. Len(limiters) :
           /\ Elapsed(limiters[k], c) \in Limiter
           /\ Elapsed(limiters[k], c).elapsed < Elapsed(limiters[k], c).interval
           /\ Elapsed(limiters[k], c).limit = limiters[k].limit
           /\ Elapsed(limiters[k], c).running = limiters[k].running
           /\ Elapsed(limiters[k], c).closed = limiters[k].closed
    BY <1>0, ElapsedTyped
  <2>3. /\ limiters' \in Seq(Limiter) /\ Len(limiters') = Len(limiters)
        /\ DOMAIN limiters' = 1 .. Len(limiters)
        /\ \A k \in 1 .. Len(limiters) : limiters'[k] = Elapsed(limiters[k], c)
    BY <1>0, <2>1, <2>2
  <2>4. TypeInv' /\ \A k \in DOMAIN limiters' : limiters'[k].elapsed < limiters'[k].interval
    BY <1>0, <2>1, <2>2, <2>3 DEF TypeInv
  <2>5. ASSUME InForce' PROVE Accounts(limiters[global])'
    <3>1. /\ global \in 1 .. Len(limiters) /\ enabled /\ InForce
          /\ limiters'[global'] = Elapsed(limiters[global], c)
      BY <1>0, <2>1, <2>2, <2>3, <2>5 DEF InForce, TypeInv
    <3>2. Accounts(Elapsed(limiters[global], c))
      BY <1>0, <3>1, ElapsedAccounts DEF InForce
    <3> QED BY <3>1, <3>2 DEF Accounts, Spare, Exceeds
  <2>6. enabled' => limiters'[global'].limit = setting'
    BY <1>0, <2>1, <2>2, <2>3 DEF TypeInv
  <2> QED BY <2>4, <2>5, <2>6
<1>4. CASE TakeEvent
  BY <1>4 DEF TakeEvent, TypeInv, InForce, Accounts, Spare, Exceeds
<1>5. CASE Allow
  BY <1>5 DEF Allow, TypeInv, InForce, Accounts, Spare, Exceeds
<1>6. CASE UNCHANGED vars
  BY <1>6 DEF vars, TypeInv, InForce, Accounts, Spare, Exceeds
<1> QED
  BY <1>1, <1>2, <1>3, <1>4, <1>5, <1>6 DEF Next

LEMMA LimitInit == Init => LimitInv
<1> SUFFICES ASSUME Init PROVE LimitInv
  OBVIOUS
<1>1. limiters = <<>> /\ global = 0 /\ enabled = FALSE
  BY DEF Init
<1> QED BY <1>1 DEF LimitInv, TypeInv, InForce

LEMMA LimitEnough == LimitInv => WithinLimit
<1> SUFFICES ASSUME LimitInv, InForce
             PROVE  limiters[global].used - limiters[global].shut
                       <= Spare(limiters[global]) + Cores * limiters[global].interval
  BY DEF InForce, LimitInv, WithinLimit, Spare
<1> DEFINE l == limiters[global]
<1>1. l \in Limiter /\ Accounts(l)
  BY DEF LimitInv, TypeInv, InForce
<1> HIDE DEF l
<1>2. /\ l.elapsed \in Nat /\ l.interval \in Nat /\ l.elapsed <= l.interval
      /\ l.used \in Nat /\ l.shut \in Nat /\ Spare(l) \in Nat
  BY <1>1 DEF Limiter, Accounts, Spare
<1>3. /\ Cores * l.elapsed <= Cores * l.interval
      /\ Cores * l.elapsed \in Nat /\ Cores * l.interval \in Nat
  BY <1>2, Distribute, CpuLimiterAssumption
<1>4. l.used - l.shut <= Spare(l) + Cores * l.interval
  BY <1>1, <1>2, <1>3 DEF Accounts
<1> QED BY <1>4 DEF l

\* Of every second, the limiter in force keeps the CPU time that is used with
\* its gate open within the last valid limit and what all cores can use before
\* a check (CPULimit.Start, SetResourceLimit), whatever goroutines that do not
\* wait at the gate use behind it.
THEOREM CpuWithinLimit == Spec => []WithinLimit
<1> QED BY LimitInit, LimitStep, LimitEnough, PTL DEF Spec
=============================================================================
