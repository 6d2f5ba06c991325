------------------------ MODULE StrikeTracker_proofs ------------------------
(***************************************************************************)
(* Proof that StrikeTracker implements StrikePolicy, for every value of    *)
(* the constants that the two assumptions of StrikeTracker allow.          *)
(***************************************************************************)
EXTENDS StrikeTracker, TLAPS

\* A pool that the tracker remembers: it has the policy's streak, its counter
\* saturates.
Linked(p, s) ==
    /\ p.last # 0
    /\ s.length # 0
    /\ p.last = s.last
    /\ p.cat = s.cat
    /\ p.count = IF s.length < MaxCount THEN s.length ELSE MaxCount

\* A pool that the tracker does not remember: no strike, neither one that a
\* watcher is about to record nor a later one, can go on with its streak.
Forgotten(ip, pool) ==
    LET s == streak[ip][pool]
    IN  \/ s.length = 0
        \/ \A rule \in Rules : rule.pool = pool =>
              /\ s.last + rule.window < now
              /\ \A t \in Threads :
                    thread[t] # Idle /\ thread[t].ip = ip /\ thread[t].rule = rule
                        => s.last + rule.window < thread[t].at

PoolInv(ip, pool) ==
    \/ Linked(records[ip][pool], streak[ip][pool])
    \/ records[ip][pool] = Fresh /\ Forgotten(ip, pool)

\* Clocks that were read are past, and at most Skew when a strike is pending.
ClockInv ==
    /\ \A t \in Threads : thread[t] # Idle => /\ thread[t].at <= now
                                              /\ now <= thread[t].at + Skew
    /\ sweep # Idle => sweep.at <= now

\* The inductive invariant.
TrackInv ==
    /\ TypeOK
    /\ ClockInv
    /\ \A ip \in Ips, pool \in Pools : PoolInv(ip, pool)

-----------------------------------------------------------------------------
(* Types.                                                                  *)

\* The pools of the rules.
LEMMA RuleTypes ==
    ASSUME NEW rule \in Rules
    PROVE  /\ rule.pool \in Pools
           /\ rule.cat \in Nat
           /\ rule.threshold \in 1 .. MaxCount
           /\ rule.window \in Nat
           /\ rule.window + Skew <= MaxIdle
BY ConstantsAssumption, IdleAssumption DEF Pools, Policy!Pools

\* What a pool and a streak become is a pool and a streak.
LEMMA CountedTypes ==
    ASSUME NEW rule \in Rules, NEW at \in 1 .. MaxTime,
           NEW p \in [count : 0 .. MaxCount, last : 0 .. MaxTime, cat : Nat],
           NEW s \in [length : 0 .. MaxStreak, last : 0 .. MaxTime, cat : Nat],
           s.length < MaxStreak
    PROVE  /\ Counted(p, rule, at) \in [count : 0 .. MaxCount,
                                        last : 0 .. MaxTime, cat : Nat]
           /\ Policy!Extended(s, rule, at) \in
                [length : 0 .. MaxStreak, last : 0 .. MaxTime, cat : Nat]
<1>1. rule.cat \in Nat
  BY RuleTypes
<1>2. \A n \in 0 .. MaxCount : Successor(n) \in 0 .. MaxCount
  BY ConstantsAssumption DEF Successor
<1>3. 0 \in 0 .. MaxCount
  BY ConstantsAssumption
<1>4. Counted(p, rule, at) \in [count : 0 .. MaxCount, last : 0 .. MaxTime, cat : Nat]
  BY <1>1, <1>2, <1>3, ConstantsAssumption DEF Counted
<1>5. /\ s.length + 1 \in 0 .. MaxStreak /\ 1 \in 0 .. MaxStreak
      /\ at \in 0 .. MaxTime
  BY ConstantsAssumption
<1>6. CASE Policy!Continues(s, rule, at)
  BY <1>4, <1>5, <1>6 DEF Policy!Extended
<1>7. CASE ~Policy!Continues(s, rule, at)
  BY <1>1, <1>4, <1>5, <1>7 DEF Policy!Extended
<1> QED
  BY <1>6, <1>7

\* The tracker starts in its types.
LEMMA InitType == Init => TypeOK
BY ConstantsAssumption
DEF Init, TypeOK, NoRecord, Fresh, Idle, Policy!Init, Policy!NoStreak,
    Policy!NoVerdict, Pools

\* What Strike does, with the thread's strike in hand.
LEMMA StrikeEffect ==
    ASSUME TypeOK, NEW t \in Threads, Strike(t)
    PROVE  LET ip == thread[t].ip
               rule == thread[t].rule
               at == thread[t].at
           IN  /\ ip \in Ips /\ rule \in Rules /\ at \in 1 .. MaxTime
               /\ records[ip][rule.pool] \in
                    [count : 0 .. MaxCount, last : 0 .. MaxTime, cat : Nat]
               /\ streak[ip][rule.pool] \in
                    [length : 0 .. MaxStreak, last : 0 .. MaxTime, cat : Nat]
               /\ streak[ip][rule.pool].length < MaxStreak
<1> DEFINE strike == thread[t]
<1>1. strike \in [pc : {"striking"}, ip : Ips, rule : Rules, at : 1 .. MaxTime]
  BY DEF TypeOK, Strike
<1>2. strike.ip \in Ips /\ strike.rule \in Rules /\ strike.at \in 1 .. MaxTime
  <2> HIDE DEF strike
  <2> QED
    BY <1>1
<1>3. strike.rule.pool \in Pools
  BY <1>2, RuleTypes
<1>4. streak[strike.ip][strike.rule.pool].length < MaxStreak
  BY DEF Strike
<1> QED
  BY <1>2, <1>3, <1>4 DEF TypeOK

\* Every step keeps the types.
LEMMA NextType == TypeOK /\ [Next]_vars => TypeOK'
<1> SUFFICES ASSUME TypeOK, [Next]_vars PROVE TypeOK'
  OBVIOUS
<1>1. CASE Tick
  BY <1>1, ConstantsAssumption DEF Tick, TypeOK
<1>2. ASSUME NEW t \in Threads, NEW ip \in Ips, NEW rule \in Rules,
             ReadClock(t, ip, rule)
      PROVE  TypeOK'
  BY <1>2 DEF ReadClock, TypeOK
<1>3. ASSUME NEW t \in Threads, Strike(t) PROVE TypeOK'
  <2> DEFINE ip == thread[t].ip
             rule == thread[t].rule
             at == thread[t].at
             p == Counted(records[ip][rule.pool], rule, at)
             s == Policy!Extended(streak[ip][rule.pool], rule, at)
             Pool == [count : 0 .. MaxCount, last : 0 .. MaxTime, cat : Nat]
             Streak == [length : 0 .. MaxStreak, last : 0 .. MaxTime, cat : Nat]
  <2>1. ip \in Ips /\ rule \in Rules /\ rule.pool \in Pools /\ at \in 1 .. MaxTime
    BY <1>3, StrikeEffect, RuleTypes
  <2>2. p \in Pool /\ s \in Streak
    BY <1>3, <2>1, StrikeEffect, CountedTypes
  <2>3. /\ records' = [records EXCEPT ![ip][rule.pool] = p]
        /\ streak' = [streak EXCEPT ![ip][rule.pool] = s]
        /\ thread' = [thread EXCEPT ![t] = Idle]
        /\ verdict' = [ip |-> ip, rule |-> rule, at |-> at,
                       banned |-> p.count >= rule.threshold]
        /\ now' = now /\ sweep' = sweep
    BY <1>3 DEF Strike
  <2> HIDE DEF ip, rule, at, p, s
  <2>4. records' \in [Ips -> [Pools -> Pool]]
    BY <2>1, <2>2, <2>3 DEF TypeOK
  <2>5. streak' \in [Ips -> [Pools -> Streak]]
    BY <2>1, <2>2, <2>3 DEF TypeOK
  <2>6. (p.count >= rule.threshold) \in BOOLEAN
    OBVIOUS
  <2> QED
    BY <2>1, <2>3, <2>4, <2>5, <2>6 DEF TypeOK
<1>4. CASE SweepStart
  BY <1>4 DEF SweepStart, TypeOK
<1>5. ASSUME NEW s \in Shards, SweepShard(s) PROVE TypeOK'
  <2>1. NoRecord \in [Pools -> [count : 0 .. MaxCount, last : 0 .. MaxTime, cat : Nat]]
    BY ConstantsAssumption DEF NoRecord, Fresh
  <2>2. records' \in [Ips -> [Pools -> [count : 0 .. MaxCount,
                                        last : 0 .. MaxTime, cat : Nat]]]
    BY <1>5, <2>1 DEF SweepShard, TypeOK
  <2>3. sweep' \in {Idle} \cup [pc : {"sweeping"}, at : 1 .. MaxTime,
                                left : SUBSET Shards]
    BY <1>5 DEF SweepShard, TypeOK, Idle
  <2> QED
    BY <1>5, <2>2, <2>3 DEF SweepShard, TypeOK
<1>6. CASE UNCHANGED vars
  BY <1>6 DEF vars, TypeOK
<1> QED
  BY <1>1, <1>2, <1>3, <1>4, <1>5, <1>6 DEF Next, Sweep

\* Type correctness of the tracker (strikes.rs:43-158).
THEOREM TypeCorrect == Spec => []TypeOK
BY InitType, NextType, PTL DEF Spec

-----------------------------------------------------------------------------
(* The refinement.                                                         *)

\* One more strike in a pool that satisfies PoolInv: the counter reaches the
\* threshold exactly when the streak does.
LEMMA CountedIsExtended ==
    ASSUME NEW rule \in Rules, NEW at \in 1 .. MaxTime,
           NEW p \in [count : 0 .. MaxCount, last : 0 .. MaxTime, cat : Nat],
           NEW s \in [length : 0 .. MaxStreak, last : 0 .. MaxTime, cat : Nat],
           \/ Linked(p, s)
           \/ p = Fresh /\ ~Policy!Continues(s, rule, at)
    PROVE  LET counted == Counted(p, rule, at)
               extended == Policy!Extended(s, rule, at)
           IN  /\ Linked(counted, extended)
               /\ (counted.count >= rule.threshold) <=>
                  (extended.length >= rule.threshold)
<1> DEFINE counted == Counted(p, rule, at)
           extended == Policy!Extended(s, rule, at)
<1>1. rule.cat \in Nat /\ rule.threshold \in 1 .. MaxCount /\ rule.window \in Nat
  BY RuleTypes
<1>2. /\ counted.last = at /\ counted.cat = rule.cat
      /\ extended.last = at /\ extended.length # 0
  BY ConstantsAssumption DEF Counted, Policy!Extended
<1>3. extended.cat = rule.cat
  BY DEF Policy!Extended, Policy!Continues
<1>4. counted.count = IF extended.length < MaxCount THEN extended.length ELSE MaxCount
  <2>1. CASE Linked(p, s) /\ Policy!Continues(s, rule, at)
    <3>1. counted.count = Successor(p.count)
      BY <1>1, <2>1 DEF Counted, Linked, Longer, Policy!Continues
    <3>2. extended.length = s.length + 1
      BY <2>1 DEF Policy!Extended
    <3> QED
      BY <2>1, <3>1, <3>2, ConstantsAssumption DEF Successor, Linked
  <2>2. CASE Linked(p, s) /\ ~Policy!Continues(s, rule, at)
    <3>1. counted.count = Successor(0)
      BY <1>1, <2>2 DEF Counted, Linked, Longer, Policy!Continues
    <3>2. extended.length = 1
      BY <2>2 DEF Policy!Extended
    <3> QED
      BY <3>1, <3>2, ConstantsAssumption DEF Successor
  <2>3. CASE p = Fresh /\ ~Policy!Continues(s, rule, at)
    <3>1. counted.count = Successor(0)
      BY <2>3 DEF Counted, Fresh
    <3>2. extended.length = 1
      BY <2>3 DEF Policy!Extended
    <3> QED
      BY <3>1, <3>2, ConstantsAssumption DEF Successor
  <2> QED
    BY <2>1, <2>2, <2>3
<1>5. extended.length \in Nat
  BY DEF Policy!Extended
<1>6. (counted.count >= rule.threshold) <=> (extended.length >= rule.threshold)
  BY <1>1, <1>4, <1>5, ConstantsAssumption
<1>7. Linked(counted, extended)
  BY <1>2, <1>3, <1>4 DEF Linked
<1> QED
  BY <1>6, <1>7

\* A watcher's strike finds a pool that the tracker remembers, or one whose
\* streak it cannot go on with.
LEMMA StrikeMeetsPool ==
    ASSUME TrackInv, NEW t \in Threads, Strike(t)
    PROVE  LET ip == thread[t].ip
               rule == thread[t].rule
               p == records[ip][rule.pool]
               s == streak[ip][rule.pool]
           IN  \/ Linked(p, s)
               \/ p = Fresh /\ ~Policy!Continues(s, rule, thread[t].at)
<1> DEFINE ip == thread[t].ip
           rule == thread[t].rule
           s == streak[ip][rule.pool]
<1>1. TypeOK
  BY DEF TrackInv
<1>2. /\ ip \in Ips /\ rule \in Rules /\ rule.pool \in Pools
      /\ thread[t].at \in 1 .. MaxTime
      /\ s.last \in 0 .. MaxTime /\ s.length \in 0 .. MaxStreak
      /\ rule.window \in Nat
  BY <1>1, StrikeEffect, RuleTypes
<1>3. PoolInv(ip, rule.pool)
  BY <1>2 DEF TrackInv
<1>4. ASSUME Forgotten(ip, rule.pool)
      PROVE  ~Policy!Continues(s, rule, thread[t].at)
  <2>1. s.length = 0 \/ s.last + rule.window < thread[t].at
    BY <1>2, <1>4 DEF Forgotten, Strike
  <2>2. Policy!Continues(s, rule, thread[t].at)
        => s.length > 0 /\ thread[t].at <= s.last + rule.window
    BY DEF Policy!Continues
  <2> HIDE DEF s, rule
  <2> QED
    BY <1>2, <2>1, <2>2
<1> QED
  BY <1>3, <1>4 DEF PoolInv

\* The tracker starts with nothing to remember.
LEMMA TrackInvInit == Init => TrackInv
<1> SUFFICES ASSUME Init PROVE TrackInv
  OBVIOUS
<1>1. ClockInv
  BY DEF Init, ClockInv, Idle
<1>2. \A ip \in Ips, pool \in Pools : PoolInv(ip, pool)
  BY DEF Init, PoolInv, Forgotten, NoRecord, Policy!Init, Policy!NoStreak, Pools
<1> QED
  BY <1>1, <1>2, InitType DEF TrackInv

\* A step that leaves the pool alone and starts no strike that could go on
\* with a forgotten streak keeps PoolInv.
LEMMA PoolInvKept ==
    ASSUME TrackInv, TypeOK', NEW ip \in Ips, NEW pool \in Pools,
           records'[ip][pool] = records[ip][pool],
           streak'[ip][pool] = streak[ip][pool],
           now' >= now,
           \A t \in Threads :
               \/ thread'[t] = Idle
               \/ thread'[t] = thread[t]
               \/ thread'[t].at = now
    PROVE  PoolInv(ip, pool)'
<1>1. PoolInv(ip, pool)
  BY DEF TrackInv
<1>2. CASE Linked(records[ip][pool], streak[ip][pool])
  BY <1>2 DEF PoolInv, Linked
<1>3. CASE records[ip][pool] = Fresh /\ Forgotten(ip, pool)
  <2> DEFINE s == streak[ip][pool]
  <2>1. CASE s.length = 0
    BY <1>3, <2>1 DEF PoolInv, Forgotten
  <2>2. CASE s.length # 0
    <3>1. s.last \in Nat /\ now \in Nat /\ now' \in Nat
      BY ConstantsAssumption DEF TrackInv, TypeOK
    <3>2. ASSUME NEW rule \in Rules, rule.pool = pool
          PROVE  /\ s.last + rule.window < now'
                 /\ \A t \in Threads :
                       thread'[t] # Idle /\ thread'[t].ip = ip
                           /\ thread'[t].rule = rule
                           => s.last + rule.window < thread'[t].at
      <4>1. /\ s.last + rule.window < now
            /\ \A t \in Threads :
                  thread[t] # Idle /\ thread[t].ip = ip /\ thread[t].rule = rule
                      => s.last + rule.window < thread[t].at
        BY <1>3, <2>2, <3>2 DEF Forgotten
      <4> QED
        BY <3>1, <4>1, RuleTypes
    <3>3. Forgotten(ip, pool)'
      BY <3>2 DEF Forgotten
    <3> QED
      BY <1>3, <3>3 DEF PoolInv
  <2> QED
    BY <2>1, <2>2
<1> QED
  BY <1>1, <1>2, <1>3 DEF PoolInv

\* Every step keeps the clocks.
LEMMA ClockInvNext == TypeOK /\ ClockInv /\ [Next]_vars => ClockInv'
<1> SUFFICES ASSUME TypeOK, ClockInv, [Next]_vars PROVE ClockInv'
  OBVIOUS
<1>0. /\ now \in Nat
      /\ \A t \in Threads : thread[t] # Idle => thread[t].at \in Nat
  BY ConstantsAssumption DEF TypeOK
<1>1. CASE Tick
  BY <1>0, <1>1, ConstantsAssumption DEF Tick, ClockInv, TypeOK
<1>2. ASSUME NEW t \in Threads, NEW ip \in Ips, NEW rule \in Rules,
             ReadClock(t, ip, rule)
      PROVE  ClockInv'
  BY <1>0, <1>2, ConstantsAssumption DEF ReadClock, ClockInv, TypeOK
<1>3. ASSUME NEW t \in Threads, Strike(t) PROVE ClockInv'
  <2>1. /\ thread' = [thread EXCEPT ![t] = Idle]
        /\ now' = now /\ sweep' = sweep
    BY <1>3 DEF Strike
  <2> QED
    BY <1>0, <2>1 DEF ClockInv, TypeOK
<1>4. CASE SweepStart
  BY <1>0, <1>4 DEF SweepStart, ClockInv
<1>5. ASSUME NEW s \in Shards, SweepShard(s) PROVE ClockInv'
  <2>1. /\ thread' = thread /\ now' = now
        /\ sweep' # Idle => sweep'.at = sweep.at
    BY <1>5 DEF SweepShard, TypeOK, Idle
  <2> QED
    BY <1>5, <2>1 DEF SweepShard, ClockInv
<1>6. CASE UNCHANGED vars
  BY <1>6 DEF vars, ClockInv
<1> QED
  BY <1>1, <1>2, <1>3, <1>4, <1>5, <1>6 DEF Next, Sweep

\* What the sweeper drops is forgotten: the streaks of an idle record are older
\* than the window of every rule, also for a strike that is pending.
LEMMA SweptIsForgotten ==
    ASSUME TrackInv, sweep # Idle, NEW ip \in Ips, IsIdle(ip, sweep.at),
           NEW pool \in Pools
    PROVE  Forgotten(ip, pool)
<1> DEFINE s == streak[ip][pool]
<1>1. PoolInv(ip, pool) /\ ClockInv /\ TypeOK
  BY DEF TrackInv
<1>2. CASE Linked(records[ip][pool], s)
  <2>1. s.last + MaxIdle < sweep.at
    BY <1>1, <1>2, ConstantsAssumption DEF IsIdle, Linked, Longer, TypeOK
  <2>2. /\ sweep.at \in Nat /\ now \in Nat /\ s.last \in Nat
        /\ sweep.at <= now
    BY <1>1, ConstantsAssumption DEF ClockInv, TypeOK
  <2>3. ASSUME NEW rule \in Rules PROVE s.last + rule.window < now
    BY <2>1, <2>2, RuleTypes, ConstantsAssumption
  <2>4. ASSUME NEW rule \in Rules, NEW t \in Threads, thread[t] # Idle
        PROVE  s.last + rule.window < thread[t].at
    <3>1. thread[t].at \in Nat /\ now <= thread[t].at + Skew
      BY <1>1, <2>4, ConstantsAssumption DEF ClockInv, TypeOK
    <3> QED
      BY <2>1, <2>2, <3>1, RuleTypes, ConstantsAssumption
  <2> QED
    BY <2>3, <2>4 DEF Forgotten
<1>3. CASE Forgotten(ip, pool)
  BY <1>3
<1> QED
  BY <1>1, <1>2, <1>3 DEF PoolInv

\* Every step keeps the invariant.
LEMMA TrackInvNext == TrackInv /\ [Next]_vars => TrackInv'
<1> SUFFICES ASSUME TrackInv, [Next]_vars PROVE TrackInv'
  OBVIOUS
<1>a. TypeOK' /\ ClockInv'
  BY NextType, ClockInvNext DEF TrackInv
<1>b. now \in Nat /\ TypeOK
  BY ConstantsAssumption DEF TrackInv, TypeOK
<1> SUFFICES ASSUME NEW ip \in Ips, NEW pool \in Pools PROVE PoolInv(ip, pool)'
  BY <1>a DEF TrackInv
<1>1. CASE Tick
  BY <1>1, <1>a, <1>b, PoolInvKept DEF Tick
<1>2. ASSUME NEW t \in Threads, NEW i \in Ips, NEW rule \in Rules,
             ReadClock(t, i, rule)
      PROVE  PoolInv(ip, pool)'
  <2>1. \A u \in Threads : thread'[u] = thread[u] \/ thread'[u].at = now
    BY <1>2, <1>b DEF ReadClock, TypeOK
  <2> QED
    BY <1>2, <1>a, <1>b, <2>1, PoolInvKept DEF ReadClock
<1>3. ASSUME NEW t \in Threads, Strike(t) PROVE PoolInv(ip, pool)'
  <2> DEFINE i == thread[t].ip
             rule == thread[t].rule
             at == thread[t].at
             p == Counted(records[i][rule.pool], rule, at)
             s == Policy!Extended(streak[i][rule.pool], rule, at)
  <2>1. i \in Ips /\ rule \in Rules /\ rule.pool \in Pools
    BY <1>3, <1>b, StrikeEffect, RuleTypes
  <2>2. Linked(p, s)
    BY <1>3, <1>b, StrikeEffect, StrikeMeetsPool, CountedIsExtended
  <2>3. /\ records' = [records EXCEPT ![i][rule.pool] = p]
        /\ streak' = [streak EXCEPT ![i][rule.pool] = s]
        /\ thread' = [thread EXCEPT ![t] = Idle]
        /\ now' = now
    BY <1>3 DEF Strike
  <2> HIDE DEF i, rule, at, p, s
  <2>4. CASE ip = i /\ pool = rule.pool
    <3>1. records'[ip][pool] = p /\ streak'[ip][pool] = s
      BY <1>b, <2>1, <2>3, <2>4 DEF TypeOK
    <3> QED
      BY <2>2, <3>1 DEF PoolInv
  <2>5. CASE ip # i \/ pool # rule.pool
    <3>1. /\ records'[ip][pool] = records[ip][pool]
          /\ streak'[ip][pool] = streak[ip][pool]
      BY <1>b, <2>1, <2>3, <2>5 DEF TypeOK
    <3>2. \A u \in Threads : thread'[u] = thread[u] \/ thread'[u] = Idle
      BY <1>b, <2>3 DEF TypeOK
    <3> QED
      BY <1>a, <1>b, <2>3, <3>1, <3>2, PoolInvKept
  <2> QED
    BY <2>4, <2>5
<1>4. CASE SweepStart
  BY <1>4, <1>a, <1>b, PoolInvKept DEF SweepStart
<1>5. ASSUME NEW shard \in Shards, SweepShard(shard) PROVE PoolInv(ip, pool)'
  <2>1. /\ sweep # Idle
        /\ thread' = thread /\ now' = now /\ streak' = streak
        /\ records'[ip] = IF ShardOf[ip] = shard /\ IsIdle(ip, sweep.at)
                          THEN NoRecord ELSE records[ip]
    BY <1>5 DEF SweepShard
  <2>2. CASE ShardOf[ip] = shard /\ IsIdle(ip, sweep.at)
    <3>1. records'[ip][pool] = Fresh
      BY <2>1, <2>2 DEF NoRecord
    <3>2. Forgotten(ip, pool)'
      BY <2>1, <2>2, SweptIsForgotten DEF Forgotten
    <3> QED
      BY <3>1, <3>2 DEF PoolInv
  <2>3. CASE ~(ShardOf[ip] = shard /\ IsIdle(ip, sweep.at))
    BY <1>a, <1>b, <2>1, <2>3, PoolInvKept
  <2> QED
    BY <2>2, <2>3
<1>6. CASE UNCHANGED vars
  BY <1>6, <1>a, <1>b, PoolInvKept DEF vars
<1> QED
  BY <1>1, <1>2, <1>3, <1>4, <1>5, <1>6 DEF Next, Sweep

\* Under the invariant a step of the tracker is a strike of the policy or
\* leaves its variables alone.
LEMMA StepsArePolicySteps ==
    TrackInv /\ [Next]_vars => [Policy!Next]_<<streak, verdict>>
<1> SUFFICES ASSUME TrackInv, [Next]_vars
             PROVE  Policy!Next \/ UNCHANGED <<streak, verdict>>
  OBVIOUS
<1>1. ASSUME NEW t \in Threads, Strike(t) PROVE Policy!Next
  <2> DEFINE ip == thread[t].ip
             rule == thread[t].rule
             at == thread[t].at
             p == Counted(records[ip][rule.pool], rule, at)
             s == Policy!Extended(streak[ip][rule.pool], rule, at)
  <2>1. /\ ip \in Ips /\ rule \in Rules /\ rule.pool \in Pools
        /\ at \in 1 .. MaxTime
    BY <1>1, StrikeEffect, RuleTypes DEF TrackInv
  <2>2. (p.count >= rule.threshold) <=> (s.length >= rule.threshold)
    BY <1>1, StrikeEffect, StrikeMeetsPool, CountedIsExtended DEF TrackInv
  <2>3. /\ streak' = [streak EXCEPT ![ip][rule.pool] = s]
        /\ verdict' = [ip |-> ip, rule |-> rule, at |-> at,
                       banned |-> p.count >= rule.threshold]
    BY <1>1 DEF Strike
  <2> HIDE DEF ip, rule, at, p, s
  <2>4. streak'[ip][rule.pool] = s
    BY <2>1, <2>3 DEF TrackInv, TypeOK
  <2>5. (p.count >= rule.threshold) = (s.length >= rule.threshold)
    BY <2>2
  <2>6. verdict' = [ip |-> ip, rule |-> rule, at |-> at,
                    banned |-> streak'[ip][rule.pool].length >= rule.threshold]
    BY <2>3, <2>4, <2>5
  <2>7. Policy!Strike(ip, rule, at)
    BY <2>3, <2>6 DEF Policy!Strike, s
  <2> QED
    BY <2>1, <2>7 DEF Policy!Next
<1> QED
  BY <1>1 DEF Next, Sweep, Tick, ReadClock, SweepStart, SweepShard, vars

\* The tracker implements the policy: neither the records it forgets, nor the
\* counters it saturates, nor the order in which watchers and sweeper take the
\* locks changes a verdict (strikes.rs:43-158).
THEOREM PolicyIsImplemented == Spec => ImplementsPolicy
<1>1. Init => Policy!Init
  BY DEF Init
<1> QED
  BY <1>1, TrackInvInit, TrackInvNext, StepsArePolicySteps, PTL
  DEF Spec, ImplementsPolicy, Policy!Spec
=============================================================================
