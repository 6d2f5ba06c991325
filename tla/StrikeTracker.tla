--------------------------- MODULE StrikeTracker ---------------------------
(***************************************************************************)
(* The strike tracker of the threat pipeline.  Every watcher evaluates its *)
(* lines on a thread of its own: it reads the clock, then takes the lock   *)
(* of the address's shard and updates the record there.  The sweeper reads *)
(* the clock once and then visits the shards one after the other, dropping *)
(* the records that were idle in every pool.  Two watchers may so record   *)
(* in an order that is not that of their clocks, and a sweep may visit a   *)
(* shard long after it read the clock.                                     *)
(*                                                                         *)
(* The three record_*_strike functions differ in the pool they count in;   *)
(* only the isolated one has categories (a rule's cat is 0 otherwise).     *)
(* Nothing is persisted: a restart is Init.                                *)
(***************************************************************************)
EXTENDS Naturals, FiniteSets

CONSTANTS
    Ips,        \* the addresses
    Rules,      \* the calls the pipeline makes: [pool, cat, threshold, window]
    Threads,    \* the watchers
    Shards,     \* the shards, in the order of the sweep (0 .. 63 in the code)
    ShardOf,    \* the shard of each address
    MaxCount,   \* where a counter saturates (255 in the code)
    MaxIdle,    \* the idle time after which a record is dropped (600)
    Skew,       \* bound: the time from reading the clock to the update
    MaxTime,    \* bound: the last instant of the clock
    MaxStreak   \* bound: the strikes of a streak

ASSUME ConstantsAssumption ==
    /\ Rules \subseteq [pool : {"shared", "isolated", "tool"}, cat : Nat,
                        threshold : 1 .. MaxCount, window : Nat]
    /\ Shards \subseteq Nat
    /\ ShardOf \in [Ips -> Shards]
    /\ MaxCount \in Nat \ {0}
    /\ MaxIdle \in Nat
    /\ Skew \in Nat
    /\ MaxTime \in Nat \ {0}
    /\ MaxStreak \in Nat

\* A record is dropped only when no rule can count on it any more.
ASSUME IdleAssumption == \A rule \in Rules : rule.window + Skew <= MaxIdle

VARIABLES
    now,      \* the clock, in seconds
    records,  \* the records of the addresses that have one
    thread,   \* the strike each watcher is about to record
    sweep,    \* the clock and the shards left of the sweep under way
    streak,   \* history: the streaks of StrikePolicy
    verdict   \* what the latest strike returned

vars == <<now, records, thread, sweep, streak, verdict>>

Policy == INSTANCE StrikePolicy WITH Times <- 1 .. MaxTime

Pools == Policy!Pools

\* IpStrikeRecord::default(), per pool: last 0 means that no strike came yet.
Fresh == [count |-> 0, last |-> 0, cat |-> 0]

NoRecord == [pool \in Pools |-> Fresh]

Idle == [pc |-> "idle"]

\* An address without an entry has a record of fresh pools: or_default().
Known == {ip \in Ips : records[ip] # NoRecord}

-----------------------------------------------------------------------------
\* saturating_add(1)
Successor(n) == IF n < MaxCount THEN n + 1 ELSE MaxCount

\* now_secs.saturating_sub(last) > span
Longer(at, last, span) == at > last + span

\* Mutant of Counted: the addition does not saturate.
CountedWithoutLimit(p, rule, at) ==
    [count |-> IF p.cat # rule.cat \/ (p.last # 0 /\ Longer(at, p.last, rule.window))
               THEN 1 ELSE p.count + 1,
     last |-> at, cat |-> rule.cat]

\* A pool after one more strike.
Counted(p, rule, at) ==
    LET restart == \/ p.cat # rule.cat
                   \/ p.last # 0 /\ Longer(at, p.last, rule.window)
    IN  [count |-> Successor(IF restart THEN 0 ELSE p.count),
         last |-> at, cat |-> rule.cat]

\* Mutant of IsIdle: only the shared pool is looked at.
SharedPoolIsIdle(ip, at) ==
    \A pool \in Pools \cap {"shared"} :
        LET last == records[ip][pool].last
        IN  last = 0 \/ Longer(at, last, MaxIdle)

\* Mutant of IsIdle: a pool without a strike keeps the record.
EveryPoolIsIdle(ip, at) ==
    \A pool \in Pools : LET last == records[ip][pool].last
                        IN  last # 0 /\ Longer(at, last, MaxIdle)

\* What cleanup_stale drops: every pool was idle for MaxIdle, or never struck.
IsIdle(ip, at) ==
    \A pool \in Pools : LET last == records[ip][pool].last
                        IN  last = 0 \/ Longer(at, last, MaxIdle)

-----------------------------------------------------------------------------
Init ==
    /\ now = 1
    /\ records = [ip \in Ips |-> NoRecord]
    /\ thread = [t \in Threads |-> Idle]
    /\ sweep = Idle
    /\ Policy!Init

\* Time passes; a watcher records at most Skew after it read the clock.
Tick ==
    /\ now < MaxTime
    /\ \A t \in Threads : thread[t] # Idle => now < thread[t].at + Skew
    /\ now' = now + 1
    /\ UNCHANGED <<records, thread, sweep, streak, verdict>>

\* The pipeline decides for a strike and reads the clock.
ReadClock(t, ip, rule) ==
    /\ thread[t] = Idle
    /\ thread' = [thread EXCEPT ![t] =
                    [pc |-> "striking", ip |-> ip, rule |-> rule, at |-> now]]
    /\ UNCHANGED <<now, records, sweep, streak, verdict>>

\* record_*_strike, under the write lock of the shard.
Strike(t) ==
    /\ thread[t] # Idle
    /\ LET ip == thread[t].ip
           rule == thread[t].rule
           at == thread[t].at
           counted == Counted(records[ip][rule.pool], rule, at)
       IN  /\ streak[ip][rule.pool].length < MaxStreak
           /\ records' = [records EXCEPT ![ip][rule.pool] = counted]
           /\ streak' = [streak EXCEPT ![ip][rule.pool] =
                           Policy!Extended(@, rule, at)]
           /\ verdict' = [ip |-> ip, rule |-> rule, at |-> at,
                          banned |-> counted.count >= rule.threshold]
    /\ thread' = [thread EXCEPT ![t] = Idle]
    /\ UNCHANGED <<now, sweep>>

\* The sweep ticker fires: cleanup_stale gets the clock of this moment.
SweepStart ==
    /\ sweep = Idle
    /\ sweep' = [pc |-> "sweeping", at |-> now, left |-> Shards]
    /\ UNCHANGED <<now, records, thread, streak, verdict>>

\* retain on one shard, under its write lock.
SweepShard(s) ==
    /\ sweep # Idle
    /\ s \in sweep.left
    /\ \A r \in sweep.left : s <= r
    /\ records' = [ip \in Ips |-> IF ShardOf[ip] = s /\ IsIdle(ip, sweep.at)
                                  THEN NoRecord ELSE records[ip]]
    /\ sweep' = IF sweep.left = {s} THEN Idle
                ELSE [sweep EXCEPT !.left = @ \ {s}]
    /\ UNCHANGED <<now, thread, streak, verdict>>

Sweep == SweepStart \/ \E s \in Shards : SweepShard(s)

Next ==
    \/ Tick
    \/ \E t \in Threads, ip \in Ips, rule \in Rules : ReadClock(t, ip, rule)
    \/ \E t \in Threads : Strike(t)
    \/ Sweep

Spec == Init /\ [][Next]_vars

\* The daemon's loop serves the sweep ticker, and no lock is held for long.
FairSpec == Spec /\ WF_vars(Sweep)

-----------------------------------------------------------------------------
(* The type invariant.                                                     *)
TypeOK ==
    /\ now \in 1 .. MaxTime
    /\ records \in [Ips -> [Pools -> [count : 0 .. MaxCount,
                                      last : 0 .. MaxTime, cat : Nat]]]
    /\ thread \in [Threads -> {Idle} \cup [pc : {"striking"}, ip : Ips,
                                           rule : Rules, at : 1 .. MaxTime]]
    /\ sweep \in {Idle} \cup [pc : {"sweeping"}, at : 1 .. MaxTime,
                              left : SUBSET Shards]
    /\ streak \in [Ips -> [Pools -> [length : 0 .. MaxStreak, last : 0 .. MaxTime, cat : Nat]]]
    /\ verdict \in {Policy!NoVerdict} \cup
                   [ip : Ips, rule : Rules, at : 1 .. MaxTime, banned : BOOLEAN]

\* The tracker bans exactly when the policy does, although it forgets idle
\* records and its counters saturate, and whatever order the watchers' strikes
\* and the sweeper's visits come in (strikes.rs:43-158).
ImplementsPolicy == Policy!Spec

\* The record of an address that has not been struck for longer than MaxIdle
\* does not stay in memory: it is dropped or struck again (strikes.rs:134-158,
\* daemon.rs:143).
Stale(ip) ==
    /\ ip \in Known
    /\ \A pool \in Pools : streak[ip][pool].last + MaxIdle < now

StaleRecordsAreDropped == \A ip \in Ips : Stale(ip) ~> ~Stale(ip)
=============================================================================
