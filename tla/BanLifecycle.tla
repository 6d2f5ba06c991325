---------------------------- MODULE BanLifecycle ----------------------------
(***************************************************************************)
(* The life of a ban in the sanalu daemon: the three places that say who   *)
(* is banned, and the concurrent actors that write them.                   *)
(*                                                                         *)
(*   bans       the redb table (target -> expiry), durable                 *)
(*   fw         the elements of the nftables sets of the kernel, which     *)
(*              outlive the daemon but not the host                        *)
(*   bannedIps  the snapshot of the bans the threat pipeline was built     *)
(*              with; it is never updated while the daemon is up           *)
(*                                                                         *)
(* A watcher (one task per nginx log, one for ssh) that gets a Ban verdict *)
(* calls nft first and saves the record second; an IPC request saves first *)
(* and calls nft second.  Nothing holds a lock over the two steps, so they *)
(* interleave.  The sweeper collects the expired keys in one transaction   *)
(* and deletes them in another.  The daemon may stop between any two       *)
(* steps; at boot it copies the active records to the kernel and then to   *)
(* the snapshot.  While it is down the CLI writes the store itself.        *)
(*                                                                         *)
(* Targets are single public addresses that are not whitelisted.           *)
(***************************************************************************)
EXTENDS Naturals, FiniteSets

CONSTANTS
    Targets,        \* the addresses that may be banned
    Watchers,       \* the log watcher tasks
    Clients,        \* the IPC connections that may be served at once
    Verdicts,       \* the values of `permanent` in the watchers' verdicts
    Requests,       \* what operators ask: a subset of {"ban", "unban"}
    Faults,         \* the calls that may fail: a subset of {"nft", "redb"}
    KernelRefresh,  \* does adding an element the set has replace its timeout?
    TempBan,        \* the seconds of a temporary ban (3600 in the code)
    Skew,           \* bound: the time a watcher takes from nft to the store
    MaxTime,        \* bound: the last instant of the clock
    MaxStops        \* bound: how often the daemon stops or the host reboots

ASSUME ConstantsAssumption ==
    /\ Verdicts \subseteq BOOLEAN
    /\ Requests \subseteq {"ban", "unban"}
    /\ Faults \subseteq {"nft", "redb"}
    /\ KernelRefresh \in BOOLEAN
    /\ TempBan \in Nat \ {0}
    /\ Skew \in Nat
    /\ MaxTime \in Nat \ {0}
    /\ MaxStops \in Nat

VARIABLES
    now,        \* the clock, in seconds; the kernel and the daemon share it
    phase,      \* how far the daemon has come in run_daemon
    stops,      \* how often it stopped so far
    bans,       \* the store's table of bans
    tables,     \* are the kernel's table and sets there?
    fw,         \* the kernel's set: when the element of a target times out
    bannedIps,  \* the pipeline's snapshot
    watcher,    \* what each watcher is doing
    client,     \* what each IPC connection is doing
    expired,    \* the keys the sweeper collected and has not deleted yet
    contested,  \* history: targets with overlapping operations that disagreed
    lifted,     \* history: targets with an unban since the last ban of them
    unrenewed,  \* history: targets whose element the last add left as it was
    unbanned    \* history: targets with an unban since the daemon started

vars == <<now, phase, stops, bans, tables, fw, bannedIps, watcher, client,
          expired, contested, lifted, unrenewed, unbanned>>

-----------------------------------------------------------------------------
(* Expiry times.  Absent is no record, or no element: it is never in the   *)
(* future.  Never is the expiry None: it always is.                        *)

Absent == 0
Never == MaxTime + TempBan + 1

Expiries == Absent .. Never

\* Mutant of ExpiryOf: the duration is added in milliseconds.
ExpiryInMillis(permanent, at) ==
    IF permanent THEN Never ELSE at + 1000 * TempBan

\* watcher.rs:80 and :92, ssh.rs:87 and :99: the expiry a verdict asks for.
ExpiryOf(permanent, at) == IF permanent THEN Never ELSE at + TempBan

\* Mutant of ActiveBans: a record without an expiry is not listed.
TimedBansOnly == {t \in Targets : bans[t] > now /\ bans[t] # Never}

\* The records list_active_bans returns.
ActiveBans == {t \in Targets : bans[t] > now}

\* The records cleanup_expired_bans collects.
ExpiredBans == {t \in Targets : bans[t] # Absent /\ bans[t] <= now}

-----------------------------------------------------------------------------
(* The kernel's set, as far as nft commands reach it.                      *)

\* A call of the kind may fail; the callers ignore the error unless said.
Outcomes(kind) == IF kind \in Faults THEN BOOLEAN ELSE {TRUE}

\* `add element` on a live element replaces its timeout, or leaves it.
KernelAdd(t, expiry) ==
    IF fw[t] > now /\ ~KernelRefresh THEN fw[t] ELSE expiry

\* One nft command for target t, which fails when the set is not there.
NftAdd(t, expiry) ==
    \E ok \in Outcomes("nft") :
        IF ok /\ tables
        THEN /\ fw' = [fw EXCEPT ![t] = KernelAdd(t, expiry)]
             /\ unrenewed' = IF KernelAdd(t, expiry) < expiry
                             THEN unrenewed \cup {t} ELSE unrenewed \ {t}
        ELSE UNCHANGED <<fw, unrenewed>>

-----------------------------------------------------------------------------
(* Tasks.                                                                  *)

Idle == [pc |-> "idle"]

WatcherTasks ==
    {Idle} \cup [pc : {"saving"}, target : Targets, permanent : Verdicts,
                 at : 1 .. MaxTime]

ClientTasks == {Idle} \cup [pc : {"blocking", "lifting"}, target : Targets]

BanInFlight(t) ==
    \/ \E w \in Watchers : watcher[w] # Idle /\ watcher[w].target = t
    \/ \E c \in Clients :
          client[c].pc = "blocking" /\ client[c].target = t

UnbanInFlight(t) ==
    \E c \in Clients : client[c].pc = "lifting" /\ client[c].target = t

Quiet(t) == ~BanInFlight(t) /\ ~UnbanInFlight(t)

\* Another watcher's verdict on t, of the other kind, is under way.
OtherVerdictInFlight(t, permanent) ==
    \E w \in Watchers : /\ watcher[w] # Idle
                        /\ watcher[w].target = t
                        /\ watcher[w].permanent # permanent

\* History: a ban of t starts, among others that disagree with it or not;
\* alone, it settles an earlier contest.
BanStarts(t, disputed) ==
    /\ contested' = IF disputed THEN contested \cup {t}
                    ELSE IF Quiet(t) THEN contested \ {t} ELSE contested
    /\ lifted' = lifted \ {t}

\* History: an unban of t starts; alone, it settles an earlier contest.
UnbanStarts(t) ==
    /\ contested' = IF BanInFlight(t) THEN contested \cup {t}
                                      ELSE contested \ {t}
    /\ unbanned' = unbanned \cup {t}
    /\ UNCHANGED lifted

-----------------------------------------------------------------------------
Init ==
    /\ now = 1
    /\ phase = "down"
    /\ stops = 0
    /\ bans = [t \in Targets |-> Absent]
    /\ tables = FALSE
    /\ fw = [t \in Targets |-> Absent]
    /\ bannedIps = {}
    /\ watcher = [w \in Watchers |-> Idle]
    /\ client = [c \in Clients |-> Idle]
    /\ expired = {}
    /\ contested = {}
    /\ lifted = {}
    /\ unrenewed = {}
    /\ unbanned = {}

\* Time passes.  A watcher saves at most Skew after its nft call returned.
Tick ==
    /\ now < MaxTime
    /\ \A w \in Watchers : watcher[w] # Idle => now < watcher[w].at + Skew
    /\ now' = now + 1
    /\ UNCHANGED <<phase, stops, bans, tables, fw, bannedIps, watcher, client,
                   expired, contested, lifted, unrenewed, unbanned>>

-----------------------------------------------------------------------------
(* A watcher evaluates a line.  The snapshot hides the targets it has from *)
(* every later check (DropBanned does nothing); strikes and signatures are *)
(* abstracted to any verdict.  The lines it reads may be old ones: a       *)
(* target that is blocked already may be banned again.                     *)

WatcherBlock(w, t, permanent) ==
    /\ phase = "up"
    /\ watcher[w] = Idle
    /\ t \notin bannedIps
    /\ NftAdd(t, ExpiryOf(permanent, now))
    /\ watcher' = [watcher EXCEPT ![w] =
                     [pc |-> "saving", target |-> t, permanent |-> permanent,
                      at |-> now]]
    /\ BanStarts(t, UnbanInFlight(t) \/ OtherVerdictInFlight(t, permanent))
    /\ UNCHANGED <<now, phase, stops, bans, tables, bannedIps, client, expired,
                   unbanned>>

\* The clock is read again for the record; a failing save is ignored.
WatcherSave(w) ==
    /\ watcher[w] # Idle
    /\ \E ok \in Outcomes("redb") :
          bans' = IF ok THEN [bans EXCEPT ![watcher[w].target] =
                                ExpiryOf(watcher[w].permanent, now)]
                        ELSE bans
    /\ watcher' = [watcher EXCEPT ![w] = Idle]
    /\ UNCHANGED <<now, phase, stops, tables, fw, bannedIps, client, expired,
                   contested, lifted, unrenewed, unbanned>>

-----------------------------------------------------------------------------
(* `sanalu ban` and `sanalu unban` over IPC.  A failing store call returns *)
(* an error before nft is called.                                          *)

ClientBanSave(c, t) ==
    /\ phase = "up"
    /\ "ban" \in Requests
    /\ client[c] = Idle
    /\ bans' = [bans EXCEPT ![t] = Never]
    /\ client' = [client EXCEPT ![c] = [pc |-> "blocking", target |-> t]]
    /\ BanStarts(t, UnbanInFlight(t))
    /\ UNCHANGED <<now, phase, stops, tables, fw, bannedIps, watcher, expired,
                   unrenewed, unbanned>>

ClientBanBlock(c) ==
    /\ client[c].pc = "blocking"
    /\ NftAdd(client[c].target, Never)
    /\ client' = [client EXCEPT ![c] = Idle]
    /\ UNCHANGED <<now, phase, stops, bans, tables, bannedIps, watcher, expired,
                   contested, lifted, unbanned>>

\* Mutant of ClientUnbanRemove: the record stays in the store.
ClientUnbanKeepsRecord(c, t) ==
    /\ phase = "up"
    /\ "unban" \in Requests
    /\ client[c] = Idle
    /\ client' = [client EXCEPT ![c] = [pc |-> "lifting", target |-> t]]
    /\ UnbanStarts(t)
    /\ UNCHANGED <<now, phase, stops, bans, tables, fw, bannedIps, watcher,
                   expired, unrenewed>>

ClientUnbanRemove(c, t) ==
    /\ phase = "up"
    /\ "unban" \in Requests
    /\ client[c] = Idle
    /\ bans' = [bans EXCEPT ![t] = Absent]
    /\ client' = [client EXCEPT ![c] = [pc |-> "lifting", target |-> t]]
    /\ UnbanStarts(t)
    /\ UNCHANGED <<now, phase, stops, tables, fw, bannedIps, watcher, expired,
                   unrenewed>>

ClientUnbanLift(c) ==
    /\ client[c].pc = "lifting"
    /\ \E ok \in Outcomes("nft") :
          LET t == client[c].target
          IN  /\ fw' = IF ok /\ tables THEN [fw EXCEPT ![t] = Absent] ELSE fw
              /\ lifted' = IF ok /\ t \notin contested THEN lifted \cup {t}
                                                       ELSE lifted
    /\ client' = [client EXCEPT ![c] = Idle]
    /\ UNCHANGED <<now, phase, stops, bans, tables, bannedIps, watcher, expired,
                   contested, unrenewed, unbanned>>

-----------------------------------------------------------------------------
(* The sweeper, every 60 seconds: it collects the keys in a read           *)
(* transaction and deletes them in a write transaction of its own.  It     *)
(* touches neither the kernel nor the snapshot.                            *)

SweepScan ==
    /\ phase = "up"
    /\ expired = {}
    /\ ExpiredBans # {}
    /\ expired' = ExpiredBans
    /\ UNCHANGED <<now, phase, stops, bans, tables, fw, bannedIps, watcher,
                   client, contested, lifted, unrenewed, unbanned>>

\* Mutant of SweepDelete: the write transaction is never committed.
SweepNeverCommits ==
    /\ expired # {}
    /\ expired' = {}
    /\ UNCHANGED <<now, phase, stops, bans, tables, fw, bannedIps, watcher,
                   client, contested, lifted, unrenewed, unbanned>>

SweepDelete ==
    /\ expired # {}
    /\ \E ok \in Outcomes("redb") :
          bans' = IF ok
                  THEN [t \in Targets |->
                          IF t \in expired THEN Absent ELSE bans[t]]
                  ELSE bans
    /\ expired' = {}
    /\ UNCHANGED <<now, phase, stops, tables, fw, bannedIps, watcher, client,
                   contested, lifted, unrenewed, unbanned>>

-----------------------------------------------------------------------------
(* Starting and stopping.  Opening the store takes its lock, so the CLI    *)
(* cannot use it until the daemon stops.                                   *)

BootInit ==
    /\ phase = "down"
    /\ phase' = "initialized"
    /\ tables' = TRUE
    /\ UNCHANGED <<now, stops, bans, fw, bannedIps, watcher, client, expired,
                   contested, lifted, unrenewed, unbanned>>

\* One atomic nft batch, without timeouts; boot goes on if it, or reading the
\* store, fails.
BootRestore ==
    /\ phase = "initialized"
    /\ phase' = "restored"
    /\ \E ok \in Outcomes("nft"), read \in Outcomes("redb") :
          LET restored == IF ok /\ read THEN ActiveBans ELSE {}
          IN  /\ fw' = [t \in Targets |-> IF t \in restored
                                          THEN KernelAdd(t, Never) ELSE fw[t]]
              /\ unrenewed' = (unrenewed \ restored) \cup
                                 {t \in restored : KernelAdd(t, Never) < Never}
    /\ contested' = {}
    /\ UNCHANGED <<now, stops, bans, tables, bannedIps, watcher, client,
                   expired, lifted, unbanned>>

\* Mutant of BootPipeline: expired records get into the snapshot.
BootPipelineOfAllRecords ==
    /\ phase = "restored"
    /\ phase' = "up"
    /\ bannedIps' = {t \in Targets : bans[t] # Absent}
    /\ UNCHANGED <<now, stops, bans, tables, fw, watcher, client, expired,
                   contested, lifted, unrenewed, unbanned>>

\* The snapshot is read some time later, and is empty if that fails; then the
\* tasks are spawned.
BootPipeline ==
    /\ phase = "restored"
    /\ phase' = "up"
    /\ \E read \in Outcomes("redb") :
          bannedIps' = IF read THEN ActiveBans ELSE {}
    /\ UNCHANGED <<now, stops, bans, tables, fw, watcher, client, expired,
                   contested, lifted, unrenewed, unbanned>>

\* The process ends, by a signal or a crash: every task is gone where it is.
Stop ==
    /\ phase # "down"
    /\ stops < MaxStops
    /\ stops' = stops + 1
    /\ phase' = "down"
    /\ bannedIps' = {}
    /\ watcher' = [w \in Watchers |-> Idle]
    /\ client' = [c \in Clients |-> Idle]
    /\ expired' = {}
    /\ unbanned' = {}
    /\ UNCHANGED <<now, bans, tables, fw, contested, lifted, unrenewed>>

\* The host reboots: the kernel's table is gone too.
Reboot ==
    /\ stops < MaxStops
    /\ stops' = stops + 1
    /\ phase' = "down"
    /\ bannedIps' = {}
    /\ watcher' = [w \in Watchers |-> Idle]
    /\ client' = [c \in Clients |-> Idle]
    /\ expired' = {}
    /\ tables' = FALSE
    /\ fw' = [t \in Targets |-> Absent]
    /\ unbanned' = {}
    /\ unrenewed' = {}
    /\ UNCHANGED <<now, bans, contested, lifted>>

-----------------------------------------------------------------------------
(* The CLI without a daemon: it holds the store's lock until it is done,   *)
(* so no other step of the system falls between its two.                   *)

OfflineBan(t) ==
    /\ phase = "down"
    /\ "ban" \in Requests
    /\ bans' = [bans EXCEPT ![t] = Never]
    /\ NftAdd(t, Never)
    /\ BanStarts(t, FALSE)
    /\ UNCHANGED <<now, phase, stops, tables, bannedIps, watcher, client,
                   expired, unbanned>>

OfflineUnban(t) ==
    /\ phase = "down"
    /\ "unban" \in Requests
    /\ bans' = [bans EXCEPT ![t] = Absent]
    /\ \E ok \in Outcomes("nft") :
          /\ fw' = IF ok /\ tables THEN [fw EXCEPT ![t] = Absent] ELSE fw
          /\ lifted' = IF ok THEN lifted \cup {t} ELSE lifted
    /\ UNCHANGED <<now, phase, stops, tables, bannedIps, watcher, client,
                   expired, contested, unrenewed, unbanned>>

-----------------------------------------------------------------------------
WatcherStep(w) ==
    \/ \E t \in Targets, permanent \in Verdicts : WatcherBlock(w, t, permanent)
    \/ WatcherSave(w)

ClientStep(c) ==
    \/ \E t \in Targets : ClientBanSave(c, t) \/ ClientUnbanRemove(c, t)
    \/ ClientBanBlock(c)
    \/ ClientUnbanLift(c)

Sweep == SweepScan \/ SweepDelete

Boot == BootInit \/ BootRestore \/ BootPipeline

Offline == \E t \in Targets : OfflineBan(t) \/ OfflineUnban(t)

Next ==
    \/ Tick
    \/ \E w \in Watchers : WatcherStep(w)
    \/ \E c \in Clients : ClientStep(c)
    \/ Sweep
    \/ Boot
    \/ Stop
    \/ Reboot
    \/ Offline

Spec == Init /\ [][Next]_vars

\* systemd restarts the daemon (Restart=always), boot runs to its end, and
\* the select loop serves the sweep ticker.
FairSpec == Spec /\ WF_vars(Boot) /\ WF_vars(Sweep)

-----------------------------------------------------------------------------
(* The type invariant.                                                     *)
TypeOK ==
    /\ now \in 1 .. MaxTime
    /\ phase \in {"down", "initialized", "restored", "up"}
    /\ stops \in 0 .. MaxStops
    /\ bans \in [Targets -> Expiries]
    /\ tables \in BOOLEAN
    /\ fw \in [Targets -> Expiries]
    /\ bannedIps \in SUBSET Targets
    /\ watcher \in [Watchers -> WatcherTasks]
    /\ client \in [Clients -> ClientTasks]
    /\ expired \in SUBSET Targets
    /\ contested \in SUBSET Targets
    /\ lifted \in SUBSET Targets
    /\ unrenewed \in SUBSET Targets
    /\ unbanned \in SUBSET Targets

\* The kernel blocks t at least as long as the record says, up to the time
\* a watcher needs between its nft call and reading the clock for the record.
BlockedAsRecorded(t) == bans[t] > now => fw[t] + Skew >= bans[t]

\* While the daemon is up, an active ban in the store is enforced by the
\* kernel until it expires, whatever watchers, operators, the sweeper, crashes
\* and reboots did (watcher.rs:79-95, actions.rs:37-38, :49-50,
\* daemon.rs:49-59).  The exceptions are an operation on the target that is
\* under way, operations that overlapped and disagreed (an unban and a ban, or
\* a permanent and a temporary verdict of two watchers), and a kernel that
\* left the timeout of a live element as it was.
RecordedBanIsBlocked ==
    phase = "up" =>
        \A t \in Targets \ (contested \cup unrenewed) :
            Quiet(t) => BlockedAsRecorded(t)

\* A target the pipeline takes for banned (and so never judges again,
\* pipeline.rs:243-245) is blocked by the kernel for good, so that no traffic
\* of it reaches the logs that the pipeline ignores: unless an operator
\* unbanned it since the daemon started, or the kernel left the timeout of the
\* element that the restore found.
SnapshotIsBlocked ==
    phase = "up" =>
        \A t \in bannedIps \ (unbanned \cup unrenewed) : fw[t] = Never

\* An unban that overlapped no ban leaves neither a record nor an element, and
\* no sweep, crash or restore brings one back before the next ban of the
\* target (actions.rs:43-53, daemon.rs:49-59).
UnbanHolds == \A t \in lifted : bans[t] = Absent /\ fw[t] = Absent

\* A record that has expired is purged, or replaced by a new ban, in the end
\* (daemon.rs:137-138, bans.rs:87-118).
ExpiredRecordsArePurged ==
    \A t \in Targets : (t \in ExpiredBans) ~> (t \notin ExpiredBans)

-----------------------------------------------------------------------------
(* What the documents say of bans, and the code does not do.               *)

\* "cleanup_expired_bans purges expired bans and keeps permanent/active bans"
\* (.agents/plans/13-daemon-production-hardening-and-reliability.md:158):
\* a sweep never deletes a record that is active (bans.rs:87-118).
SweepKeepsActiveBans ==
    [][SweepDelete => \A t \in ActiveBans : bans'[t] = bans[t]]_vars

\* "Expiry: expires at unix 1788939600 (3600s duration)" (README.md:209): when
\* the record of a temporary ban has expired the kernel lets the target in
\* (daemon.rs:49-59).
KernelHonoursExpiry ==
    phase = "up" => \A t \in ExpiredBans : Quiet(t) => fw[t] <= now
=============================================================================
