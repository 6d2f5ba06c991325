# TLA+ verification of sanalu

sanalu is a daemon that reads nginx and ssh logs, judges every line, bans the addresses
it finds guilty in the kernel's nftables sets, remembers the bans in a redb store, and
mirrors them into one firewall rule at Cloudflare. This directory holds TLA+ models of
its parts, the TLC configurations that check them on small instances, and proofs that
TLAPS checks for every value of the constants. `PROJECT.json` says which lines of the
source each definition stands for, and which mutated definition each property refutes.

To parse, check and prove:

    tlasany M.tla
    tlc -config X.cfg MCM.tla        # one line per run in PROJECT.json
    tlapm M_proofs.tla

## 1. The system

All paths below are under `src/src/`.

### Components

| Component | State it keeps | Operations | Modelled in |
|---|---|---|---|
| Ban store (`storage/bans.rs`) | redb table target -> record with an expiry; durable | save, remove, list active, clean up expired (a read, then a write transaction) | BanLifecycle |
| Daemon (`daemon.rs`) | the pipeline and the channels of this process | boot: init tables, copy the configuration, restore bans, build the pipeline, spawn; select loop with sweep and rescan tickers; stop | BanLifecycle, Policies (start), LogWatch (rescan) |
| Firewall (`firewall/`) | the kernel's sets, which outlive the daemon but not the host | add an element with or without timeout, delete it, restore batch | BanLifecycle |
| Log watchers (`engine/watcher.rs`, `engine/ssh.rs`) | file, offset, buffer; the verdict at hand | read lines, notice rotation, judge, call nft, save, notify Cloudflare | LogWatch (reading), Detection (ssh), BanLifecycle, CloudflareSync, StrikeTracker (verdicts) |
| Watcher registry (`engine/registry.rs`) | path -> format and abort handle of its watcher | reconcile with the discovered logs | LogReaders, LogWatch |
| IPC server (`ipc/`) | one task per connection | ban, unban, policies, cloudflare sync; check and status only read | BanLifecycle, CloudflareSync, Policies |
| Command line (`cli/`) | none | sends a request, or opens the store itself when nobody answers | BanLifecycle, Policies (offline commands) |
| Cloudflare worker (`cloudflare/worker.rs`, `client.rs`) | a channel of 100 units; the expression last pushed | batch, drain, read the store, find the rule, patch or create it, record | EdgeMirror, CloudflareSync |
| Cloudflare expression (`cloudflare/expression.rs`) | none | render three clauses within a budget of characters | RuleBudget |
| Strike tracker (`intelligence/strikes.rs`) | 64 locked shards: address -> three pools of count, last, category | three record functions, the sweep | StrikePolicy, StrikeTracker |
| Threat pipeline (`intelligence/pipeline.rs`) | snapshots of bans, policies and whitelist taken at boot | one action per request or ssh event | ThreatPipeline; the snapshots: BanLifecycle, Policies |
| Threat rules (`intelligence/probes.rs` and others) | none | the first rule that applies to a path decides | ThreatRules |
| ssh parser (`parser/ssh.rs`) | up to 256 pending process ids | parse a line, remember an id, evict one | Detection |
| nginx parser (`parser/nginx.rs`) | none | compile a format, read a line by it, choose the client's address | LogFormats |
| Discovery (`discovery/`) | none that lasts | find the configuration, crawl it, resolve formats, sweep the disk | Discovery |
| Policies, whitelist, CIDR (`storage/policies.rs`, `cidr.rs`) | redb tables of whitelist, categories, ASNs, regions | set, list, copy the configuration in | Policies |
| Offenses, escalation, replay; configuration, geo, reports, updater, uninstaller | none the daemon acts upon, or files outside of it | | not modelled, section 8 |

### How they interact

* A watcher that gets a Ban verdict calls nft **first**, saves the record **second**
  (reading the clock again) and then awaits room in the channel of the Cloudflare worker
  (`watcher.rs` 79-99, `ssh.rs` 86-107).
* An IPC ban or unban writes the store **first** and calls nft **second**
  (`ipc/actions.rs` 30-53). The notification of the worker comes last (`ipc/handlers.rs`
  31-36).
* No lock spans the two steps of either, so they interleave.
* At boot the daemon copies the active records to the kernel and then, in a second read,
  to the snapshot that the pipeline consults before every other check. The snapshot
  never changes afterwards.
* The sweep touches the store and the strike tracker, never the kernel, the snapshot or
  Cloudflare.
* Opening the store takes an exclusive lock: the CLI writes the store itself only while
  the daemon is down.
* Discovery runs at the start, at every rescan and on SIGHUP; its list of logs is what
  the registry reconciles its watchers with, and the format found there is what a
  watcher reads by.
* The configuration is copied into the store at every start and before every offline
  policy command; operators write the same tables. The pipeline reads them once, at the
  start; the Cloudflare worker reads them in every round.
* The ssh watcher and all nginx watchers share one pipeline and one strike tracker.

### What is hard, and what correctness means

| Component | Hard behaviour | Properties |
|---|---|---|
| Bans | two writers that use opposite orders; stop, crash or reboot between any two steps; the clock read twice; a sweep in two transactions; failing calls | RecordedBanIsBlocked, UnbanHolds, SnapshotIsBlocked, ExpiredRecordsArePurged |
| Cloudflare | changes while the worker drains, reads list by list or talks; rounds that report success and send nothing; replies that are lost or late; a full channel that blocks detection; a manual sync beside the worker | StaleEdgeIsPending, OneRule, SettledMeansRecorded, ImplementsMirror, EdgeCatchesUp, SendersAreServed |
| Strikes | strikes recorded out of the order of their clocks; a sweep whose clock is old; counters of 8 bits; three pools in one record | ImplementsPolicy, StaleRecordsAreDropped |
| Log reading | rename, truncation and reopening between any two steps of the reader; half lines and unreadable ones; an abort that arrives only where the task waits | JudgedOnceInOrder, ImplementsReaders, RegistryHoldsTheTask, LinesAreJudged, AbortedTasksEnd |
| Rules and pipeline | early returns: a rule that lets pass before one that bans; a second path of checks for blocked tools; thresholds and windows that the tracker must be able to hold | NoRuleHidesAThreat, ToolsAreNotJudgedMilder, RulesFitTheTracker |
| ssh parser | process ids that come back; lines that mix or get lost; a table that evicts; a pool of strikes that requests share | ReadProbesAreBanned, FailuresAreBanned, ChargeNeedsAProbe |
| Policies | store, configuration, snapshot and rule that disagree after starts, edits and commands in any order, and after rounds that fail; a budget that is shared by three clauses | OperatorsDecide, CommandsTakeEffect, ConfigReachesThePipeline, EdgeFollowsPolicies, RuleIsFullest |
| Discovery and nginx parser | include cycles and links; formats declared after their use, or lost by the lexer; literals that occur in values | FilesAreReadOnce, NoLogTwice, EveryLogIsFound, DiscoveryEnds, LinesAreReadBack |

`PROJECT.json` lists every hazard at its line, with the properties about it or the
reason why there is none yet.

## 2. The modules

### BanLifecycle

State and code:

| Variable | Code |
|---|---|
| `bans` | the table `BANS_TABLE`; `Absent` is no record, `Never` is `expires_at: None` |
| `tables`, `fw` | table and sets of `table inet sanalu`; per element the time it times out |
| `bannedIps` | `PipelineConfig::banned_ips`, read once (`engine/pipeline.rs` 20-24) |
| `phase` | how far `run_daemon` has come |
| `watcher`, `client` | where a watcher or an IPC task stands between its two calls |
| `expired` | the keys `cleanup_expired_bans` holds between its two transactions |
| `contested` | history: targets whose latest operations overlapped and disagreed, an unban and a ban, or a permanent and a temporary verdict; a lone ban, a lone unban or a restore settles it |
| `lifted`, `unbanned` | history: targets with an unban that overlapped no ban and none since; and those unbanned since the daemon started |
| `unrenewed` | history: targets whose live element the latest add left with its old timeout |

Actions: `WatcherBlock`, `WatcherSave`; `ClientBanSave`, `ClientBanBlock`,
`ClientUnbanRemove`, `ClientUnbanLift`; `SweepScan`, `SweepDelete`; `BootInit`,
`BootRestore`, `BootPipeline`; `Stop`, `Reboot`; `OfflineBan`, `OfflineUnban`; `Tick`. A
task that is killed leaves its first step done and its second undone. Every nft call and
every redb transaction may fail when `Faults` says so, with what the code does then:
ignore it (watcher, restore, sweep, nft of an IPC task) or return before nft is called
(store of an IPC task, which then changes nothing and is not a step).

The kernel is outside the repository and modelled from the commands the code sends.
`KernelRefresh` decides what `add element` does to an element that is already there:
TRUE replaces its timeout, as Linux does from 6.12 on, FALSE keeps the old one, as the
older kernels do that the README of sanalu also supports (5.4 and later). On an older
kernel a temporary ban that is prolonged, made permanent or restored stays a temporary
one there. RecordedBanIsBlocked and SnapshotIsBlocked hold on both kinds of kernel, with
exactly these elements, `unrenewed`, excepted; on a newer kernel there are none.
ban_operators and ban_watchers check one kind of kernel each, and the theorems assume
neither.

The daemon of the model is not dry: a dry one calls no nft command, and there is nothing
to say of the kernel.

### EdgeMirror and CloudflareSync

EdgeMirror is what the synchronisation promises: the rule is a copy of the store, made
list by list (`Take`) and then put in place (`Put`). The store may change between any
two of these steps, so a copy may be behind when it arrives, and torn: some of its lists
older than others. But every list in it was read after the copy before it was put, and
whoever changes the store makes another copy `due`. A copy that fails, or lacks a list
that could not be read, is not made up for, which is `failed`. From this alone follow
`CopyFollows`, that the copy is the store's or will be unless something failed, and
`NeverBack`, that no copy puts back an older version of a list.

CloudflareSync is the code; `ImplementsMirror` says that it implements EdgeMirror when
the worker is alone, by the mapping `Mirror`: the copy is the contents of the rules at
Cloudflare, the draft what a round has read and not written yet, and a copy is due while
a unit, a sender, the worker's batch or a round that has read nothing yet announces one.

Each list from which the expression is rendered (blocked ASNs, restricted ASNs, allowed
regions, bans: `ListCount` is 4 in the code) is a version number that every committed
change of it increments; an expression, and the rule at Cloudflare (`edge`, oldest rule
first), is the version of each list it was made of. The worker reads them one
transaction after the other (`ReadList`, then `ReadBans`), and anybody may commit in
between. `queue` is the channel, `writer` says who waits in `tx.send(()).await`, `task` is
where the worker and each manual sync stand, `wire` holds requests that take effect after
their sender's timeout, at most `MaxLate` of them at a time, `recorded` is
`set_cloudflare_state`.

`mode` is how the daemon is configured at a start. A dry worker, and anybody without a
zone, gets an `Ok` from `update_waf_rule` although no request was sent (`Skip`), and
records the expression all the same; a manual sync is never dry. `abandoned` is history:
a round of the worker failed, was skipped or could not read a list, or a ban expired,
and no later round of the worker has read the whole store since. `Faults` chooses
between requests that are refused, lost with or without an effect, or late, and failing
transactions. The version `None` is one that a list never has: that of the rule of an
earlier run, or of a list that could not be read.

The model is of the shipped configuration: enabled, with a token, with or without a zone, without `rule_id` and
`ruleset_id`, so the rule is found by its description.

### StrikePolicy and StrikeTracker

StrikePolicy is what the tracker promises: the streak of strikes of an address in a
pool, each within the rule's window after the one before and of its category, and a ban
when the streak is as long as the threshold. It forgets nothing and counts without
limit.

StrikeTracker is the code: records of saturating counters in shards, watchers that read
the clock before they take the lock (`ReadClock`, `Strike`), and a sweep that reads the
clock once and visits the shards one after the other (`SweepStart`, `SweepShard`). It
carries the policy's variables along as history, updated by the policy's operators, so
the refinement mapping is the identity on `streak` and `verdict`: the content of
`ImplementsPolicy` is that the verdict computed from the **records** is the verdict the
policy computes from the **streaks**.

`IdleAssumption` (window + Skew <= MaxIdle) is what makes forgetting safe. In the code
the longest window is the 300 seconds of ssh failures and MaxIdle is 600, so it holds as
long as no watcher needs five minutes from reading its clock to the lock. The clock
itself does not go back in any model.

The window restarts with every strike, in the policy as in the code: ten strikes with
nine seconds between each two are a streak. The plans speak of a sliding window.

### LogReaders and LogWatch

LogReaders is what registry and watchers promise together: one watcher at most is in
charge of a log (`holder`); whoever was before was told to stop (`retired`) and may
judge some more; nobody else judges anything. What is judged was written, and each
watcher judges it in order and once unless it took one file for another (`confused`).
There are no files, offsets, buffers or renames in it: that LogWatch implements it
(`ImplementsReaders`, by the mapping `Readers`) says that none of them shows.

LogWatch is the code. One log and its watchers; other paths share no state with it. nginx writes each line as
two halves, so that the reader can meet an unfinished one.

| Variable | Code |
|---|---|
| `files`, `path`, `created` | the files that have had the log's path (an inode each), and the one at it |
| `writer`, `written` | the file nginx has open, and what it wrote |
| `configured` | the format that discovery finds for the path |
| `registry` | the entry of `NginxWatcherRegistry::watchers` |
| `tasks` | per watcher: `inode`, `pos` and `buffer` of its BufReader, `current_ino` and `current_offset`, and where it is in its loop |
| `judged` | history: what each watcher gave to the pipeline |

A task's steps are `Start`, `ReadLine`, `EndOfFile`, `Stat`, `OpenReplaced`,
`OpenTruncated`; `Stat` and the open are two steps because `check_file_rotation` makes
two system calls. `Cancel` is possible only before the first step and in `waiting`, the
awaits of the loop, as tokio delivers aborts. `Reconcile` is `reconcile`: prune, start,
or replace on another format. Outside: `Write`, `Rename`, `Create`, `Reopen`,
`CopyTruncate`, `Configure`, in any order.

### ThreatRules, ThreatPipeline and Detection

ThreatRules holds every rule of `probes.rs` as data: marks, statuses, methods and the
decision. A **mark** stands for what one group of patterns looks for in a path; a path
is the set of its marks, closed under `Implied` (a path with `.git` also contains `/.`).
`RulesFor` is the order of the four stages with their early returns, `InspectThreat` the
first rule that applies.

ThreatPipeline is `evaluate_request` and `evaluate_ssh_event`: the checks in their order
over a snapshot `pipe`. Whether a strike was one too many (`reached`) is an input;
StrikeTracker decides it, and for failed logins Detection's pools do. Whether a user agent, header or URI matches a pattern is an
input too, so every combination is enumerated.

Detection adds the two sources. `JudgeRequest` takes any request of the families;
`Connect`, `Leave` and the lines (`MarkerLine`, `BannerLine`, `FailedLine`,
`AcceptedLine`, `LostLine`) are sshd with its processes; `pending` is
`SshStatefulParser::pending_pids` with its limit, and `Insert` its eviction of an
arbitrary entry; `strikes` and `banned` are what the watcher makes of the events.
`strikes` is the isolated pool of each peer: its count, its category and who struck
last, which is nobody when more than the 300 seconds of failed logins have passed
(`Lapse`). Requests strike the same pool (`WebStrike`), with their shorter window and
mostly another category; a strike of another category, or one too late for its own
window, restarts it. `failures` is history, the streak of failed logins that no such
restart has interrupted, and `orphans` is history too. `JournalEnds` ends the watcher; the code starts no
other.

### RuleBudget and Policies

RuleBudget is `expression.rs` over lengths: `Render` follows the code clause by clause
with its saturating subtractions; `IsFullest` says independently what the best
expression is. Wrappers and separators have the lengths of the code's strings.

Policies EXTENDS ThreatPipeline and RuleBudget. `config` is the file, `store`
the tables, `snapshot` what `build_pipeline_from_store` took, `loaded` the configuration
the daemon runs with, `rule` what is at Cloudflare, `pending` a unit in the worker's
channel, `wanted` the last command of operators about each item. `Start` is one step
because nobody else reaches the store before the daemon serves commands. `PushRule` is a
round of the worker that puts a rule, made without the lists that it could not read
(`Without`), and `FailRound` one that comes to nothing; their steps, and changes between
them, are those of CloudflareSync. `RuleOf` renders of the bans those of IPv4 addresses
only, as the worker does. `Expire` is a ban whose time is over, which nobody tells the
worker. `behind` is history: a round failed or went without a list, or a ban expired,
since the latest whole rule.

### LogFormats and Discovery

LogFormats has a format as a sequence of variables and literals, and a text as a
sequence of the pieces that literals are made of. `Compile` and `Fields` are the reader
(a literal ends a variable where it occurs first), `Entry` what a watcher makes of the
fields, `Written` is nginx.

Discovery EXTENDS it: `ReadFile` takes one file from the queue and processes its
directives, `Resolve` turns access_log directives into logs when all files are read,
`SweepDisk` adds the logs that nobody declares, `ReadLine` reads one line of a log by
the format it was found with. `visited` holds canonical paths. The lexer of directives
clears its buffer at every brace, in quotes as well, so that a log_format with a brace in
its text, as every JSON format has, never becomes a directive (`HasBrace`): its log is
then taken for one of an unknown format, and its lines, which do not fit, are left out of
`ReadLine`.

### Who extends whom

    StrikePolicy <- INSTANCE - StrikeTracker <- StrikeTracker_proofs, MCStrikeTracker
    EdgeMirror   <- INSTANCE - CloudflareSync <- CloudflareSync_proofs, MCCloudflareSync
    LogReaders   <- INSTANCE - LogWatch       <- LogWatch_proofs,       MCLogWatch
    BanLifecycle <- BanLifecycle_proofs, MCBanLifecycle
    ThreatRules <- ThreatPipeline <- Detection <- Detection_proofs, MCDetection
                                  <- Policies  <- Policies_proofs,  MCPolicies
    RuleBudget                    <- Policies
    LogFormats  <- Discovery <- Discovery_proofs, MCDiscovery
    Lemmas      <- LogWatch_proofs, Detection_proofs, Policies_proofs, Discovery_proofs

Lemmas holds what several proofs need about numbers, sequences and loops, and models
nothing. The MC modules only add symmetry sets, tables and inputs. Definitions whose comment says
"Mutant of X" are plausible bugs of X; no specification uses them, they show that a
property can fail.

## 3. The runs

| Run | Instance | Checks | Distinct states |
|---|---|---|---|
| ban_operators | 2 targets, 2 watchers with both kinds of verdict, 1 IPC client that bans and unbans, 1 stop or reboot, a kernel that renews | TypeOK, RecordedBanIsBlocked, UnbanHolds | 1 636 000 |
| ban_watchers | 1 target, 2 watchers with both kinds of verdict, 2 IPC clients that ban and unban, 2 stops or reboots, a kernel that does not renew, fair | SnapshotIsBlocked, ExpiredRecordsArePurged | 202 000 |
| cloudflare_worker | 2 writers, 2 lists, channel of 2, 2 changes of each list, refused and lost requests, failing transactions, expiring bans, starts that are dry or without a zone, 1 restart, fair | TypeOK, StaleEdgeIsPending, OneRule, SettledMeansRecorded, ImplementsMirror, EdgeCatchesUp | 234 000 |
| cloudflare_beside | 1 writer, 1 manual sync, 2 lists, channel of 1, 1 change of each list, late requests, fair | SendersAreServed | 442 000 |
| strike_rules | 1 address, 2 watchers, 3 rules in 2 pools, counters up to 2, streaks up to 3, fair | TypeOK, ImplementsPolicy, StaleRecordsAreDropped | 193 000 |
| log_watch | 2 lines of two halves of which one is not UTF-8, 2 files, 1 truncation, 2 watchers, 1 change of the configuration, fair | TypeOK, JudgedOnceInOrder, ImplementsReaders, RegistryHoldsTheTask, LinesAreJudged, AbortedTasksEnd | 165 000 |
| detection | every path of two marks with every method and status, every mix of the checks before it; 2 sshd process ids, 2 peers of which 1 sends requests, 3 connections, 1 pending id | TypeOK, NoRuleHidesAThreat, ToolsAreNotJudgedMilder, RulesFitTheTracker, ReadProbesAreBanned, FailuresAreBanned, ChargeNeedsAProbe | 1 867 000 |
| policies | 3 configurations, 2 starts, 1 edit, 2 commands, 1 IPv4 and 1 IPv6 address, 1 network, 2 ASNs, 1 region, failed rounds, 1 list that may be unreadable, expiring bans | TypeOK, OperatorsDecide, ConfigReachesThePipeline, EdgeFollowsPolicies, RuleIsFullest, CommandsTakeEffect | 1 188 000 |
| discovery | 3 files and a link that include each other, 8 formats of which 2 have braces, 2 disks, 4 ways to find the configuration, fair | TypeOK, FilesAreReadOnce, NoLogTwice, EveryLogIsFound, LinesAreReadBack, DiscoveryEnds | 31 000 |
| ban_restore, ban_sweep_race, policies_whitelist | the smallest instance in which the case occurs | the findings of section 6 | a counterexample |

Why the bounds are enough:

* `TempBan = 2`, `Skew = 1`, `MaxTime` 4 or 5: a temporary ban is made, expires, is swept
  and made again; a watcher's record is a second later than its nft call. `Never` is
  above every expiry that can be computed, so nothing wraps.
* Two targets show that a step on one does not disturb the other, one target is enough
  for every race; two actors of a kind race with each other.
* `MaxStops` 1 or 2 covers a stop before, during and after boot, and one while
  recovering from the first.
* Symmetry is used only in ban_operators, which checks invariants; targets, watchers and
  clients are treated alike there. Runs with liveness use none.
* `Capacity` 1 or 2 with two writers fills the channel; the property about full channels
  is the same for 100. Two lists are enough for a torn expression, one of policies and
  that of the bans, which a round cannot do without; the proofs are for any number.
  `MaxLate = 1` lets a late request take effect at any time after its sender has gone
  on; the types are proved for any number of them.
* One address is enough for the strikes, because records do not interact; `Skew = 1`
  lets two watchers record in the wrong order, a streak of 3 passes the point where the
  counter saturates at 2, and `Shards = {1}` keeps the sweep's clock older than its
  visit. Several shards are covered by the proofs.
* LogWatch: two files and one truncation let a rename, a truncation and a reopening fall
  between any two steps of the reader; two watchers and one change of the format are a
  handover; a line in halves and one that is not UTF-8 (`Garbled = {1}`) are the two
  ways in which the offset and the line ends differ. A third file would only repeat the
  second switch. `MaxLines` is also what makes nginx pause, see section 7.
* Detection: rules look at one group of patterns each, so two marks show every way in
  which one hides another. Statuses stand for the ranges the rules tell apart. One
  pending id with two processes makes every insertion evict. Three connections let an id
  be used again while another process is pending; with `MaxFailures = 2` three of them
  log the five failures that ban, across connections, and the counter saturates there
  (`MaxCount = 5`). One peer with requests meets every interruption of its pool, the other
  none.
* Policies: addresses of 2 and 3 bits stand for 32 and 128, so both families and a
  network between them occur. The budgets are chosen at the boundaries: 119 and 57 are
  exactly full, with and without the regional clause; 57 is one character less than that
  clause, and 56 one less than both ASNs with the address. The order of several addresses
  is the business of the proofs. Two starts with an edit between or before them and two commands are the
  shortest histories in which the copy of the configuration can undo a command.
* Discovery: a cycle of includes needs two files, a file reached twice a third, and a
  link a fourth name. The user name and the user agent hold the pieces literals are made
  of, except quotes, which nginx escapes, and a bracket with a space in an unquoted
  field (section 7).
* Deadlock is checked, except in the configurations whose instance comes to rest because
  its bounded clock, streaks, changes or connections run out, or because its work is
  done; those say so.

## 4. Fairness

* BanLifecycle: `WF(Boot)`, because systemd restarts the daemon (`Restart=always` in the
  unit file) and boot has no step that waits for another actor; `WF(Sweep)`, because the
  select loop serves its ticker every 60 seconds. No watcher, operator or failure has
  fairness, and time need not pass.
* CloudflareSync: `WF` of the worker's steps and of its update, because the runtime
  schedules it and every request ends within the 15 second timeout of
  `CloudflareClient::new`; `SF` of each `Send`, because tokio's bounded channel hands
  its permits to waiting senders in order, so a sender is not overtaken for ever.
  Nothing obliges a writer to change the store or a manual sync to finish.
* StrikeTracker: `WF(Sweep)`: the same ticker, and no shard's lock is held across an
  await.
* LogWatch: `WF` of each task's steps, because tokio runs every task that is ready, the
  loop's sleeps end, and an abort is delivered at the next await. nginx, logrotate and
  the registry's rescans have none, so LinesAreJudged says nothing of a log no watcher
  was started for.
* Discovery: `WF` of its next step: it is one sequential function. Reading a line has
  none.
* Detection and Policies check safety only and state no fairness.

## 5. The proofs

They hold for every value of the constants that satisfies the module's assumptions, in
particular any number of targets, watchers, clients, writers, addresses, rules, shards,
files, lines, processes, configurations and directives.

| Theorem | Says | Assumes besides | Inductive invariant |
|---|---|---|---|
| BanLifecycle TypeCorrect | []TypeOK | - | TypeOK |
| UnbanIsFinal | []UnbanHolds | nothing: any faults, any kernel | UnbanInv |
| RecordsAreEnforced | []RecordedBanIsBlocked | ReliableCalls; any kernel, any verdicts | BlockInv |
| SnapshotIsEnforced | []SnapshotIsBlocked | ReliableCalls; any kernel, any unbans | SnapshotInv |
| CloudflareSync TypeCorrect | []TypeOK | - | TypeInv |
| ChangesArePending | []StaleEdgeIsPending | WorkerAlone | WorkerInv |
| NoSecondRule | []OneRule | WorkerAlone | WorkerInv |
| RecordIsInForce | []SettledMeansRecorded | WorkerAlone | WorkerInv |
| MirrorIsImplemented | Spec => Mirror!Spec | WorkerAlone | WorkerInv |
| NoOlderCopy | Mirror!NeverBack (of steps) | WorkerAlone | MirrorInv |
| StrikeTracker TypeCorrect | []TypeOK | - | TypeOK |
| PolicyIsImplemented | Spec => Policy!Spec | IdleAssumption | TrackInv |
| LogWatchTypes | []TypeOK | - | LifeInv |
| RegistryAlwaysHoldsTheTask | []RegistryHoldsTheTask | - | LifeInv |
| OnlyHandoverJudgesTwice | []TwiceOnlyInHandover | - | LifeInv |
| LinesAreJudgedOnceInOrder | []JudgedOnceInOrder | - | OrderInv |
| ReadersAreImplemented | Spec => Readers!Spec | - | ReadersInv |
| NothingHidesAThreat | []NoRuleHidesAThreat | - | RequestInv |
| ToolsAreJudgedAsStrictly | []ToolsAreNotJudgedMilder | - | RequestInv |
| EveryStrikeFits | []RulesFitTheTracker | - | RequestInv |
| DetectionTypes | []TypeOK | - | RequestInv, SshInv |
| EveryReadProbeIsBanned | []ReadProbesAreBanned | - | SshInv |
| FailuresReachTheThreshold | []FailuresAreBanned | - | SshInv |
| NobodyIsChargedForAnother | ChargeNeedsAProbe (of steps) | - | SshInv |
| PolicyTypes | []TypeOK | - | PolicyInv |
| OperatorsPrevail | []OperatorsDecide | - | PolicyInv |
| PipelineEnforcesItsConfig | []ConfigReachesThePipeline | - | PolicyInv |
| RuleFollowsPolicies | []EdgeFollowsPolicies | - | PolicyInv |
| RuleSpendsItsBudget | []RuleIsFullest | - | PolicyInv |
| CommandsHold | CommandsTakeEffect (of steps) | - | PolicyInv |
| NoFileIsReadTwice | []FilesAreReadOnce | - | CrawlInv |
| DiscoveryTypes | []TypeOK | - | CrawlInv, ReadInv, LogsInv |
| NoPathTwice | []NoLogTwice | - | LogsInv |
| AllLogsAreFound | []EveryLogIsFound | - | ReadInv, LogsInv |
| LinesReadBack | []LinesAreReadBack | - | EntryInv |

What the assumptions on constants say, and why the code justifies them:

* **ConstantsAssumption** of BanLifecycle, CloudflareSync and StrikeTracker: bounds are
  numbers, faults, modes and actors are of the kinds the modules know; the expression is
  made of two lists at least, of which the bans are one.
* **LogWatchAssumption, DetectionAssumption**: the bounds are numbers; there is at least
  one file and one pending entry, and a counter can hold the threshold of failed logins.
* **RequestsAssumption** (Detection): requests have the fields of a parsed entry; paths
  are closed under `Implied`, since a path with a longer mark holds the shorter one.
* **PoliciesAssumption**: configurations name items that exist; every address and ASN
  has at least one character, as every printed number and address has.
* **HostsAssumption** (Discovery): a file is a sequence of directives, an include names
  files that exist, because a glob yields no others, and a link has the contents of its
  file.
* **FormatsAssumption** (Discovery): a log_format consists of variables that the reader
  has names for and of texts that are not empty, because `parse_format_segments` makes
  no empty literal. No log_format is called `combined`, because nginx refuses one.
* **TextsAssumption** (Discovery): the texts of a log_format hold no semicolon and no
  hash. The lexer takes them for the end of the directive and for a comment, in quotes as
  well; what it makes of the rest is not modelled.
* **ValuesAssumption** (Discovery): nginx writes some text, perhaps an empty one, for
  every variable.

Why the strengthenings are needed:

* **UnbanInv.** UnbanHolds alone is not inductive: an unban holds because no ban of the
  target is under way (`LiftedClean`), which rests on what an unban under way has
  already removed (`UnbansSettle`), on tasks dying with the daemon (`TasksOnlyWhenUp`)
  and on there being no element without a set (`TablesHold`).
* **BlockInv** adds that between nft and the store a watcher's ban is in the kernel
  already and the clock is at most Skew ahead (`WatchersCovered`), and that
  RecordedBanIsBlocked holds from the restore on, also while a ban is under way
  (`RecordsBlocked`). Both speak of the targets that are not `Excepted`, contested or
  unrenewed: the first step of an operation that may end in a contest puts its target
  there, and an add that finds a longer element than it asks for takes it out of
  `unrenewed`, so nothing is assumed of the kernel or of the verdicts.
* **SnapshotInv** adds the moment between the restore and the snapshot, when every
  active record is blocked without a timeout, or unrenewed, and nothing else writes; and
  that an unban under way is one of this daemon, so its target is `unbanned` before its
  element goes.
* **TypeInv** adds that a patch is only sent for a rule that exists: without it a late
  patch could index an empty sequence of rules.
* **WorkerInv** relates each place of the worker to what it has read, found and written:
  at rest the rule and the record are those of the store, or they are `Covered`: a unit
  or a writer is coming, or a failure, a skipped request or an expiry is remembered as
  `abandoned` (`RestInv`). A round has read the lists one after the other and no other
  ones (`ReadInv`); each list it has read is as it was read, or covered (`RoundInv`: this
  is what a torn expression needs). What was found is still so when it is written, and
  what is recorded is what was put, or nothing was sent (`RuleInv`, which is where a
  manual sync or a late request would break it).
* **MirrorInv** is about EdgeMirror and not about the code: list by list, what was read
  for the next copy is not older than the copy and not newer than the store, and a list
  that is behind while others are read is due again. NoOlderCopy follows from it for
  whatever implements EdgeMirror. The step theorem of MirrorIsImplemented maps each place
  of the worker: reading a list is `Take` or `TakeFails`, writing is `Put`, the ways to
  give up, a request that is skipped or a record that fails included, are `Drop`, a
  change and an expiry `Change`; the channel and looking for the rule stutter, and so
  does recording what was put.
* **TrackInv** says of every pool that its record is the streak, saturated (`Linked`),
  or that it is fresh and the streak is too old for any strike that may still come,
  including one whose clock was read before (`Forgotten`), with `ClockInv` bounding how
  old such a clock is. The step theorem maps `Strike` to the policy's `Strike`, and
  every other action to a stutter.
* **LifeInv** (LogWatch) follows a watcher from unborn to ended: an unborn one has
  judged nothing, one that runs unaborted is the registry's, one that ended without an
  abort found no file and judged nothing, and the registry's entry was started and not
  aborted. So of all the unaborted watchers only the registry's can have judged
  anything, which is more than TwiceOnlyInHandover.
* **OrderInv** (LogWatch) says that the files hold the log in the order of nginx's writing,
  one file after the other (`FilesInOrder`), and of every reader that was not `raced`
  that what it judged and what its buffer holds come in order and before everything it
  may still read (`Ahead`): the later files, and its own file beyond its position, or
  all of it once it was truncated below that.
* **ReadersInv** adds to it that no buffer holds what was not written, also of a reader
  that was `raced`. Then a line that is read is a `Judge` of LogReaders, `Reconcile` is
  its `Hire` or `Dismiss`, a raced opening its `Confuse`, and every rename, truncation,
  stat and end of a file is a stutter.
* **RequestInv** (Detection) says that a request that was judged is one of the inputs.
  What the theorems about requests say of it is a fact about the tables of ThreatRules,
  proved rule by rule: a rule that lets pass or strikes less must be behind every rule
  whose marks may occur beside its own. EveryStrikeFits goes through every branch of
  `evaluate_request` that strikes, the rules, the exploits and the tools (10 within 10
  seconds), and through the failed logins (5 within 300 seconds).
* **SshInv** (Detection) says that a pending id belongs to a probe at work or is an
  orphan (`PendingAreProbes`), that probes whose address line was read are banned, and
  that a peer that is not banned has a streak below the threshold, which its pool holds
  as well: it is fresh, of the category of failed logins, and its count is at least the
  streak (`FailuresAreCounted`).
* **PolicyInv** adds to the properties that an open category was opened by an operator
  (`OpenedByOperators`), without which the copy of a configuration could lose one of its
  categories, and that `snapshot` and `loaded` change together; the rule is the store's,
  or a unit is on its way, or `behind` remembers why it need not be.
* **CrawlInv** (Discovery): what was read is what was opened, without repetition.
* **ReadInv** (Discovery): whatever a file that was read asks for (includes, formats,
  access logs) is in the queue or gathered; all of it is in `Included`, the least set
  that is closed under includes, which therefore is what has been read when the queue is
  empty.
* **LogsInv** (Discovery): paths of logs are not repeated, and each log has the kind of
  the first directive of its path by the formats known when all files are read. A kind is
  known unless it is that of a format with a brace, which the lexer loses: then it is
  that of an unknown name.
* **EntryInv** (Discovery): an entry that was read is that of a line that nginx wrote by
  a format, read by the kind that this format is taken for. The format is one that
  FormatsAssumption speaks of, because it comes from a file or is nginx's own.

LinesReadBack follows a line through the reader. A line is its parts, one after the
other (`WrittenHasLayout`). The text that ends a value may occur before that end, as
long as the reader has gone on behind it already; and the end of a value that no entry
holds (`lost`) may be found too early, if the variable behind it is not in the entry
either. So after k segments there is exactly one reading; it is never ahead of the line,
it stands where the line's k-th part ends unless it is behind a lost value (`Astray`),
it is behind every end that it cannot miss, and the fields that an entry is made of are
right (`IsSound`, `ReaderGoesOnBehindText`, `ReaderGoesOnBehindValue`, `LineIsReadBack`).
That is so for a line that is `Legible`, in any format. For the formats of nginx and for
Cloudflare it is then shown of every request that they are (`OrdinaryIsLegible`): the
quotes, which no value holds, and the space behind the status are in the texts that
follow the values, and of the two values without either the user's name is the one that
may be lost (`KnownIsTold`).

RuleSpendsItsBudget is proved from EdgeFollowsPolicies and the lemma `RenderIsFullest`
about RuleBudget alone: `Packed` takes as many of the first items as fit, not one less
and not one more (`PackedFillsUp`), the clause of the ASNs as many of the last ones
(`AsnClauseFillsUp`, by way of the sums of a reversed row), and the saturating
subtractions of the code leave each clause what is left of the budget, so `IsFullest`,
which is stated by the length of the finished text, chooses the same numbers.

Inductions. The library's induction theorems take an operator as a parameter, which
the provers at hand cannot instantiate. `Lemmas` proves instead, from the
well-foundedness of the natural numbers, that a set of them has a least element
(`LeastNatural`), and from it that a **set** of numbers that holds 0 and, with k - 1, k,
up to n, holds n (`UpTo`). A loop over a sequence (`FoldLeft`) is unfolded by
`FoldExists` and `FoldStages`: if each round stays within a set, there is a function of
the rounds from the base to the result. One short lemma for each operator that is
folded (`ProcessedFold`, `ResolvedFold`, `ClassifiedFold`, `LengthFold`, `RowFold`,
`OrderFold`, `FlattenFold`, `SegmentFold`) applies them.

Only model-checked:

* every liveness property (ExpiredRecordsArePurged, EdgeCatchesUp, SendersAreServed,
  StaleRecordsAreDropped, LinesAreJudged, AbortedTasksEnd, DiscoveryEnds), because
  fairness and ENABLED are out of the prover's reach;
* the disagreements of section 6, which are counterexamples.

TLC also checked the inductive invariants before they were proved, where it can; OrderInv,
the one that is easiest to get wrong, on 12.4 million states.

## 6. Findings

Where a document of the repository and the code disagree; each is a counterexample that
TLC finds in the run named.

1. **ban_restore.** `restore_active_bans` (`daemon.rs` 49-59) adds the targets without
   their expiry, so a temporary ban becomes permanent in the kernel after a restart: the
   record expires and is purged, the element stays until an unban or a reboot.
2. **ban_sweep_race.** `cleanup_expired_bans` (`storage/bans.rs` 87-118) deletes in a
   second transaction what it collected in a first, without looking again: a target that
   is banned in between loses its new record, and the next start does not restore it.
3. **policies_whitelist.** `build_pipeline_from_store` (`engine/pipeline.rs` 15-19)
   keeps only the entries of the whitelist that parse as addresses, so a client inside a
   whitelisted network is judged and banned like any other, although `check` says that
   it is whitelisted.

Seen while modelling, and not made runs of their own:

* `save_ban` replaces any record, so a later temporary verdict shortens a permanent ban.
* A failed update of the rule is printed and forgotten (`cloudflare/worker.rs` 91-93).
* Without a zone, or in a dry daemon, `update_waf_rule` returns `Ok` before it sends
  anything (`cloudflare/client.rs` 56-58), and the worker records an expression that is
  in force nowhere (`cloudflare/worker.rs` 89), which `sanalu cloudflare list` then prints.
* The lexer of nginx's directives clears its buffer at a brace in quotes
  (`discovery/crawler.rs` 334-348), so a `log_format` that writes JSON is lost and its
  logs are read as Combined, which no JSON line fits. The reader of JSON lines works, but
  no log of a declared JSON format reaches it.
* Failed logins strike the isolated pool that some rules for requests strike too, so a
  request of the same address between two of them restarts their count
  (`engine/pipeline.rs` 333-339, `intelligence/strikes.rs`).
* Between two lines that ban nobody a watcher awaits nothing, so an abort reaches it only
  when it has come to the end of the file (`engine/watcher.rs` 123-139).
* The addresses of the rule come in the reverse order of their keys in the store
  (`cloudflare/worker.rs` 84); the documents say the most recent ones are kept. Of the
  ASNs the highest numbers are kept.
* Stage 4 of the rules runs on every status but 200 and 304 (`probes.rs`), the plan
  speaks of 4xx and 5xx.
* A category may be written under two names, `tools` and `generic_tools`, which are two
  rows of the table: allowing one leaves the other blocked (`storage/policies.rs` 65).
* No command lifts a restricted ASN, and a configured entry that an operator removed
  comes back with the next copy (`storage/policies.rs` 184, 235).
* A regional clause that is over the budget is dropped as a whole.
* An IPv4 network is matched against the low 32 bits of any address, IPv6 included
  (`cidr.rs` 12).
* Formats are recognised by the names of their variables only (`discovery/nginx.rs`
  205).

## 7. Conditions under which the properties hold

They are conditions of the code, not conveniences; each is a hazard listed in
`PROJECT.json`.

* An unban that overlaps a ban of the same target is outside RecordedBanIsBlocked and
  UnbanHolds: the two writers use opposite orders and may leave a record without an
  element, or the reverse, until the next start or the next unban. Two overlapping bans
  with verdicts of different kinds may be saved in the order opposite to their nft calls
  and are outside RecordedBanIsBlocked. Both are `contested`, for these targets only and
  until a later operation, alone, settles it.
* On a kernel older than 6.12 an element that is added again keeps its old timeout. Where
  that is shorter than what was asked for, the target is `unrenewed`, and neither
  RecordedBanIsBlocked nor SnapshotIsBlocked speaks of it.
* Failing nft and redb calls are ignored by the code, so a record may not be enforced;
  ReliableCalls excludes it where it matters. UnbanHolds and the types do not need it.
* After an unban the snapshot still holds the target until the next start, and its lines
  are skipped; SnapshotIsBlocked therefore excepts what was unbanned since the start.
* A round of the worker that fails, is skipped (dry, or without a zone) or could not read
  a list is not made good, and an expired ban announces nothing: until the next complete
  round StaleEdgeIsPending, SettledMeansRecorded and EdgeCatchesUp except it
  (`abandoned`), and EdgeFollowsPolicies does (`behind`).
* An expression may be torn between lists of different ages. What holds is that the change
  that tore it is followed by another round, and that no list goes back to an older one.
* With a manual sync beside the worker, or late requests, there may be two rules, or an
  older content over a newer one; WorkerAlone excludes both. That writers are served is
  checked with both.
* FailuresAreBanned speaks of streaks: failed logins of which no two in a row are more
  than the 300 seconds apart, and between which no request of the peer restarted the pool.
* AbortedTasksEnd holds once nginx pauses for as long as a watcher needs to come to the
  end of the file. While lines that ban nobody keep coming the code does not end, and the
  bound on the lines is that pause.
* Log reading. The order of judged lines is claimed unless the file was replaced between
  the `stat` and the `open` (`raced`), whose inode is then recorded wrongly. Lines
  written to the old file after the switch, a truncation that has grown past the offset
  before it is noticed (`Passed`), and lines written while no watcher is at work may go
  unread. A new file is taken to have a new inode.
* A probe is charged to the wrong peer only when an earlier process with its id lost its
  address line (`orphans`).
* OperatorsDecide speaks of categories and of entries that no configuration holds.
* ToolsAreNotJudgedMilder excepts a store that blocks the category of browsers, which a
  tool is not in.
* LinesAreReadBack speaks of lines that are legible, and of all lines of nginx's format
  and of the one for Cloudflare (`Ordinary`) if the values hold no quote, which nginx
  escapes, the status no space, and the address not the text that follows it. A format
  that has the names of a known format in another order is read as the known one and is
  not legible; MCDiscovery checks that all other lines of the instance are
  (`LinesAreLegible`). A JSON line with escapes cannot be borrowed by the reader and is
  dropped.
* Lines of a log whose format was lost by the lexer are not read by any format that
  wrote them; EveryLogIsFound says that such a log is found, as one of an unknown format.
* Of two formats on one log the first one read counts; with links to directories of logs
  one file may be watched under two paths. EveryLogIsFound and NoLogTwice speak of
  paths.

## 8. Not modelled, and why

* Which text matches which pattern: the pattern tables, normalisation, user agents,
  headers, globs, and the wording of sshd. What depends on a match is modelled, with
  every combination of matches as input. Of the lexer of nginx's directives it is modelled
  what braces do to a log_format; semicolons and hashes in quotes are left out.
* Parsers of fixed formats and of nginx's error lines that no watcher calls; `sanalu
  replay`, which prints what the pipeline says of a file.
* Offenses and escalation: nothing records an offense and nothing asks the escalation
  engine; the daemon only purges the table. There is no behaviour to check.
* Configuration, geo database, updater, uninstaller: they read or replace files outside
  the daemon's loop, in straight sequences of calls. Their results are inputs of
  Policies. The geo database is written in place, so a crash may leave a truncated one
  that counts as fresh.
* Duplicate drop rules in the chain, ranges and ASN batches in the firewall: targets are
  single addresses. The ASN fallback through the geo database belongs to them.
* The socket of the IPC server: a request is one step. When the CLI cannot reach a
  running daemon its fallback fails on the store's lock.
* SIGHUP is a rescan, which is modelled.
* The ssh watcher that follows a file polls as the nginx watcher does; Detection has its
  lines only.

## 9. Plan

Done: all modules of section 2, model-checked, and the theorems of section 5, which
state every safety property of the passing runs.

Worth doing next, in this order:

1. An abstract registry of bans ("banned until lifted or expired") for BanLifecycle to
   implement under ReliableCalls.
2. Ranges in the firewall, where one refused element drops a batch.
