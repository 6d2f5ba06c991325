------------------------------ MODULE Policies ------------------------------
(***************************************************************************)
(* Whitelist, categories, ASNs and regions: where they are written, and    *)
(* what reads them.  The configuration file is copied into the store at    *)
(* every start and before every offline command; operators change the      *)
(* store; the threat pipeline judges by a snapshot taken at the start; the *)
(* Cloudflare worker renders the rule from the store                       *)
(* (src/src/storage/policies.rs, src/src/engine/pipeline.rs,               *)
(* src/src/ipc).                                                           *)
(*                                                                         *)
(* Redb locks its file: while the daemon is up or starting, the offline    *)
(* fallback of a command fails and changes nothing.                        *)
(***************************************************************************)
EXTENDS ThreatPipeline, RuleBudget
LOCAL INSTANCE SequencesExt

CONSTANTS
    Hosts,        \* sequence: addresses, in the order of their keys in the store
    Nets,         \* whitelist entries that are networks
    AddressOf,    \* of a host: [v6, bits], of a network: [v6, bits, prefix]
    Width4, Width6, \* the bits of an address, 32 and 128 in the code
    CategoryOf,   \* the categories by their names: one may have several
    Asns,         \* sequence: in the order of their numbers
    Regions,      \* sequence: in the order of their codes
    Requests,     \* what nginx logs
    Configs,      \* the configurations an administrator writes
    Unreadable,   \* the lists whose reading may fail
    MaxCommands, MaxStarts, MaxEdits \* bounds

VARIABLES
    config,   \* the configuration file
    store,    \* the tables
    loaded,   \* what the daemon runs with, NotUp when it is down (and, history: `wanted` at its start)
    snapshot, \* the pipeline's sets
    pending,  \* a unit for the Cloudflare worker is on its way
    rule,     \* the expression at Cloudflare
    behind,   \* history: a round failed, or a ban expired, since the latest whole rule
    commands, starts, edits, \* bounds
    wanted    \* history: what operators asked for last, of each item

vars == <<config, store, loaded, snapshot, pending, rule, behind, commands, starts, edits, wanted>>

NotUp == [up |-> FALSE]
HostSet == {Hosts[i] : i \in DOMAIN Hosts}
AsnSet == {Asns[i] : i \in DOMAIN Asns}
RegionSet == {Regions[i] : i \in DOMAIN Regions}
Names == DOMAIN CategoryOf

ASSUME PoliciesAssumption ==
    /\ Configs \subseteq [whitelist : SUBSET (HostSet \cup Nets), categories : SUBSET Names,
                         blocked_asns : SUBSET AsnSet, restricted_asns : SUBSET AsnSet,
                         allowed_regions : SUBSET RegionSet, max_rule_chars : Nat]
    /\ \A r \in Requests : r.ip \in HostSet
    /\ Unreadable \subseteq {"blocked_asns", "restricted_asns", "allowed_regions"}
    /\ Hosts \in Seq(HostSet) /\ Asns \in Seq(AsnSet) /\ Regions \in Seq(RegionSet)
    /\ \A i \in HostSet \cup AsnSet : LengthOf[i] \in Nat \ {0}
    /\ \A r \in RegionSet : LengthOf[r] \in Nat
    /\ MaxCommands \in Nat /\ MaxStarts \in Nat /\ MaxEdits \in Nat

\* What a command may name.  There is none for restricted ASNs.
Items ==
    {<<"whitelist", e>> : e \in HostSet \cup Nets}
        \cup {<<"categories", c>> : c \in Names}
        \cup {<<"blocked_asns", a>> : a \in AsnSet}
        \cup {<<"allowed_regions", r>> : r \in RegionSet}

IsIn(s, item) ==
    IF item[1] = "categories" THEN s.categories[item[2]] = "blocked" ELSE item[2] \in s[item[1]]

\* Mutant of Sync: the configured categories are blocked whatever the store says.
SyncOverrides(s, c) ==
    [s EXCEPT !.whitelist = @ \cup c.whitelist,
              !.categories = [n \in Names |-> IF n \in c.categories THEN "blocked" ELSE @[n]],
              !.blocked_asns = @ \cup c.blocked_asns,
              !.restricted_asns = @ \cup c.restricted_asns,
              !.allowed_regions = @ \cup c.allowed_regions]

\* sync_from_config: the store keeps what it has; a category that operators have
\* decided on stays as it is, everything else that is configured is put in.
Sync(s, c) ==
    [s EXCEPT !.whitelist = @ \cup c.whitelist,
              !.categories = [n \in Names |->
                                IF @[n] = "unset" /\ n \in c.categories THEN "blocked" ELSE @[n]],
              !.blocked_asns = @ \cup c.blocked_asns,
              !.restricted_asns = @ \cup c.restricted_asns,
              !.allowed_regions = @ \cup c.allowed_regions]

\* build_pipeline_from_store: only whitelist entries that are addresses, and
\* categories by whatever name.
SnapshotOf(s) ==
    [whitelisted_ips |-> s.whitelist \cap HostSet,
     banned_ips |-> s.bans,
     blocked_asns |-> s.blocked_asns,
     restricted_asns |-> s.restricted_asns,
     allowed_regions |-> s.allowed_regions,
     blocked_categories |-> {CategoryOf[n] : n \in {m \in Names : s.categories[m] = "blocked"}}]

\* execute_whitelist, execute_category, execute_asn, execute_region
Execute(s, item, add) ==
    IF item[1] = "categories"
    THEN [s EXCEPT !.categories[item[2]] = IF add THEN "blocked" ELSE "open"]
    ELSE [s EXCEPT ![item[1]] = IF add THEN @ \cup {item[2]} ELSE @ \ {item[2]}]

\* A table in the order of its keys.
AddKey(row, k, table) == IF k \in table THEN Append(row, k) ELSE row
InOrder(keys, table) == FoldLeft(LAMBDA row, k : AddKey(row, k, table), <<>>, keys)

V4Hosts == {h \in HostSet : ~ AddressOf[h].v6}

\* Mutant of RuleOf: the addresses of every kind are rendered.
RuleOfEveryBan(s, c) ==
    Render(c.max_rule_chars,
           InOrder(Asns, s.blocked_asns), InOrder(Asns, s.restricted_asns),
           InOrder(Regions, s.allowed_regions), InOrder(Reverse(Hosts), s.bans))

\* The rule the worker renders: of the bans only those of IPv4 addresses, in the
\* order of the table, from its end.
RuleOf(s, c) ==
    Render(c.max_rule_chars,
           InOrder(Asns, s.blocked_asns), InOrder(Asns, s.restricted_asns),
           InOrder(Regions, s.allowed_regions), InOrder(Reverse(Hosts), s.bans \cap V4Hosts))

\* The store as the worker reads it: a list that it cannot read counts as empty.
Without(s, lost) == [table \in DOMAIN s |-> IF table \in lost THEN {} ELSE s[table]]

\* SimpleCidr::contains: both addresses are taken for 128 bits, and the mask of an
\* IPv4 network covers the lowest 32 of them only.
Covers(net, host) ==
    LET n == AddressOf[net]
        h == AddressOf[host]
    IN \/ n.prefix = 0
       \/ n.v6 /\ h.bits \div 2 ^ (Width6 - n.prefix) = n.bits \div 2 ^ (Width6 - n.prefix)
       \/ ~n.v6 /\ (h.bits % 2 ^ Width4) \div 2 ^ (Width4 - n.prefix)
                    = n.bits \div 2 ^ (Width4 - n.prefix)

\* is_whitelisted
IsWhitelisted(s, host) ==
    host \in s.whitelist \/ \E net \in s.whitelist \cap Nets : Covers(net, host)

-----------------------------------------------------------------------------
Init ==
    /\ config \in Configs
    /\ store = [whitelist |-> {}, categories |-> [n \in Names |-> "unset"], blocked_asns |-> {},
                restricted_asns |-> {}, allowed_regions |-> {}, bans |-> {}]
    /\ loaded = NotUp
    /\ snapshot = NotUp
    /\ pending = FALSE
    /\ rule = Render(0, <<>>, <<>>, <<>>, <<>>)
    /\ behind = FALSE
    /\ commands = 0 /\ starts = 0 /\ edits = 0
    /\ wanted = [i \in Items |-> "nothing"]

\* The administrator edits the file; a running daemon does not look.
EditConfig ==
    /\ edits < MaxEdits
    /\ edits' = edits + 1
    /\ config' \in Configs \ {config}
    /\ UNCHANGED <<store, loaded, snapshot, pending, rule, behind, commands, starts, wanted>>

\* Mutant of Start: the snapshot is taken of the store as it was found.
StartBeforeSync ==
    /\ loaded = NotUp
    /\ starts < MaxStarts
    /\ starts' = starts + 1
    /\ loaded' = [up |-> TRUE, config |-> config, asked |-> wanted]
    /\ store' = Sync(store, config)
    /\ snapshot' = SnapshotOf(store)
    /\ pending' = TRUE
    /\ UNCHANGED <<config, rule, behind, commands, edits, wanted>>

\* The daemon starts: nobody else writes to the store before it serves commands.
\* The worker gets its first unit.
Start ==
    /\ loaded = NotUp
    /\ starts < MaxStarts
    /\ starts' = starts + 1
    /\ loaded' = [up |-> TRUE, config |-> config, asked |-> wanted]
    /\ store' = Sync(store, config)
    /\ snapshot' = SnapshotOf(store')
    /\ pending' = TRUE
    /\ UNCHANGED <<config, rule, behind, commands, edits, wanted>>

\* The daemon stops or is killed.
Stop ==
    /\ loaded # NotUp
    /\ loaded' = NotUp
    /\ snapshot' = NotUp
    /\ pending' = FALSE
    /\ UNCHANGED <<config, store, rule, behind, commands, starts, edits, wanted>>

Ask(item, add) ==
    /\ commands < MaxCommands
    /\ commands' = commands + 1
    /\ wanted' = [wanted EXCEPT ![item] = IF add THEN "in" ELSE "out"]

\* Mutant of Notifies: regions are not told to the worker.
NotifiesAsnsOnly(item) == item[1] = "blocked_asns"

\* Which policy commands the worker is told of.
Notifies(item) == item[1] \in {"blocked_asns", "allowed_regions"}

\* A command that the daemon executes (dispatch_policy): the pipeline is not told.
Command(item, add) ==
    /\ loaded # NotUp
    /\ Ask(item, add)
    /\ store' = Execute(store, item, add)
    /\ pending' = (pending \/ Notifies(item))
    /\ UNCHANGED <<config, loaded, snapshot, rule, behind, starts, edits>>

\* Mutant of OfflineCommand: the file is copied in after the command.
OfflineSyncsLast(item, add) ==
    /\ loaded = NotUp
    /\ Ask(item, add)
    /\ store' = Sync(Execute(store, item, add), config)
    /\ UNCHANGED <<config, loaded, snapshot, pending, rule, behind, starts, edits>>

\* A command while the daemon is down (execute_offline_*).
OfflineCommand(item, add) ==
    /\ loaded = NotUp
    /\ Ask(item, add)
    /\ store' = Execute(Sync(store, config), item, add)
    /\ UNCHANGED <<config, loaded, snapshot, pending, rule, behind, starts, edits>>

\* A list command while the daemon is down copies the file into the store, too.
OfflineList ==
    /\ loaded = NotUp
    /\ store' = Sync(store, config)
    /\ UNCHANGED <<config, loaded, snapshot, pending, rule, behind, commands, starts, edits, wanted>>

\* A watcher judges a request by the snapshot; a ban is recorded, and told to the
\* worker.
Judge(r) ==
    /\ loaded # NotUp
    /\ EvaluateRequest(snapshot, r, FALSE).kind = "ban"
    /\ store' = [store EXCEPT !.bans = @ \cup {r.ip}]
    /\ pending' = TRUE
    /\ UNCHANGED <<config, loaded, snapshot, rule, behind, commands, starts, edits, wanted>>

\* An unban, by the daemon or offline: the configuration plays no part in it.
Unban(host) ==
    /\ host \in store.bans
    /\ store' = [store EXCEPT !.bans = @ \ {host}]
    /\ pending' = (loaded # NotUp)
    /\ UNCHANGED <<config, loaded, snapshot, rule, behind, commands, starts, edits, wanted>>

\* A ban that is not permanent expires, and nobody tells the worker.
Expire(host) ==
    /\ host \in store.bans
    /\ store' = [store EXCEPT !.bans = @ \ {host}]
    /\ behind' = TRUE
    /\ UNCHANGED <<config, loaded, snapshot, pending, rule, commands, starts, edits, wanted>>

\* A round of the worker whose rule is put at Cloudflare.  Its steps are those of
\* CloudflareSync: a change between two of them is told to the worker, and another
\* round follows.  Manual syncs are left to that module.
PushRule ==
    /\ loaded # NotUp
    /\ pending
    /\ \E lost \in SUBSET Unreadable :
        /\ rule' = RuleOf(Without(store, lost), loaded.config)
        /\ behind' = (lost # {})
    /\ pending' = FALSE
    /\ UNCHANGED <<config, store, loaded, snapshot, commands, starts, edits, wanted>>

\* A round that comes to nothing: the bans cannot be read, the request fails, or none
\* is made, as the daemon is dry or has no zone.
FailRound ==
    /\ loaded # NotUp
    /\ pending
    /\ pending' = FALSE
    /\ behind' = TRUE
    /\ UNCHANGED <<config, store, loaded, snapshot, rule, commands, starts, edits, wanted>>

Next ==
    \/ EditConfig
    \/ Start
    \/ Stop
    \/ \E item \in Items, add \in BOOLEAN : Command(item, add) \/ OfflineCommand(item, add)
    \/ OfflineList
    \/ \E r \in Requests : Judge(r)
    \/ \E host \in HostSet : Unban(host) \/ Expire(host)
    \/ PushRule \/ FailRound

Spec == Init /\ [][Next]_vars

-----------------------------------------------------------------------------
(* Properties.                                                             *)

Stores ==
    [whitelist : SUBSET (HostSet \cup Nets), categories : [Names -> {"unset", "blocked", "open"}],
     blocked_asns : SUBSET AsnSet, restricted_asns : SUBSET AsnSet,
     allowed_regions : SUBSET RegionSet, bans : SUBSET HostSet]

Snapshots ==
    [whitelisted_ips : SUBSET HostSet, banned_ips : SUBSET HostSet,
     blocked_asns : SUBSET AsnSet, restricted_asns : SUBSET AsnSet,
     allowed_regions : SUBSET RegionSet, blocked_categories : SUBSET {CategoryOf[n] : n \in Names}]

\* What Cloudflare is given: the rule names IPv4 addresses only.
Rules ==
    [restricted : Seq(AsnSet), regions : Seq(RegionSet), asns : Seq(AsnSet), ips : Seq(V4Hosts)]

\* The tables, the snapshot and the rule keep their types; the snapshot is there
\* exactly while the daemon is up.
TypeOK ==
    /\ config \in Configs
    /\ store \in Stores
    /\ loaded = NotUp \/ loaded \in [up : {TRUE}, config : Configs, asked : [Items -> {"nothing", "in", "out"}]]
    /\ IF loaded = NotUp THEN snapshot = NotUp ELSE snapshot \in Snapshots
    /\ rule \in Rules
    /\ pending \in BOOLEAN /\ behind \in BOOLEAN
    /\ pending => loaded # NotUp
    /\ commands \in 0 .. MaxCommands /\ starts \in 0 .. MaxStarts /\ edits \in 0 .. MaxEdits
    /\ wanted \in [Items -> {"nothing", "in", "out"}]

\* Starts and offline commands copy the configuration over the store again and
\* again: what operators have put in stays in, a category they opened stays open,
\* and what they took out comes back only if some configuration holds it.
OperatorsDecide ==
    \A item \in Items :
        /\ wanted[item] = "in" => IsIn(store, item)
        /\ wanted[item] = "out" /\ item[1] = "categories" => ~IsIn(store, item)
        /\ wanted[item] # "in" /\ (\A c \in Configs : item[2] \notin c[item[1]]) => ~IsIn(store, item)

\* A command holds when it returns, by whichever way it was executed, although
\* the offline way copies the configuration in as well.
CommandsTakeEffect ==
    [][\A item \in Items :
        wanted'[item] # wanted[item] => (IsIn(store', item) <=> wanted'[item] = "in")]_vars

\* The pipeline of a running daemon enforces every rule of the configuration it
\* was started with, but for the categories that operators opened.
ConfigReachesThePipeline ==
    loaded # NotUp =>
        LET c == loaded.config IN
        /\ c.blocked_asns \subseteq snapshot.blocked_asns
        /\ c.restricted_asns \subseteq snapshot.restricted_asns
        /\ c.allowed_regions \subseteq snapshot.allowed_regions
        /\ c.whitelist \cap HostSet \subseteq snapshot.whitelisted_ips
        /\ \A n \in c.categories :
            loaded.asked[<<"categories", n>>] # "out" => CategoryOf[n] \in snapshot.blocked_categories

\* Whenever no unit is on its way, the rule at Cloudflare is the one of the store:
\* every change that shows in the expression was told to the worker.  It is not after
\* a round that failed or could not read a list, and after a ban that expired.
EdgeFollowsPolicies ==
    loaded # NotUp /\ ~ pending /\ ~ behind => rule = RuleOf(store, loaded.config)

\* That rule keeps within its budget of characters and uses it to the full, at
\* every boundary: regions first, then the last ASNs, then the last IPv4 bans.
RuleIsFullest ==
    loaded # NotUp /\ ~ pending /\ ~ behind =>
        LET max == loaded.config.max_rule_chars IN
        /\ TextLength(rule) <= max
        /\ IsFullest(rule, max,
                     InOrder(Asns, store.blocked_asns), InOrder(Asns, store.restricted_asns),
                     InOrder(Regions, store.allowed_regions),
                     InOrder(Reverse(Hosts), store.bans \cap V4Hosts))

\* What the plans say of the whitelist: an address in it passes every check.  The
\* snapshot knows no networks, and no entry of after the start.
WhitelistIsHonoured ==
    [][\A host \in HostSet :
        host \in store'.bans \ store.bans => ~IsWhitelisted(store, host)]_vars
=============================================================================
