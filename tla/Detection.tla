----------------------------- MODULE Detection -----------------------------
(***************************************************************************)
(* The two inputs of the threat pipeline.  Requests of nginx's log are     *)
(* judged one by one (ThreatPipeline); the lines of sshd's log go through  *)
(* a parser that remembers, by process id, the probes whose address comes  *)
(* in a later line (src/src/parser/ssh.rs).  Processes run side by side,   *)
(* their lines may be lost on the way, and their ids are used again.       *)
(***************************************************************************)
EXTENDS ThreatPipeline

CONSTANTS
    RequestFamilies, \* the requests nginx logs, in a few sets
    Pipe,            \* the snapshot the pipeline was built with
    Ips,             \* the peers of sshd
    WebPeers,        \* those of them that send requests too
    Pids,            \* sshd's process ids
    MaxPending,      \* the parser's limit, 256 in the code
    MaxCount,        \* where a strike counter saturates, 255 in the code
    MaxConnections,  \* bound: connections to sshd
    MaxFailures      \* bound: failed logins of one connection

ASSUME DetectionAssumption ==
    /\ MaxPending \in Nat \ {0} /\ MaxCount \in Nat /\ SshStrike.threshold <= MaxCount
    /\ MaxConnections \in Nat /\ MaxFailures \in Nat

\* A request has what the pipeline looks at, and its path the marks that come with
\* the ones it has.
IsRequest(r) ==
    /\ r = [ip |-> r.ip, asn |-> r.asn, country |-> r.country, exploit |-> r.exploit,
            agent |-> r.agent, method |-> r.method, status |-> r.status,
            referer |-> r.referer, uri |-> r.uri]
    /\ r.uri.path = Implied(r.uri.path)

ASSUME RequestsAssumption ==
    \A family \in RequestFamilies : \A r \in family : IsRequest(r)

VARIABLES
    request,      \* the latest request, its action, and whether its strike was one too many
    source,       \* where the ssh watcher reads: "none" yet, "journal", "file", or "ended"
    connections,  \* what each sshd process serves
    connected,    \* how many connections there were
    pending,      \* pending_pids: the processes whose probe has no address yet
    strikes,      \* the isolated pool of each peer, see NoStrikes
    event,        \* the latest event of the parser
    banned,       \* the peers banned by sshd's log
    failures,     \* history: the streak of failed logins of each peer that were read
    orphans       \* history: processes that left while they were pending

ssh == <<source, connections, connected, pending, strikes, event, banned, failures, orphans>>
vars == <<request, ssh>>

NoRequest == [action |-> Allow]
Idle == [kind |-> "idle"]
NoEvent == [kind |-> "ignore"]

\* A pool: its category and count, and who struck last; "none" is nobody within the
\* 300 seconds of SshStrike.window.
NoStrikes == [category |-> "none", count |-> 0, last |-> "none"]

Init ==
    /\ request = NoRequest
    /\ source = "none"
    /\ connections = [p \in Pids |-> Idle]
    /\ connected = 0
    /\ pending = {}
    /\ strikes = [ip \in Ips |-> NoStrikes]
    /\ event = NoEvent
    /\ banned = {}
    /\ failures = [ip \in Ips |-> 0]
    /\ orphans = {}

\* One request.  Requests and sshd's lines share nothing but the isolated pool of a
\* peer, see WebStrike: a whole request is judged before the ssh watcher starts.
JudgeRequest ==
    /\ source = "none"
    /\ request = NoRequest
    /\ \E family \in RequestFamilies : \E r \in family, reached \in BOOLEAN :
        request' = [request |-> r, reached |-> reached,
                    action |-> EvaluateRequest(Pipe, r, reached)]
    /\ UNCHANGED ssh

-----------------------------------------------------------------------------
(* sshd.                                                                   *)

\* The watcher of sshd's log follows the journal, or a file when there is no
\* journalctl or the system logs to files.
SpawnSshWatcher ==
    /\ source = "none"
    /\ request = NoRequest
    /\ source' \in {"journal", "file"}
    /\ UNCHANGED <<request, connections, connected, pending, strikes, event, banned, failures, orphans>>

\* A peer connects: to log in, or to probe.
Connect(p, ip, kind) ==
    /\ source # "none"
    /\ connected < MaxConnections
    /\ connections[p] = Idle
    /\ connected' = connected + 1
    /\ connections' = [connections EXCEPT ![p] = [kind |-> kind, ip |-> ip, line |-> "none", failed |-> 0]]
    /\ UNCHANGED <<request, source, pending, strikes, event, banned, failures, orphans>>

\* Its marker was read, and the line that names its peer will not be.
Orphaned(p) ==
    IF connections[p].kind = "probe" /\ connections[p].line = "marker"
    THEN orphans \cup {p} ELSE orphans

\* The process ends: its id is free, and what it did not log it never will.
Leave(p) ==
    /\ connections[p] # Idle
    /\ connections' = [connections EXCEPT ![p] = Idle]
    /\ orphans' = Orphaned(p)
    /\ UNCHANGED <<request, source, connected, pending, strikes, event, banned, failures>>

\* journalctl ends, and the watcher with it.
JournalEnds ==
    /\ source = "journal"
    /\ source' = "ended"
    /\ UNCHANGED <<request, connections, connected, pending, strikes, event, banned, failures, orphans>>

-----------------------------------------------------------------------------
(* The parser and the watcher.                                             *)

\* Mutant of Insert: an entry is dropped only when the table is over its limit.
InsertBeyondLimit(p) ==
    IF p \notin pending /\ Cardinality(pending) > MaxPending
    THEN {(pending \ {old}) \cup {p} : old \in pending}
    ELSE {pending \cup {p}}

\* insert_pending: the table is full, some other entry makes room.
Insert(p) ==
    IF p \notin pending /\ Cardinality(pending) >= MaxPending
    THEN {(pending \ {old}) \cup {p} : old \in pending}
    ELSE {pending \cup {p}}

\* A pool after one more strike.  It goes on when the latest one is `near`, within
\* the window of this one, and of the same category.
Struck(pool, category, near, by) ==
    [category |-> category, last |-> by,
     count |-> IF ~ near \/ pool.category # category THEN 1
               ELSE IF pool.count < MaxCount THEN pool.count + 1 ELSE MaxCount]

\* Mutant of SshPool: the failures have a category that requests do not share.
SshPoolOfItsOwn(ip) ==
    Struck(strikes[ip], SshStrike.category, strikes[ip].last = "ssh", "ssh")

\* The pool of a peer after one more failed login.
SshPool(ip) ==
    Struck(strikes[ip], SshStrike.category, strikes[ip].last # "none", "ssh")

\* evaluate_ssh_event counts the failure, and process_ssh_line bans.
Judge(e) ==
    LET known == e.kind = "ignore" \/ KnownClient(Pipe, e.ip) \/ e.ip \in Pipe.banned_ips
        counts == ~ known /\ e.kind = "auth failure"
        reached == counts /\ SshPool(e.ip).count >= SshStrike.threshold
        action == EvaluateSshEvent(Pipe, e, reached)
    IN
    /\ event' = e
    /\ strikes' = IF ~ counts THEN strikes
                  ELSE [strikes EXCEPT ![e.ip] = SshPool(e.ip)]
    /\ banned' = IF action.kind = "ban" THEN banned \cup {e.ip} ELSE banned

\* Mutant of AddressLine: the entry is not removed.
AddressLineKeepsEntry(p, own) ==
    /\ orphans' = orphans \ {p}
    /\ UNCHANGED pending
    /\ Judge(IF p \in pending THEN [kind |-> "probe", ip |-> connections[p].ip, pid |-> p]
             ELSE own)

\* A line with an address: what it says of itself is `own`, but a pending process
\* is a probe whatever the line says.
AddressLine(p, own) ==
    /\ orphans' = orphans \ {p}
    /\ IF p \in pending
       THEN /\ pending' = pending \ {p}
            /\ Judge([kind |-> "probe", ip |-> connections[p].ip, pid |-> p])
       ELSE /\ UNCHANGED pending
            /\ Judge(own)

\* A line that announces a probe and does not name the peer.
MarkerLine(p) ==
    /\ source # "ended"
    /\ connections[p].kind = "probe" /\ connections[p].line = "none"
    /\ connections' = [connections EXCEPT ![p].line = "marker"]
    /\ \E table \in Insert(p) : pending' = table
    /\ Judge(NoEvent)
    /\ orphans' = orphans \ {p}
    /\ UNCHANGED <<request, source, connected, failures>>

\* Mutant of BannerLine: a line of a process that is not pending is ignored.
BannerLineOfPendingOnly(p) ==
    /\ source # "ended"
    /\ connections[p].kind = "probe" /\ connections[p].line = "marker"
    /\ connections' = [connections EXCEPT ![p].line = "banner"]
    /\ AddressLine(p, NoEvent)
    /\ UNCHANGED <<request, source, connected, failures>>

\* "banner exchange: Connection from ...", which is a probe by itself too.
BannerLine(p) ==
    /\ source # "ended"
    /\ connections[p].kind = "probe" /\ connections[p].line = "marker"
    /\ connections' = [connections EXCEPT ![p].line = "banner"]
    /\ AddressLine(p, [kind |-> "probe", ip |-> connections[p].ip, pid |-> p])
    /\ UNCHANGED <<request, source, connected, failures>>

\* "Failed password for ... from ..."
FailedLine(p) ==
    /\ source # "ended"
    /\ connections[p].kind = "login" /\ connections[p].line = "none"
    /\ connections[p].failed < MaxFailures
    /\ connections' = [connections EXCEPT ![p].failed = @ + 1]
    /\ failures' = [failures EXCEPT ![connections[p].ip] = @ + 1]
    /\ AddressLine(p, [kind |-> "auth failure", ip |-> connections[p].ip, pid |-> p])
    /\ UNCHANGED <<request, source, connected>>

\* "Accepted ... from ...", which is no event of its own.
AcceptedLine(p) ==
    /\ source # "ended"
    /\ connections[p].kind = "login" /\ connections[p].line = "none"
    /\ connections' = [connections EXCEPT ![p].line = "accepted"]
    /\ AddressLine(p, NoEvent)
    /\ UNCHANGED <<request, source, connected, failures>>

\* A line that never reaches the watcher.
LostLine(p) ==
    /\ connections[p].kind = "probe" /\ connections[p].line \in {"none", "marker"}
    /\ connections' = [connections EXCEPT ![p].line = "lost"]
    /\ orphans' = Orphaned(p)
    /\ UNCHANGED <<request, source, connected, pending, strikes, event, banned, failures>>

\* The isolated pool is shared with the rules for requests: a watcher of nginx's
\* log strikes the same peer, whose rule has a shorter window and its own category.
\* "other" stands for all but the one of failed logins.  A strike that restarts the
\* pool ends the streak.
WebStrike(ip, category) ==
    /\ source # "none" /\ ip \in WebPeers
    /\ ~ KnownClient(Pipe, ip) /\ ip \notin Pipe.banned_ips
    /\ \E near \in BOOLEAN :
        /\ near => strikes[ip].last # "none"
        /\ strikes' = [strikes EXCEPT ![ip] = Struck(@, category, near, "web")]
        /\ failures' = IF near /\ strikes[ip].category = category THEN failures
                       ELSE [failures EXCEPT ![ip] = 0]
    /\ UNCHANGED <<request, source, connections, connected, pending, event, banned, orphans>>

\* More than SshStrike.window passes after a peer's latest failed login; a request
\* may have struck since.  The sweep drops a record only later, when it is stale.
Lapse(ip) ==
    /\ source # "none"
    /\ \E last \in {"none"} \cup ({strikes[ip].last} \ {"ssh"}) :
        strikes' = [strikes EXCEPT ![ip].last = last]
    /\ failures' = [failures EXCEPT ![ip] = 0]
    /\ UNCHANGED <<request, source, connections, connected, pending, event, banned, orphans>>

Line(p) ==
    /\ connections[p] # Idle
    /\ MarkerLine(p) \/ BannerLine(p) \/ FailedLine(p) \/ AcceptedLine(p) \/ LostLine(p)

Next ==
    \/ JudgeRequest
    \/ SpawnSshWatcher
    \/ \E p \in Pids :
        \/ \E ip \in Ips, kind \in {"login", "probe"} : Connect(p, ip, kind)
        \/ Leave(p)
        \/ Line(p)
    \/ JournalEnds
    \/ \E ip \in Ips : Lapse(ip) \/ \E category \in {"common", "other"} : WebStrike(ip, category)

Spec == Init /\ [][Next]_vars

-----------------------------------------------------------------------------
(* Properties.                                                             *)

Connections ==
    [kind : {"login", "probe"}, ip : Ips, failed : 0 .. MaxFailures,
     line : {"none", "marker", "banner", "accepted", "lost"}]

StrikePools ==
    [category : {"none", "common", "other"}, count : 0 .. MaxCount, last : {"none", "ssh", "web"}]

\* Every variable has its type, and the table of pending processes is bounded,
\* however many processes leave it without their address line (insert_pending).
TypeOK ==
    /\ request.action.kind \in {"allow", "drop banned", "ban"}
    /\ source \in {"none", "journal", "file", "ended"}
    /\ connections \in [Pids -> {Idle} \cup Connections]
    /\ connected \in 0 .. MaxConnections
    /\ pending \subseteq Pids /\ Cardinality(pending) <= MaxPending
    /\ orphans \subseteq Pids /\ banned \subseteq Ips
    /\ strikes \in [Ips -> StrikePools] /\ failures \in [Ips -> Nat]
    /\ event.kind \in {"ignore", "probe", "auth failure"}

\* inspect_threat tries its rules in order and some of them let a request pass, so
\* a mark that alone is banned or struck might be hidden behind another one.  It
\* never is, except under /.well-known/ with a success, and behind a path to a
\* shell that was served.
NoRuleHidesAThreat ==
    request # NoRequest =>
        LET r == request.request
            path == r.uri.path
            served == ".well-known" \in path /\ r.status \in 200 .. 399
            shell == path \cap ShellEndings # {} /\ r.status = 200 /\ r.method \in Safe
        IN  ~ served /\ ~ shell =>
                \A mark \in path :
                    (InspectThreat(r.method, Implied({mark}), r.status) # Pass)
                        => (InspectThreat(r.method, path, r.status) # Pass)

\* Blocking a category of tools sends its requests down another path of the
\* pipeline, with other checks in another order.  What a browser is banned for a
\* tool is banned for too, except for the scanner methods and harmful referers,
\* which that path does not look at, and for being a browser, if that is blocked.
ToolsAreNotJudgedMilder ==
    request # NoRequest =>
        LET r == request.request
            tool == [r EXCEPT !.agent = <<"generic_tools">>]
            browser == [r EXCEPT !.agent = <<"other">>]
        IN  /\ r.method \notin ScannerMethods
            /\ ~ r.referer
            /\ "browser_or_unknown" \notin Pipe.blocked_categories
            /\ EvaluateRequest(Pipe, browser, request.reached).kind = "ban"
            => EvaluateRequest(Pipe, tool, request.reached).kind = "ban"

\* Every strike fits the tracker, whether a rule asks for it, an error of a tool or
\* a failed login: its count is a byte, and the sweep, which forgets a record after
\* 600 idle seconds, does not cut a window.
RulesFitTheTracker ==
    request # NoRequest =>
        LET r == request.request
            decision == InspectThreat(r.method, r.uri.path, r.status)
        IN  \A strike \in {decision, ToolStrike, SshStrike} :
                strike.kind \in {"shared", "isolated", "tool"} =>
                    strike.threshold \in 1 .. 255 /\ strike.window <= 600

\* A peer is charged with a probe only for a line of a process that probed, or of
\* one whose id an earlier process left pending: the address line of that one was
\* lost.  With every address line read nobody is charged for another, however the
\* lines of the processes mix and however often ids come back.
ChargeNeedsAProbe ==
    [][\A p \in Pids :
          event' # event /\ event'.kind = "probe" /\ event'.pid = p
              => connections[p].kind = "probe" \/ p \in orphans]_vars

\* A probe whose address line is read is banned, also when the table was full and
\* its entry had to go.
ReadProbesAreBanned ==
    \A p \in Pids :
        connections[p].kind = "probe" /\ connections[p].line = "banner" =>
            \/ connections[p].ip \in banned
            \/ KnownClient(Pipe, connections[p].ip)
            \/ connections[p].ip \in Pipe.banned_ips

\* A peer whose streak of failed logins reaches the threshold is banned, also when
\* some of them were read as something else because their process id was pending.
\* The logins of a streak are 300 seconds apart at most, and no strike of a request
\* restarted the pool between them: one of another category does, and one of the
\* same after more than its own, shorter window.
FailuresAreBanned ==
    \A ip \in Ips :
        failures[ip] >= SshStrike.threshold =>
            ip \in banned \/ KnownClient(Pipe, ip) \/ ip \in Pipe.banned_ips
=============================================================================
