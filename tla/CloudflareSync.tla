--------------------------- MODULE CloudflareSync ---------------------------
(***************************************************************************)
(* How the Cloudflare rule follows the store.  A writer (a watcher or an   *)
(* IPC handler) commits a change and then sends a unit into a bounded      *)
(* channel.  The worker takes one unit, sleeps the batch window, drains    *)
(* the rest, reads the lists of the store one transaction after the other, *)
(* renders an expression and updates the rule in two HTTP exchanges: it    *)
(* looks for the rule, then patches or creates it.  It records the         *)
(* expression only when that worked, and it does not try again.            *)
(* `sanalu cloudflare sync` runs the same update in an IPC task of its     *)
(* own, beside the worker.                                                 *)
(*                                                                         *)
(* A list of the store is a version number, which every change of it       *)
(* increments; an expression, and the rule at Cloudflare, is the version   *)
(* of each list it was rendered from.  Neither rule_id nor ruleset_id is   *)
(* configured (the shipped configuration), so the rule is found by its     *)
(* description.                                                            *)
(***************************************************************************)
EXTENDS Naturals, Sequences, FiniteSets

CONSTANTS
    Writers,     \* the tasks that change the store and notify the worker
    Syncers,     \* the IPC connections that run `cloudflare sync`
    Capacity,    \* the bound of the channel (100 in the code)
    Faults,      \* what may happen to a request, see below
    Modes,       \* how the daemon may be configured at a start, see below
    Expiry,      \* may a ban expire, which changes the last list silently?
    ListCount,   \* the lists an expression is rendered from (4 in the code)
    MaxChanges,  \* bound: the number of changes of a list
    MaxLate,     \* bound: the requests that are late at a time
    MaxStops     \* bound: how often the daemon restarts

(* Faults of a request: "refused" is an error reply without an effect,     *)
(* "lost" is a request or reply that times out (15 s) with or without an   *)
(* effect so far, "late" is one that takes effect after its timeout.       *)
(* "redb" is a transaction of the store that fails.                        *)
(*                                                                         *)
(* Modes: a daemon that runs "dry", or has "no zone", reports an update as *)
(* done that it did not send; a manual sync is never dry.                  *)
(*                                                                         *)
(* The lists are read in the order blocked ASNs, restricted ASNs, allowed  *)
(* regions, bans.  The version None is what a list never has: that of an   *)
(* earlier run, or of a list that could not be read.                       *)

ASSUME ConstantsAssumption ==
    /\ Capacity \in Nat \ {0}
    /\ Faults \subseteq {"refused", "lost", "late", "redb"}
    /\ Modes \subseteq {"push", "dry", "no zone"}
    /\ Expiry \in BOOLEAN
    /\ ListCount \in Nat \ {0, 1}
    /\ MaxChanges \in Nat
    /\ MaxLate \in Nat
    /\ MaxStops \in Nat
    /\ "worker" \notin Syncers

VARIABLES
    mode,       \* how the daemon is configured
    content,    \* the version of each list of the store
    recorded,   \* the versions of the expression the store records
    writer,     \* is a writer waiting to send?
    queue,      \* the units in the channel
    task,       \* what the worker and the IPC tasks are doing
    edge,       \* the sanalu rules at Cloudflare, oldest first
    wire,       \* the requests that take effect after their timeout
    stops,      \* how often the daemon restarted
    abandoned   \* history: was a failed round, or an expiry, not made good?

vars == <<mode, content, recorded, writer, queue, task, edge, wire, stops, abandoned>>

Tasks == Syncers \cup {"worker"}
Lists == 1 .. ListCount
Bans == ListCount
Versions == 0 .. MaxChanges
None == MaxChanges + 1
Nothing == [l \in Lists |-> None]

\* A task has read the lists before `next`.
Idle == [pc |-> "idle", got |-> Nothing, next |-> 1, patch |-> FALSE]

Goto(x, pc) == task' = [task EXCEPT ![x].pc = pc]

-----------------------------------------------------------------------------
\* The daemon has started: the store may hold anything, the rule may be absent
\* or left by an earlier run, and the initial unit is in the channel.
Init ==
    /\ mode \in Modes
    /\ content = [l \in Lists |-> 0]
    /\ recorded = Nothing
    /\ writer = [w \in Writers |-> "idle"]
    /\ queue = 1
    /\ task = [x \in Tasks |-> Idle]
    /\ edge \in {<<>>, <<Nothing>>}
    /\ wire = {}
    /\ stops = 0
    /\ abandoned = FALSE

Changed(l) ==
    /\ content[l] < MaxChanges
    /\ content' = [content EXCEPT ![l] = @ + 1]

\* A change of a list is committed (save_ban, remove_ban, set_asn_blocked, ...).
Change(w) ==
    /\ writer[w] = "idle"
    /\ \E l \in Lists : Changed(l)
    /\ writer' = [writer EXCEPT ![w] = "sending"]
    /\ UNCHANGED <<mode, recorded, queue, task, edge, wire, stops, abandoned>>

\* Mutant of Send: the channel has no bound.
SendUnbounded(w) ==
    /\ writer[w] = "sending"
    /\ queue' = queue + 1
    /\ writer' = [writer EXCEPT ![w] = "idle"]
    /\ UNCHANGED <<mode, content, recorded, task, edge, wire, stops, abandoned>>

\* tx.send(()).await: the writer waits while the channel is full.
Send(w) ==
    /\ writer[w] = "sending"
    /\ queue < Capacity
    /\ queue' = queue + 1
    /\ writer' = [writer EXCEPT ![w] = "idle"]
    /\ UNCHANGED <<mode, content, recorded, task, edge, wire, stops, abandoned>>

\* A ban expires: list_active_bans skips it from now on, nobody is told.
Expire ==
    /\ Expiry
    /\ Changed(Bans)
    /\ abandoned' = TRUE
    /\ UNCHANGED <<mode, recorded, writer, queue, task, edge, wire, stops>>

-----------------------------------------------------------------------------
(* The worker.                                                             *)

WorkerRecv ==
    /\ task["worker"].pc = "idle"
    /\ queue > 0
    /\ queue' = queue - 1
    /\ Goto("worker", "batching")
    /\ UNCHANGED <<mode, content, recorded, writer, edge, wire, stops, abandoned>>

\* Mutant of WorkerDrain: the first list is read once, when the worker starts.
WorkerDrainKeepsList ==
    /\ task["worker"].pc = "batching"
    /\ queue' = 0
    /\ task' = [task EXCEPT !["worker"] =
                  [Idle EXCEPT !.pc = "reading", !.got[1] = recorded[1], !.next = 2]]
    /\ UNCHANGED <<mode, content, recorded, writer, edge, wire, stops, abandoned>>

\* The batch window is over: the units that piled up are one update.
WorkerDrain ==
    /\ task["worker"].pc = "batching"
    /\ queue' = 0
    /\ Goto("worker", "reading")
    /\ UNCHANGED <<mode, content, recorded, writer, edge, wire, stops, abandoned>>

-----------------------------------------------------------------------------
(* The update of the rule, in the worker or in an IPC task.  Every list is *)
(* a transaction of its own: others may commit between two of them.        *)

\* `sanalu cloudflare sync` begins at once.
SyncerStart(s) ==
    /\ task[s].pc = "idle"
    /\ Goto(s, "reading")
    /\ UNCHANGED <<mode, content, recorded, writer, queue, edge, wire, stops,
                   abandoned>>

\* A list of policies is read.
ReadList(x) ==
    LET l == task[x].next
    IN  /\ task[x].pc = "reading"
        /\ l < Bans
        /\ task' = [task EXCEPT ![x].got[l] = content[l], ![x].next = l + 1]
        /\ UNCHANGED <<mode, content, recorded, writer, queue, edge, wire, stops,
                       abandoned>>

\* It cannot be read, and counts as empty (unwrap_or_default).
ReadListFails(x) ==
    /\ task[x].pc = "reading"
    /\ task[x].next < Bans
    /\ "redb" \in Faults
    /\ task' = [task EXCEPT ![x].next = @ + 1]
    /\ abandoned' = (abandoned \/ x = "worker")
    /\ UNCHANGED <<mode, content, recorded, writer, queue, edge, wire, stops>>

IsPartial(got) == \E l \in Lists : got[l] = None

\* The bans are read last.  A round that could read every list makes good what
\* rounds before it have missed.
ReadBans(x) ==
    /\ task[x].pc = "reading"
    /\ task[x].next = Bans
    /\ task' = [task EXCEPT ![x].got[Bans] = content[Bans], ![x].next = Bans + 1,
                            ![x].pc = "finding"]
    /\ abandoned' = IF x = "worker" THEN IsPartial(task'[x].got) ELSE abandoned
    /\ UNCHANGED <<mode, content, recorded, writer, queue, edge, wire, stops>>

-----------------------------------------------------------------------------
(* update_waf_rule.                                                        *)

\* Mutant of GiveUp: the HTTP client has no timeout and waits for good.
WaitForGood(x) ==
    /\ Goto(x, "idle forever")
    /\ abandoned' = (abandoned \/ x = "worker")

\* The update returns an error: the worker logs it and waits for the next
\* unit, the IPC task reports it.
GiveUp(x) ==
    /\ task' = [task EXCEPT ![x] = Idle]
    /\ abandoned' = (abandoned \/ x = "worker")

\* list_active_bans returns an error: the worker skips the round without a word.
ReadBansFails(x) ==
    /\ task[x].pc = "reading"
    /\ task[x].next = Bans
    /\ "redb" \in Faults
    /\ GiveUp(x)
    /\ UNCHANGED <<mode, content, recorded, writer, queue, edge, wire, stops>>

\* Without a zone, or dry, nothing is sent, and the update is reported as done.
Skips(x) == mode = "no zone" \/ (mode = "dry" /\ x = "worker")

Skip(x) ==
    /\ task[x].pc = "finding"
    /\ Skips(x)
    /\ Goto(x, "recording")
    /\ abandoned' = (abandoned \/ x = "worker")
    /\ UNCHANGED <<mode, content, recorded, writer, queue, edge, wire, stops>>

\* Mutant of Find: the description is not looked at.
FindByConfiguredId(x) ==
    /\ task[x].pc = "finding"
    /\ ~Skips(x)
    /\ task' = [task EXCEPT ![x].pc = "writing", ![x].patch = FALSE]
    /\ UNCHANGED <<mode, content, recorded, writer, queue, edge, wire, stops,
                   abandoned>>

\* The GET of the ruleset: is there a rule of ours already?
Find(x) ==
    /\ task[x].pc = "finding"
    /\ ~Skips(x)
    /\ task' = [task EXCEPT ![x].pc = "writing", ![x].patch = edge # <<>>]
    /\ UNCHANGED <<mode, content, recorded, writer, queue, edge, wire, stops,
                   abandoned>>

RequestsMayFail == Faults \ {"redb"} # {}

FindFails(x) ==
    /\ task[x].pc = "finding"
    /\ ~Skips(x)
    /\ RequestsMayFail
    /\ GiveUp(x)
    /\ UNCHANGED <<mode, content, recorded, writer, queue, edge, wire, stops>>

\* What a PATCH of the first rule, or a POST of a new one, leaves.
Written(request) ==
    IF request.patch THEN [edge EXCEPT ![1] = request.got]
                     ELSE Append(edge, request.got)

RequestOf(x) == [got |-> task[x].got, patch |-> task[x].patch]

Write(x) ==
    /\ task[x].pc = "writing"
    /\ edge' = Written(RequestOf(x))
    /\ Goto(x, "recording")
    /\ UNCHANGED <<mode, content, recorded, writer, queue, wire, stops, abandoned>>

WriteFails(x) ==
    /\ task[x].pc = "writing"
    /\ \/ RequestsMayFail /\ UNCHANGED <<edge, wire>>
       \/ "lost" \in Faults /\ edge' = Written(RequestOf(x)) /\ UNCHANGED wire
       \/ "late" \in Faults /\ wire' = wire \cup {RequestOf(x)} /\ UNCHANGED edge
          /\ Cardinality(wire') <= MaxLate
    /\ GiveUp(x)
    /\ UNCHANGED <<mode, content, recorded, writer, queue, stops>>

\* A request whose sender gave up long ago takes effect.
LateWrite ==
    \E request \in wire :
        /\ edge' = Written(request)
        /\ wire' = wire \ {request}
        /\ UNCHANGED <<mode, content, recorded, writer, queue, task, stops, abandoned>>

\* Mutant of Record: the channel is drained after the update.
RecordAndDrain(x) ==
    /\ task[x].pc = "recording"
    /\ recorded' = task[x].got
    /\ task' = [task EXCEPT ![x] = Idle]
    /\ queue' = 0
    /\ UNCHANGED <<mode, content, writer, edge, wire, stops, abandoned>>

\* Mutant of Record: the expression of a rule just created is not stored.
RecordPatchesOnly(x) ==
    /\ task[x].pc = "recording"
    /\ recorded' = IF task[x].patch THEN task[x].got ELSE recorded
    /\ task' = [task EXCEPT ![x] = Idle]
    /\ UNCHANGED <<mode, content, writer, queue, edge, wire, stops, abandoned>>

\* set_cloudflare_state, after Ok only.
Record(x) ==
    /\ task[x].pc = "recording"
    /\ recorded' = task[x].got
    /\ task' = [task EXCEPT ![x] = Idle]
    /\ UNCHANGED <<mode, content, writer, queue, edge, wire, stops, abandoned>>

\* The rule is in force and the store does not know: the error is ignored.
RecordFails(x) ==
    /\ task[x].pc = "recording"
    /\ "redb" \in Faults
    /\ GiveUp(x)
    /\ UNCHANGED <<mode, content, recorded, writer, queue, edge, wire, stops>>

-----------------------------------------------------------------------------
\* Mutant of Restart: there is no initial unit.
RestartWithoutUnit ==
    /\ stops < MaxStops
    /\ stops' = stops + 1
    /\ mode' \in Modes
    /\ queue' = 0
    /\ writer' = [w \in Writers |-> "idle"]
    /\ task' = [x \in Tasks |-> Idle]
    /\ UNCHANGED <<content, recorded, edge, wire, abandoned>>

\* The daemon stops anywhere and starts again with its initial unit; a change
\* whose writer had not sent yet is in the store, a request may be under way.
Restart ==
    /\ stops < MaxStops
    /\ stops' = stops + 1
    /\ mode' \in Modes
    /\ queue' = 1
    /\ writer' = [w \in Writers |-> "idle"]
    /\ task' = [x \in Tasks |-> Idle]
    /\ LET writing == {RequestOf(x) : x \in {y \in Tasks : task[y].pc = "writing"}}
       IN  wire' \in {wire} \cup
             {wire \cup R : R \in IF "late" \in Faults THEN SUBSET writing ELSE {}}
    /\ Cardinality(wire') <= MaxLate
    /\ UNCHANGED <<content, recorded, edge, abandoned>>

WorkerStep == WorkerRecv \/ WorkerDrain

UpdateStep(x) ==
    \/ ReadList(x)
    \/ ReadListFails(x)
    \/ ReadBans(x)
    \/ ReadBansFails(x)
    \/ Skip(x)
    \/ Find(x)
    \/ FindFails(x)
    \/ Write(x)
    \/ WriteFails(x)
    \/ Record(x)
    \/ RecordFails(x)

Next ==
    \/ \E w \in Writers : Change(w) \/ Send(w)
    \/ Expire
    \/ WorkerStep
    \/ \E s \in Syncers : SyncerStart(s)
    \/ \E x \in Tasks : UpdateStep(x)
    \/ LateWrite
    \/ Restart

Spec == Init /\ [][Next]_vars

\* The runtime schedules the worker, every request ends within its timeout,
\* and a channel serves its blocked senders in order.
FairSpec ==
    /\ Spec
    /\ WF_vars(WorkerStep)
    /\ WF_vars(UpdateStep("worker"))
    /\ \A w \in Writers : SF_vars(Send(w))

-----------------------------------------------------------------------------
(* The type invariant.                                                     *)
Expressions == [Lists -> Versions \cup {None}]

TypeOK ==
    /\ mode \in Modes
    /\ content \in [Lists -> Versions]
    /\ recorded \in Expressions
    /\ writer \in [Writers -> {"idle", "sending"}]
    /\ queue \in 0 .. Capacity
    /\ task \in [Tasks -> [pc : {"idle", "batching", "reading", "finding",
                                 "writing", "recording"},
                           got : Expressions, next : 1 .. ListCount + 1,
                           patch : BOOLEAN]]
    /\ edge \in Seq(Expressions)
    /\ wire \subseteq [got : Expressions, patch : BOOLEAN]
    /\ stops \in 0 .. MaxStops
    /\ abandoned \in BOOLEAN

EdgeIsStale == edge = <<>> \/ edge[1] # content

\* Something will make the worker read the store again, from the first list on.
Unread ==
    \/ queue > 0
    \/ \E w \in Writers : writer[w] = "sending"
    \/ task["worker"].pc = "batching"
    \/ task["worker"].pc = "reading" /\ task["worker"].next = 1

Drafting == task["worker"].pc \in {"reading", "finding", "writing"}

\* What the worker will write agrees with the store, as far as it has read it.
DraftIsCurrent ==
    /\ Drafting
    /\ \A l \in Lists : l < task["worker"].next => task["worker"].got[l] = content[l]

Pending == Unread \/ DraftIsCurrent

\* No change is lost: while the rule differs from the store, in any list, an update
\* is on its way, through every interleaving of writers, channel, drain, reads and
\* restart, unless the last round failed, was not sent or a ban expired.  A change
\* between two reads of a round makes another round (worker.rs:61-97, handlers.rs:31-36).
StaleEdgeIsPending == EdgeIsStale => Pending \/ abandoned

\* There is one rule of ours at Cloudflare, whatever failures and restarts came
\* between looking for it and creating it (client.rs:109-152).
OneRule == Len(edge) <= 1

\* When nothing is under way and the last round was sent and did not fail, `cloudflare
\* status` reports the expression that is in force (worker.rs:87-90, client.rs:56-58,
\* ipc/cloudflare.rs:38).
SettledMeansRecorded ==
    ~Pending /\ task["worker"].pc = "idle" /\ ~abandoned =>
        recorded = content /\ ~EdgeIsStale

\* The expressions at Cloudflare, and the one that is made to be written there.
Copies == {edge[i] : i \in DOMAIN edge}
Draft == IF Drafting THEN task["worker"].got ELSE Nothing
Taken == IF Drafting THEN task["worker"].next - 1 ELSE 0

\* The rule is a copy of the store, made list by list: a write puts there what the worker
\* has read since the write before it, a copy that a change has torn is followed by
\* another, and no write puts back an older version of a list, whatever is refused, lost
\* or restarted in between (worker.rs:61-97, client.rs:109-152).
Mirror == INSTANCE EdgeMirror WITH
    Last <- MaxChanges, Other <- None, source <- content,
    copy <- Copies, draft <- Draft, taken <- Taken, due <- Unread, failed <- abandoned

ImplementsMirror == Mirror!Spec

\* Once the store stops changing, the rule is that of the store for good, unless
\* the last round failed, was not sent, or a ban expired since (worker.rs:61-97).
EdgeCatchesUp == <>[](EdgeIsStale => abandoned)

\* A writer is never stuck in tx.send: a full channel and failing or late
\* requests delay the watchers and the IPC handlers, and do not stop them
\* (watcher.rs:97-99, handlers.rs:33-35, client.rs:32).
SendersAreServed ==
    \A w \in Writers : (writer[w] = "sending") ~> (writer[w] = "idle")
=============================================================================
