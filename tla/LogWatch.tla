------------------------------ MODULE LogWatch ------------------------------
(***************************************************************************)
(* The watchers of one nginx log (src/src/engine/watcher.rs) and the       *)
(* registry that starts and aborts them (src/src/engine/registry.rs).      *)
(*                                                                         *)
(* nginx writes lines in two halves, 2n-1 and 2n, the second of which ends *)
(* line n.  Outside the program the log is renamed and created again, or   *)
(* copied and truncated, and nginx reopens it.  A watcher is a tokio task  *)
(* that reads to the end of its file, looks at the path, and sleeps; an    *)
(* abort reaches it only while it sleeps.  Watchers of other paths share   *)
(* no state with these.                                                    *)
(***************************************************************************)
EXTENDS Naturals, Sequences, FiniteSets

CONSTANTS
    Formats,       \* the log formats the nginx configuration may name
    FirstFormat,   \* the one it names when the daemon starts
    Garbled,       \* the lines that are not UTF-8
    MaxLines,      \* bound: lines that nginx writes
    MaxInodes,     \* bound: files that have the log's path in turn
    MaxTruncations,\* bound: times the log is copied and truncated
    MaxTasks,      \* bound: watchers the registry starts
    MaxChanges     \* bound: changes of the nginx configuration

ASSUME LogWatchAssumption ==
    /\ MaxLines \in Nat /\ MaxInodes \in Nat \ {0} /\ MaxTruncations \in Nat
    /\ MaxTasks \in Nat /\ MaxChanges \in Nat
    /\ Garbled \subseteq Nat
    /\ FirstFormat \in Formats

VARIABLES
    files,       \* the halves of lines in each file
    created,     \* how many files have been at the log's path
    path,        \* the file at the log's path, NoFile while there is none
    writer,      \* the file nginx has open
    written,     \* how many halves nginx has written
    truncations, \* how often the log was truncated
    configured,  \* the format discovery finds for the path, or NotLogged
    changes,     \* how often the configuration changed
    registry,    \* the registry's entry for the path
    tasks,       \* the watchers
    judged       \* the halves each watcher has handed to the pipeline

environment == <<files, created, path, writer, written, truncations>>
vars == <<environment, configured, changes, registry, tasks, judged>>

Inodes == 1 .. MaxInodes
Tasks == 1 .. MaxTasks
Units == 1 .. 2 * MaxLines
NoFile == 0
NotLogged == "not logged"
NotWatched == [format |-> NotLogged, task |-> 0]

EndsLine(unit) == unit % 2 = 0
LineOf(unit) == (unit + 1) \div 2

NoTask == [state |-> "unborn", aborted |-> FALSE, inode |-> NoFile, pos |-> 0,
           buffer |-> <<>>, current_ino |-> NoFile, current_offset |-> 0,
           seen |-> NoFile, raced |-> FALSE, missing |-> FALSE]

Init ==
    /\ files = [i \in Inodes |-> <<>>]
    /\ created = 1
    /\ path = 1
    /\ writer = 1
    /\ written = 0
    /\ truncations = 0
    /\ configured = FirstFormat
    /\ changes = 0
    /\ registry = NotWatched
    /\ tasks = [t \in Tasks |-> NoTask]
    /\ judged = [t \in Tasks |-> <<>>]

-----------------------------------------------------------------------------
(* nginx, logrotate and the administrator.                                 *)

Write ==
    /\ written < 2 * MaxLines
    /\ written' = written + 1
    /\ files' = [files EXCEPT ![writer] = Append(@, written + 1)]
    /\ UNCHANGED <<created, path, writer, truncations, configured, changes, registry, tasks, judged>>

\* logrotate renames the log.
Rename ==
    /\ path # NoFile
    /\ created < MaxInodes
    /\ path' = NoFile
    /\ UNCHANGED <<files, created, writer, written, truncations, configured, changes, registry, tasks, judged>>

\* logrotate, or nginx when it reopens its log, creates the file again.
Create ==
    /\ path = NoFile
    /\ path' = created + 1
    /\ created' = created + 1
    /\ UNCHANGED <<files, writer, written, truncations, configured, changes, registry, tasks, judged>>

\* nginx gets logrotate's signal and reopens its log.
Reopen ==
    /\ path \notin {NoFile, writer}
    /\ writer' = path
    /\ UNCHANGED <<files, created, path, written, truncations, configured, changes, registry, tasks, judged>>

CopyTruncate ==
    /\ truncations < MaxTruncations
    /\ path # NoFile
    /\ files[path] # <<>>
    /\ files' = [files EXCEPT ![path] = <<>>]
    /\ truncations' = truncations + 1
    /\ UNCHANGED <<created, path, writer, written, configured, changes, registry, tasks, judged>>

Configure ==
    /\ changes < MaxChanges
    /\ changes' = changes + 1
    /\ \E found \in (Formats \cup {NotLogged}) \ {configured} : configured' = found
    /\ UNCHANGED <<environment, registry, tasks, judged>>

-----------------------------------------------------------------------------
(* The registry.                                                           *)

Abort(t) == [tasks EXCEPT ![t].aborted = TRUE]

Unborn == {t \in Tasks : tasks[t].state = "unborn"}
NextTask == CHOOSE t \in Unborn : TRUE

\* prune_missing: discovery no longer finds the log.
PruneMissing ==
    /\ configured = NotLogged
    /\ registry # NotWatched
    /\ tasks' = Abort(registry.task)
    /\ registry' = NotWatched

\* Mutant of AddWatcher: the task is started and its handle is not kept.
AddWithoutHandle ==
    /\ configured # NotLogged
    /\ registry = NotWatched
    /\ Unborn # {}
    /\ tasks' = [tasks EXCEPT ![NextTask].state = "new"]
    /\ registry' = [format |-> configured]

\* A log the registry does not know yet.
AddWatcher ==
    /\ configured # NotLogged
    /\ registry = NotWatched
    /\ Unborn # {}
    /\ tasks' = [tasks EXCEPT ![NextTask].state = "new"]
    /\ registry' = [format |-> configured, task |-> NextTask]

\* Mutant of UpdateWatcher: the entry keeps the old task's handle.
UpdateKeepsHandle ==
    /\ configured # NotLogged
    /\ registry # NotWatched
    /\ registry.format # configured
    /\ Unborn # {}
    /\ tasks' = [Abort(registry.task) EXCEPT ![NextTask].state = "new"]
    /\ registry' = [registry EXCEPT !.format = configured]

\* Mutant of UpdateWatcher: the old task is not aborted.
UpdateWithoutAbort ==
    /\ configured # NotLogged
    /\ registry # NotWatched
    /\ registry.format # configured
    /\ Unborn # {}
    /\ tasks' = [tasks EXCEPT ![NextTask].state = "new"]
    /\ registry' = [format |-> configured, task |-> NextTask]

\* The log has another format now: its watcher is replaced.
UpdateWatcher ==
    /\ configured # NotLogged
    /\ registry # NotWatched
    /\ registry.format # configured
    /\ Unborn # {}
    /\ tasks' = [Abort(registry.task) EXCEPT ![NextTask].state = "new"]
    /\ registry' = [format |-> configured, task |-> NextTask]

\* reconcile_watchers: at the start, at every rescan and on SIGHUP.  An entry
\* with the discovered format is left alone, whatever became of its task.
Reconcile ==
    /\ PruneMissing \/ AddWatcher \/ UpdateWatcher
    /\ UNCHANGED <<environment, configured, changes, judged>>

-----------------------------------------------------------------------------
(* A watcher.                                                              *)

Set(t, task) == tasks' = [tasks EXCEPT ![t] = task]

\* The task starts at the end of the file, or ends when there is none.
Start(t) ==
    LET task == tasks[t] IN
    /\ task.state = "new"
    /\ ~ task.aborted
    /\ IF path = NoFile
       THEN Set(t, [task EXCEPT !.state = "ended", !.missing = TRUE])
       ELSE Set(t, [task EXCEPT !.state = "reading", !.inode = path, !.current_ino = path,
                                !.pos = Len(files[path]),
                                !.current_offset = Len(files[path])])
    /\ UNCHANGED <<environment, configured, changes, registry, judged>>

\* At an await: an aborted task goes no further than this.
Runs(task) == task.state = "reading" \/ (task.state = "waiting" /\ ~ task.aborted)

\* What the BufReader has when it was filled from its file.
Rest(task) == SubSeq(files[task.inode], task.pos + 1, Len(files[task.inode]))

HasLine(units) == \E i \in DOMAIN units : EndsLine(units[i])

\* BufReader: it is filled only when it holds no line end.
Filled(task) ==
    IF HasLine(task.buffer) \/ Rest(task) = <<>> THEN task
    ELSE [task EXCEPT !.buffer = @ \o Rest(task), !.pos = Len(files[task.inode])]

\* The length of what read_line returns: up to a line end, or all there is.
LineLength(units) ==
    IF HasLine(units)
    THEN CHOOSE i \in DOMAIN units :
            EndsLine(units[i]) /\ \A j \in 1 .. i - 1 : ~ EndsLine(units[j])
    ELSE Len(units)

EndOfFile(t) ==
    LET task == tasks[t] IN
    /\ Runs(task)
    /\ Filled(task).buffer = <<>>
    /\ Set(t, [task EXCEPT !.state = "checking"])
    /\ UNCHANGED <<environment, configured, changes, registry, judged>>

\* read_line returns a line, or its first half at the end of the file; a line
\* that is not UTF-8 is consumed and does not count in the offset.  A verdict
\* may have to wait for the Cloudflare channel.
ReadLine(t) ==
    LET task == Filled(tasks[t])
        length == LineLength(task.buffer)
        line == SubSeq(task.buffer, 1, length)
        rest == SubSeq(task.buffer, length + 1, Len(task.buffer))
    IN
    /\ Runs(tasks[t])
    /\ task.buffer # <<>>
    /\ IF LineOf(line[1]) \in Garbled
       THEN /\ Set(t, [task EXCEPT !.buffer = rest, !.state = "waiting"])
            /\ UNCHANGED judged
       ELSE /\ \E then \in {"reading", "waiting"} :
                Set(t, [task EXCEPT !.buffer = rest, !.state = then,
                                    !.current_offset = @ + length])
            /\ judged' = [judged EXCEPT ![t] = @ \o line]
    /\ UNCHANGED <<environment, configured, changes, registry>>

\* Mutant of Stat: only the length is compared.
StatLengthOnly(t) ==
    LET task == tasks[t] IN
    /\ task.state = "checking"
    /\ Set(t, IF path # NoFile /\ Len(files[path]) < task.current_offset
              THEN [task EXCEPT !.state = "truncated"]
              ELSE [task EXCEPT !.state = "waiting"])
    /\ UNCHANGED <<environment, configured, changes, registry, judged>>

\* Mutant of Stat: a file that was read to its end counts as truncated.
StatAtOrBelow(t) ==
    LET task == tasks[t] IN
    /\ task.state = "checking"
    /\ Set(t, CASE path = NoFile -> [task EXCEPT !.state = "waiting"]
                [] path # NoFile /\ path # task.current_ino ->
                     [task EXCEPT !.state = "replaced", !.seen = path]
                [] path # NoFile /\ path = task.current_ino
                     /\ Len(files[path]) <= task.current_offset ->
                     [task EXCEPT !.state = "truncated"]
                [] OTHER -> [task EXCEPT !.state = "waiting"])
    /\ UNCHANGED <<environment, configured, changes, registry, judged>>

\* check_file_rotation, first half: the file at the path is another one, or is
\* shorter than what was read of it.
Stat(t) ==
    LET task == tasks[t] IN
    /\ task.state = "checking"
    /\ Set(t, CASE path = NoFile -> [task EXCEPT !.state = "waiting"]
                [] path # NoFile /\ path # task.current_ino ->
                     [task EXCEPT !.state = "replaced", !.seen = path]
                [] path # NoFile /\ path = task.current_ino
                     /\ Len(files[path]) < task.current_offset ->
                     [task EXCEPT !.state = "truncated"]
                [] OTHER -> [task EXCEPT !.state = "waiting"])
    /\ UNCHANGED <<environment, configured, changes, registry, judged>>

\* Second half: the path is opened again and read from its start.  The file may
\* have been replaced since it was looked at.
OpenReplaced(t) ==
    LET task == tasks[t] IN
    /\ task.state = "replaced"
    /\ IF path = NoFile
       THEN Set(t, [task EXCEPT !.state = "waiting", !.seen = NoFile])
       ELSE Set(t, [task EXCEPT !.state = "waiting", !.inode = path, !.pos = 0,
                                !.buffer = <<>>, !.current_ino = task.seen,
                                !.current_offset = 0, !.seen = NoFile,
                                !.raced = @ \/ path # task.seen])
    /\ UNCHANGED <<environment, configured, changes, registry, judged>>

OpenTruncated(t) ==
    LET task == tasks[t]
        opened == IF path = NoFile THEN task.inode ELSE path
    IN
    /\ task.state = "truncated"
    /\ Set(t, [task EXCEPT !.state = "waiting", !.inode = opened, !.pos = 0,
                           !.buffer = <<>>, !.current_offset = 0,
                           !.raced = @ \/ opened # task.current_ino])
    /\ UNCHANGED <<environment, configured, changes, registry, judged>>

\* Mutant of Cancel: an abort reaches only a task that has not started.
CancelNewOnly(t) ==
    /\ tasks[t].aborted
    /\ tasks[t].state = "new"
    /\ Set(t, [tasks[t] EXCEPT !.state = "ended"])
    /\ UNCHANGED <<environment, configured, changes, registry, judged>>

\* An abort takes effect before the task's first step and where it waits.
Cancel(t) ==
    /\ tasks[t].aborted
    /\ tasks[t].state \in {"new", "waiting"}
    /\ Set(t, [tasks[t] EXCEPT !.state = "ended"])
    /\ UNCHANGED <<environment, configured, changes, registry, judged>>

TaskStep(t) ==
    \/ Start(t) \/ EndOfFile(t) \/ ReadLine(t) \/ Stat(t)
    \/ OpenReplaced(t) \/ OpenTruncated(t) \/ Cancel(t)

Next ==
    \/ Write \/ Rename \/ Create \/ Reopen \/ CopyTruncate \/ Configure
    \/ Reconcile
    \/ \E t \in Tasks : TaskStep(t)

Spec == Init /\ [][Next]_vars

\* The runtime runs every task that is ready, and an abort is delivered.
FairSpec == Spec /\ \A t \in Tasks : WF_vars(TaskStep(t))

-----------------------------------------------------------------------------
(* Properties.                                                             *)

TaskRecords ==
    [state : {"unborn", "new", "reading", "waiting", "checking", "replaced", "truncated", "ended"},
     aborted : BOOLEAN, raced : BOOLEAN, missing : BOOLEAN,
     inode : Inodes \cup {NoFile}, current_ino : Inodes \cup {NoFile},
     seen : Inodes \cup {NoFile},
     pos : Nat, current_offset : Nat, buffer : Seq(Units)]

\* Every variable has its type.
TypeOK ==
    /\ files \in [Inodes -> Seq(Units)]
    /\ created \in Inodes /\ path \in Inodes \cup {NoFile} /\ writer \in Inodes
    /\ written \in 0 .. 2 * MaxLines /\ truncations \in 0 .. MaxTruncations
    /\ configured \in Formats \cup {NotLogged} /\ changes \in 0 .. MaxChanges
    /\ registry \in [format : Formats \cup {NotLogged}, task : Tasks \cup {0}]
    /\ tasks \in [Tasks -> TaskRecords]
    /\ judged \in [Tasks -> Seq(Units)]

\* A watcher hands every piece of the log to the pipeline at most once and in the
\* order nginx wrote it, through renames and truncations at any moment, so that
\* one request is one strike: check_file_rotation starts again from the file's
\* beginning only when nothing of it was read.  The exception is a file that was
\* replaced between its stat and its open.
JudgedOnceInOrder ==
    \A t \in Tasks : ~ tasks[t].raced =>
        \A i, j \in DOMAIN judged[t] : i < j => judged[t][i] < judged[t][j]

\* Two watchers of the path judge the same line only when one of them was told
\* to stop: the registry never has two at work, however often the format changes
\* and the log disappears and comes back between two rescans.
TwiceOnlyInHandover ==
    \A t, u \in Tasks : t # u /\ ~ tasks[t].aborted /\ ~ tasks[u].aborted =>
        \A i \in DOMAIN judged[t], j \in DOMAIN judged[u] : judged[t][i] # judged[u][j]

\* Every task that runs unaborted is the one the registry can abort, and the
\* registry's task is over only when its file was missing when it started: what
\* reconcile counts as unchanged is watched, or has never been.
RegistryHoldsTheTask ==
    /\ \A t \in Tasks :
        tasks[t].state \notin {"unborn", "ended"} /\ ~ tasks[t].aborted => registry.task = t
    /\ registry.task # 0 =>
        /\ ~ tasks[registry.task].aborted
        /\ tasks[registry.task].state = "ended" => tasks[registry.task].missing

\* What the registry and the watchers promise together: one watcher at most is in
\* charge of the log and judges each piece once and in order, whoever judges beside it
\* was told to stop when the next one was started or the log disappeared, and nobody
\* judges what was not written (registry.rs:88-147, watcher.rs:58-139).
Readers == INSTANCE LogReaders WITH
    Watchers <- Tasks, Nobody <- 0, Last <- 2 * MaxLines,
    holder <- registry.task,
    retired <- {t \in Tasks : tasks[t].aborted},
    confused <- {t \in Tasks : tasks[t].raced}

ImplementsReaders == Readers!Spec

InFile(i, unit) == \E k \in DOMAIN files[i] : files[i][k] = unit
InBuffer(t, unit) == \E k \in DOMAIN tasks[t].buffer : tasks[t].buffer[k] = unit
Judged(unit) == \E t \in Tasks : \E k \in DOMAIN judged[t] : judged[t][k] = unit

\* The reader is past this piece of its file and has not read it: it was there
\* when the task started, or the file was truncated and has grown again beyond
\* the offset.
Passed(t, unit) ==
    /\ tasks[t].inode = path
    /\ tasks[t].current_ino = path
    /\ Len(files[path]) >= tasks[t].current_offset
    /\ \E k \in DOMAIN files[path] : files[path][k] = unit /\ k <= tasks[t].pos
    /\ ~ InBuffer(t, unit)

\* A watcher at work is behind with this piece of the log.
Owed(unit) ==
    /\ path # NoFile
    /\ InFile(path, unit)
    /\ \E t \in Tasks :
        /\ tasks[t].state \in {"reading", "waiting", "checking", "replaced", "truncated"}
        /\ ~ tasks[t].aborted
        /\ ~ Passed(t, unit)

\* What is in the file at the log's path is judged in the end, also when the file
\* was replaced or truncated under the reader, as long as a watcher is at work
\* that is not past it.
LinesAreJudged ==
    \A unit \in Units :
        LineOf(unit) \notin Garbled => (Owed(unit) ~> (Judged(unit) \/ ~ Owed(unit)))

\* A watcher that was told to stop stops once nginx pauses, whatever became of its log: it
\* was renamed, truncated, left half written or unreadable, or the watcher was in the
\* middle of any of its steps.  The pause is needed, and the bound on the lines stands for
\* it: between two lines that ban nobody the watcher awaits nothing, and an abort reaches
\* it only at an await (watcher.rs:123-139).
AbortedTasksEnd ==
    \A t \in Tasks : tasks[t].aborted ~> tasks[t].state = "ended"
=============================================================================
