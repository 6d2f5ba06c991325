--------------------------- MODULE LogWatch_proofs ---------------------------
(***************************************************************************)
(* Proofs about LogWatch: the registry holds the task at work, no line is  *)
(* judged by two tasks that were not told to stop, what a task judges it   *)
(* judges once and in order, and together they implement LogReaders.       *)
(***************************************************************************)
EXTENDS LogWatch, Lemmas

-----------------------------------------------------------------------------
(* The inductive invariants.                                               *)

AtWork(task) == task.state \in {"reading", "waiting", "checking", "replaced", "truncated"}

\* What the life of a watcher so far says of it and of what it judged.
Life(t, task, out) ==
    /\ task.state = "unborn" => ~ task.aborted
    /\ task.state \in {"unborn", "new"} => out = <<>> /\ task.buffer = <<>>
    /\ AtWork(task) => task.inode # NoFile
    /\ task.state \notin {"unborn", "ended"} /\ ~ task.aborted => registry.task = t
    /\ task.state = "ended" /\ ~ task.aborted => task.missing
    /\ task.missing => task.state = "ended" /\ out = <<>>

\* The registry's entry is empty, or its task was started and not aborted.
Entry ==
    IF registry.task = 0
    THEN registry = NotWatched
    ELSE tasks[registry.task].state # "unborn" /\ ~ tasks[registry.task].aborted

\* The log's path holds the youngest file, or there is room for another one.
Rotation ==
    /\ path \in {NoFile, created}
    /\ path = NoFile => created < MaxInodes

LifeInv ==
    /\ TypeOK
    /\ Rotation
    /\ Entry
    /\ \A t \in Tasks : Life(t, tasks[t], judged[t])

AtMost(s, n) == \A k \in DOMAIN s : s[k] <= n

\* The files hold the log in the order in which it was written, one file after
\* the other; those nginx has not opened yet are empty.
FilesInOrder ==
    /\ writer <= created
    /\ \A i \in Inodes : Increasing(files[i]) /\ AtMost(files[i], written)
    /\ \A i \in Inodes : i > writer => files[i] = <<>>
    /\ \A i, j \in Inodes : i < j => Before(files[i], files[j])

\* What was read of the log comes before what is still to be read: the later
\* files, and of the reader's own file what is past its position, or all of it
\* when the file is shorter than that.
Ahead(s, task) ==
    /\ \A i \in Inodes : i > task.inode => Before(s, files[i])
    /\ \A k \in DOMAIN files[task.inode] :
          k > task.pos \/ Len(files[task.inode]) < task.pos
            => AtMost(s, files[task.inode][k] - 1)

\* A reader that did not open another file than it had looked at.
Reader(task, out) ==
    /\ Increasing(out) /\ AtMost(out, written)
    /\ AtWork(task) =>
        /\ Increasing(task.buffer) /\ AtMost(task.buffer, written)
        /\ Before(out, task.buffer)
        /\ task.inode <= created
        /\ task.current_ino = task.inode
        /\ task.current_offset + Len(task.buffer) <= task.pos
        /\ Ahead(out, task) /\ Ahead(task.buffer, task)
        /\ task.state = "truncated" => Before(out, files[task.inode])
        /\ task.state = "replaced" => task.seen > task.inode

OrderInv ==
    /\ LifeInv
    /\ FilesInOrder
    /\ \A t \in Tasks : ~ tasks[t].raced => Reader(tasks[t], judged[t])

-----------------------------------------------------------------------------
(* What the operators of the model return.                                 *)

\* read_line returns at least one piece and at most all there are.
LEMMA LineLengthRange ==
    ASSUME NEW units \in Seq(Units), units # <<>>
    PROVE  LineLength(units) \in 1 .. Len(units)
<1>1. Len(units) \in Nat /\ Len(units) # 0 /\ DOMAIN units = 1 .. Len(units)
  OBVIOUS
<1>2. CASE HasLine(units)
  <2> DEFINE Ends == {i \in DOMAIN units : EndsLine(units[i])}
  <2>1. Ends \in SUBSET Nat /\ Ends # {}
    BY <1>1, <1>2 DEF HasLine
  <2>2. PICK m \in Ends : \A n \in Ends : m <= n
    <3> HIDE DEF Ends
    <3> QED
      BY <2>1, LeastNatural
  <2>3. /\ m \in DOMAIN units
        /\ EndsLine(units[m]) /\ \A j \in 1 .. m - 1 : ~ EndsLine(units[j])
    <3>1. ASSUME NEW j \in 1 .. m - 1 PROVE ~ EndsLine(units[j])
      <4>1. j \in DOMAIN units /\ ~ (m <= j)
        BY <1>1
      <4> QED
        BY <2>2, <4>1
    <3> QED
      BY <3>1
  <2>4. LineLength(units) \in DOMAIN units
    BY <1>2, <2>3 DEF LineLength
  <2> QED
    BY <1>1, <2>4
<1>3. CASE ~ HasLine(units)
  BY <1>1, <1>3 DEF LineLength
<1> QED
  BY <1>2, <1>3

\* The reader's buffer and its position, and nothing else, change when it is filled.
LEMMA FilledTypes ==
    ASSUME NEW task \in TaskRecords, task.inode # NoFile,
           files \in [Inodes -> Seq(Units)]
    PROVE  /\ Filled(task) \in TaskRecords
           /\ Rest(task) \in Seq(Units)
           /\ \/ Filled(task) = task
              \/ /\ Rest(task) # <<>>
                 /\ Filled(task) = [task EXCEPT !.buffer = task.buffer \o Rest(task),
                                                !.pos = Len(files[task.inode])]
<1>1. files[task.inode] \in Seq(Units) /\ task.pos \in Nat /\ task.buffer \in Seq(Units)
  BY DEF TaskRecords
<1>2. Rest(task) \in Seq(Units) /\ Len(files[task.inode]) \in Nat
  BY <1>1 DEF Rest
<1>3. task.buffer \o Rest(task) \in Seq(Units)
  BY <1>1, <1>2
<1> QED
  BY <1>2, <1>3 DEF Filled, TaskRecords

\* The record of a task that opened a file again.
Opened(task, opened, current, looked, race) ==
    [task EXCEPT !.state = "waiting", !.inode = opened, !.pos = 0, !.buffer = <<>>,
                 !.current_ino = current, !.current_offset = 0, !.seen = looked,
                 !.raced = race]

LEMMA OpenedTypes ==
    ASSUME NEW task \in TaskRecords, NEW opened \in Inodes,
           NEW current \in Inodes \cup {NoFile}, NEW looked \in Inodes \cup {NoFile},
           NEW race \in BOOLEAN
    PROVE  Opened(task, opened, current, looked, race) \in TaskRecords
<1> DEFINE none == <<>>
<1>1. none \in Seq(Units)
  OBVIOUS
<1> HIDE DEF none
<1>2. [task EXCEPT !.state = "waiting", !.inode = opened, !.pos = 0,
                   !.buffer = none, !.current_ino = current,
                   !.current_offset = 0, !.seen = looked, !.raced = race] \in TaskRecords
  BY <1>1 DEF TaskRecords
<1> QED
  BY <1>2 DEF none, Opened

\* Whatever is cut from a sequence of pieces is one.
LEMMA CutTypes ==
    ASSUME NEW s \in Seq(Units), NEW n \in 1 .. Len(s)
    PROVE  SubSeq(s, 1, n) \in Seq(Units) /\ SubSeq(s, n + 1, Len(s)) \in Seq(Units)
OBVIOUS

-----------------------------------------------------------------------------
(* The registry.                                                           *)

LEMMA LifeInit == Init => LifeInv
<1> SUFFICES ASSUME Init PROVE LifeInv
  OBVIOUS
<1> USE LogWatchAssumption DEF Init
<1>1. NoTask \in TaskRecords
  BY DEF NoTask, TaskRecords, NoFile
<1>2. TypeOK
  BY <1>1 DEF TypeOK, Inodes, Tasks, NoFile, NotWatched
<1>3. Entry /\ Rotation
  BY DEF Entry, NotWatched, Rotation, NoFile
<1>4. \A t \in Tasks : Life(t, tasks[t], judged[t])
  BY DEF Life, AtWork, NoTask
<1> QED
  BY <1>2, <1>3, <1>4 DEF LifeInv

\* What one task's step does to the others and to the registry.
LEMMA TaskSet ==
    ASSUME LifeInv, NEW t \in Tasks,
           NEW task \in TaskRecords, NEW out \in Seq(Units),
           tasks' = [tasks EXCEPT ![t] = task],
           judged' = [judged EXCEPT ![t] = out],
           UNCHANGED <<environment, configured, changes, registry>>,
           task.state # "unborn", task.aborted = tasks[t].aborted,
           Life(t, task, out)
    PROVE  LifeInv'
<1> USE DEF LifeInv, environment
<1>1. TypeOK'
  BY DEF TypeOK
<1>2. Entry' /\ Rotation'
  BY DEF Entry, TypeOK, Rotation
<1>3. ASSUME NEW u \in Tasks PROVE Life(u, tasks[u], judged[u])'
  <2>1. CASE u = t
    BY <2>1 DEF Life, TypeOK
  <2>2. CASE u # t
    BY <2>2 DEF Life, TypeOK
  <2> QED
    BY <2>1, <2>2
<1> QED
  BY <1>1, <1>2, <1>3

\* The same for a step that judges nothing.
LEMMA TaskSetOnly ==
    ASSUME LifeInv, NEW t \in Tasks, NEW task \in TaskRecords,
           Set(t, task),
           UNCHANGED <<environment, configured, changes, registry, judged>>,
           task.state # "unborn", task.aborted = tasks[t].aborted,
           Life(t, task, judged[t])
    PROVE  LifeInv'
<1>1. judged' = [judged EXCEPT ![t] = judged[t]] /\ judged[t] \in Seq(Units)
  BY DEF LifeInv, TypeOK
<1> QED
  BY <1>1, TaskSet DEF Set
\* The records of a task that is aborted and of one that is started.
LEMMA ReconciledRecords ==
    ASSUME NEW task \in TaskRecords
    PROVE  /\ LET old == [task EXCEPT !.aborted = TRUE] IN
              /\ old \in TaskRecords /\ old.aborted
              /\ old.state = task.state /\ old.inode = task.inode
              /\ old.buffer = task.buffer /\ old.missing = task.missing
           /\ LET new == [task EXCEPT !.state = "new"] IN
              /\ new \in TaskRecords /\ new.state = "new"
              /\ new.aborted = task.aborted /\ new.inode = task.inode
              /\ new.buffer = task.buffer /\ new.missing = task.missing
<1>1. [task EXCEPT !.aborted = TRUE] \in TaskRecords /\ [task EXCEPT !.state = "new"] \in TaskRecords
  BY DEF TaskRecords
<1> QED
  BY <1>1 DEF TaskRecords

\* What Reconcile does to the tasks: the old one is aborted, a new one started.
LEMMA ReconcileLife ==
    ASSUME LifeInv, Reconcile
    PROVE  LifeInv'
<1>1. /\ UNCHANGED <<files, created, path, writer, written, truncations, configured, changes, judged>>
      /\ Rotation'
      /\ configured # NotLogged => configured \in Formats
      /\ tasks \in [Tasks -> TaskRecords]
  BY DEF Reconcile, environment, LifeInv, TypeOK, Rotation
<1>2. /\ registry # NotWatched => registry.task \in Tasks
      /\ registry = NotWatched => registry.task = 0
      /\ 0 \notin Tasks
      /\ registry.task \in Tasks =>
            tasks[registry.task].state # "unborn" /\ ~ tasks[registry.task].aborted
  BY DEF LifeInv, Entry, TypeOK, NotWatched, Tasks
<1>3. Unborn # {} => NextTask \in Tasks /\ tasks[NextTask].state = "unborn"
  BY DEF Unborn, NextTask
<1>4. \A t \in Tasks : Life(t, tasks[t], judged[t])
  BY DEF LifeInv
<1>5. ASSUME tasks' \in [Tasks -> TaskRecords],
             registry' \in [format : Formats \cup {NotLogged}, task : Tasks \cup {0}]
      PROVE  TypeOK'
  BY <1>1, <1>5 DEF LifeInv, TypeOK
<1> DEFINE a == registry.task
           b == NextTask
           old == [tasks[a] EXCEPT !.aborted = TRUE]
           new == [tasks[b] EXCEPT !.state = "new"]
<1>6. CASE PruneMissing
  <2>1. a \in Tasks /\ tasks' = [tasks EXCEPT ![a] = old] /\ registry' = NotWatched
    BY <1>2, <1>6 DEF PruneMissing, Abort
  <2>2. /\ old \in TaskRecords /\ old.aborted /\ old.state = tasks[a].state
        /\ old.inode = tasks[a].inode /\ old.buffer = tasks[a].buffer
        /\ old.missing = tasks[a].missing
    BY <1>1, <2>1, ReconciledRecords
  <2> HIDE DEF old
  <2>3. TypeOK'
    BY <1>1, <1>5, <2>1, <2>2 DEF NotWatched
  <2>4. Entry'
    BY <2>1 DEF Entry, NotWatched
  <2>5. ASSUME NEW t \in Tasks PROVE Life(t, tasks[t], judged[t])'
    <3>1. CASE t = a
      BY <1>1, <1>2, <1>4, <2>1, <2>2, <3>1 DEF Life, AtWork
    <3>2. CASE t # a
      BY <1>1, <1>2, <1>4, <2>1, <3>2 DEF Life, AtWork
    <3> QED
      BY <3>1, <3>2
  <2> QED
    BY <1>1, <2>3, <2>4, <2>5 DEF LifeInv
<1>7. CASE AddWatcher
  <2>1. /\ b \in Tasks /\ tasks[b].state = "unborn"
        /\ tasks' = [tasks EXCEPT ![b] = new]
        /\ registry' = [format |-> configured, task |-> b]
        /\ a \notin Tasks /\ configured \in Formats
    BY <1>1, <1>2, <1>3, <1>7 DEF AddWatcher
  <2>2. /\ new \in TaskRecords /\ new.state = "new" /\ new.aborted = tasks[b].aborted
        /\ new.inode = tasks[b].inode /\ new.buffer = tasks[b].buffer
        /\ new.missing = tasks[b].missing
    BY <1>1, <2>1, ReconciledRecords
  <2> HIDE DEF new, b
  <2>3. TypeOK'
    BY <1>1, <1>5, <2>1, <2>2
  <2>4. Entry'
    BY <1>1, <1>2, <1>4, <2>1, <2>2 DEF Entry, Life
  <2>5. ASSUME NEW t \in Tasks PROVE Life(t, tasks[t], judged[t])'
    <3>1. CASE t = b
      BY <1>1, <1>2, <1>4, <2>1, <2>2, <3>1 DEF Life, AtWork
    <3>2. CASE t # b
      BY <1>1, <1>2, <1>4, <2>1, <3>2 DEF Life, AtWork
    <3> QED
      BY <3>1, <3>2
  <2> QED
    BY <1>1, <2>3, <2>4, <2>5 DEF LifeInv
<1>8. CASE UpdateWatcher
  <2>1. /\ a \in Tasks /\ b \in Tasks /\ tasks[b].state = "unborn" /\ a # b
        /\ configured \in Formats
    BY <1>1, <1>2, <1>3, <1>8 DEF UpdateWatcher
  <2>2. /\ tasks' = [[tasks EXCEPT ![a] = old] EXCEPT ![b] = new]
        /\ registry' = [format |-> configured, task |-> b]
    BY <1>1, <1>8, <2>1 DEF UpdateWatcher, Abort
  <2>3. /\ old \in TaskRecords /\ old.aborted /\ old.state = tasks[a].state
        /\ old.inode = tasks[a].inode /\ old.buffer = tasks[a].buffer
        /\ old.missing = tasks[a].missing
    BY <1>1, <2>1, ReconciledRecords
  <2>4. /\ new \in TaskRecords /\ new.state = "new" /\ new.aborted = tasks[b].aborted
        /\ new.inode = tasks[b].inode /\ new.buffer = tasks[b].buffer
        /\ new.missing = tasks[b].missing
    BY <1>1, <2>1, ReconciledRecords
  <2> HIDE DEF old, new, b
  <2>5. /\ tasks'[a] = old /\ tasks'[b] = new
        /\ \A t \in Tasks : t # a /\ t # b => tasks'[t] = tasks[t]
    BY <1>1, <2>1, <2>2
  <2>6. TypeOK'
    BY <1>1, <1>5, <2>1, <2>2, <2>3, <2>4
  <2>7. Entry'
    BY <1>2, <1>4, <2>1, <2>2, <2>4, <2>5 DEF Entry, Life
  <2>8. ASSUME NEW t \in Tasks PROVE Life(t, tasks[t], judged[t])'
    <3>1. CASE t = a
      BY <1>1, <1>2, <1>4, <2>1, <2>2, <2>3, <2>5, <3>1 DEF Life, AtWork
    <3>2. CASE t = b
      BY <1>1, <1>2, <1>4, <2>1, <2>2, <2>4, <2>5, <3>2 DEF Life, AtWork
    <3>3. CASE t # a /\ t # b
      BY <1>1, <1>2, <1>4, <2>1, <2>2, <2>5, <3>3 DEF Life, AtWork
    <3> QED
      BY <3>1, <3>2, <3>3
  <2> QED
    BY <1>1, <2>6, <2>7, <2>8 DEF LifeInv
<1> QED
  BY <1>6, <1>7, <1>8 DEF Reconcile

\* A task at work has a file.
LEMMA WorksOnAFile ==
    ASSUME LifeInv, NEW t \in Tasks, AtWork(tasks[t])
    PROVE  /\ tasks[t] \in TaskRecords
           /\ tasks[t].inode \in Inodes /\ tasks[t].inode # NoFile
           /\ files[tasks[t].inode] \in Seq(Units)
           /\ ~ tasks[t].missing
           /\ judged[t] \in Seq(Units)
BY DEF LifeInv, TypeOK, Life, AtWork, TaskRecords

LEMMA TaskStepLife ==
    ASSUME LifeInv, NEW t \in Tasks, TaskStep(t)
    PROVE  LifeInv'
<1> DEFINE task == tasks[t]
<1>1. /\ task \in TaskRecords /\ Life(t, task, judged[t]) /\ judged[t] \in Seq(Units)
      /\ files \in [Inodes -> Seq(Units)]
      /\ path # NoFile => path \in Inodes /\ files[path] \in Seq(Units)
      /\ path \in Inodes \cup {NoFile}
  BY DEF LifeInv, TypeOK
<1>2. CASE Start(t)
  <2>1. CASE path = NoFile
    <3> DEFINE next == [task EXCEPT !.state = "ended", !.missing = TRUE]
    <3>1. next \in TaskRecords
      BY <1>1 DEF TaskRecords
    <3>2. Set(t, next) /\ Life(t, next, judged[t])
      BY <1>1, <1>2, <2>1 DEF Start, Life, AtWork, TaskRecords
    <3>3. next.state # "unborn" /\ next.aborted = task.aborted
      BY <1>1 DEF TaskRecords
    <3> QED
      BY <1>2, <3>1, <3>2, <3>3, TaskSetOnly DEF Start
  <2>2. CASE path # NoFile
    <3> DEFINE next == [task EXCEPT !.state = "reading", !.inode = path, !.current_ino = path,
                                    !.pos = Len(files[path]),
                                    !.current_offset = Len(files[path])]
    <3>1. next \in TaskRecords
      <4>1. Len(files[path]) \in Nat /\ path \in Inodes \cup {NoFile}
        BY <1>1, <2>2
      <4> QED
        BY <1>1, <4>1 DEF TaskRecords
    <3>2. Set(t, next) /\ Life(t, next, judged[t])
      BY <1>1, <1>2, <2>2 DEF Start, Life, AtWork, TaskRecords
    <3>3. next.state # "unborn" /\ next.aborted = task.aborted
      BY <1>1 DEF TaskRecords
    <3> QED
      BY <1>2, <3>1, <3>2, <3>3, TaskSetOnly DEF Start
  <2> QED
    BY <2>1, <2>2
<1>3. CASE EndOfFile(t)
  <2> DEFINE next == [task EXCEPT !.state = "checking"]
  <2>1. next \in TaskRecords /\ next.state # "unborn" /\ next.aborted = task.aborted
    BY <1>1 DEF TaskRecords
  <2>2. Set(t, next) /\ Life(t, next, judged[t])
    BY <1>1, <1>3 DEF EndOfFile, Runs, Life, AtWork, TaskRecords
  <2> QED
    BY <1>3, <2>1, <2>2, TaskSetOnly DEF EndOfFile
<1>4. CASE ReadLine(t)
  <2> DEFINE filled == Filled(task)
             length == LineLength(filled.buffer)
             line == SubSeq(filled.buffer, 1, length)
             rest == SubSeq(filled.buffer, length + 1, Len(filled.buffer))
  <2>1. AtWork(task) /\ filled.buffer # <<>>
    BY <1>4 DEF ReadLine, Runs, AtWork
  <2>2. task.inode \in Inodes /\ task.inode # NoFile /\ ~ task.missing
    BY <2>1, WorksOnAFile
  <2>3. /\ filled \in TaskRecords
        /\ filled.state = task.state /\ filled.aborted = task.aborted
        /\ filled.missing = task.missing /\ filled.inode = task.inode
    <3> HIDE DEF task
    <3> QED
      BY <1>1, <2>2, FilledTypes DEF TaskRecords
  <2>4. filled.buffer \in Seq(Units) /\ filled.current_offset \in Nat
    BY <2>3 DEF TaskRecords
  <2>5. length \in 1 .. Len(filled.buffer)
    BY <2>1, <2>4, LineLengthRange
  <2>6. line \in Seq(Units) /\ rest \in Seq(Units)
    <3> HIDE DEF length, filled
    <3> QED
      BY <2>4, <2>5, CutTypes
  <2>7. length \in Nat
    BY <2>4, <2>5
  <2>8. CASE LineOf(line[1]) \in Garbled
    <3> DEFINE next == [filled EXCEPT !.buffer = rest, !.state = "waiting"]
    <3>1. Set(t, next) /\ UNCHANGED <<environment, configured, changes, registry, judged>>
      BY <1>4, <2>8 DEF ReadLine
    <3> HIDE DEF filled, rest, length
    <3>2. next \in TaskRecords /\ next.state # "unborn" /\ next.aborted = task.aborted
      BY <2>3, <2>6 DEF TaskRecords
    <3>3. Life(t, next, judged[t])
      BY <1>1, <2>1, <2>2, <2>3 DEF Life, AtWork, TaskRecords
    <3> QED
      BY <3>1, <3>2, <3>3, TaskSetOnly
  <2>9. CASE LineOf(line[1]) \notin Garbled
    <3>1. PICK then \in {"reading", "waiting"} :
            Set(t, [filled EXCEPT !.buffer = rest, !.state = then,
                                  !.current_offset = @ + length])
      BY <1>4, <2>9 DEF ReadLine
    <3> DEFINE next == [filled EXCEPT !.buffer = rest, !.state = then,
                                      !.current_offset = @ + length]
               out == judged[t] \o line
    <3>2. /\ judged' = [judged EXCEPT ![t] = out]
          /\ UNCHANGED <<environment, configured, changes, registry>>
      BY <1>4, <2>9 DEF ReadLine
    <3> HIDE DEF filled, rest, length, line
    <3>3. next \in TaskRecords /\ next.state # "unborn" /\ next.aborted = task.aborted
      <4> DEFINE offset == filled.current_offset + length
      <4>1. offset \in Nat
        BY <2>4, <2>7
      <4> HIDE DEF offset
      <4>2. [filled EXCEPT !.buffer = rest, !.state = then, !.current_offset = offset] \in TaskRecords
        BY <2>3, <2>6, <4>1 DEF TaskRecords
      <4>3. next \in TaskRecords
        BY <4>2 DEF offset
      <4>4. next.state = then /\ next.aborted = filled.aborted
        BY <2>3 DEF TaskRecords
      <4> QED
        BY <2>3, <4>3, <4>4
    <3>4. out \in Seq(Units)
      BY <1>1, <2>6
    <3>5. Life(t, next, out)
      BY <1>1, <2>1, <2>2, <2>3 DEF Life, AtWork, TaskRecords
    <3> QED
      BY <3>1, <3>2, <3>3, <3>4, <3>5, TaskSet DEF Set
  <2> QED
    BY <2>8, <2>9
<1>5. CASE Stat(t)
  <2>1. PICK next \in {[task EXCEPT !.state = "waiting"], [task EXCEPT !.state = "truncated"],
                       [task EXCEPT !.state = "replaced", !.seen = path]} : Set(t, next)
    BY <1>5, <1>1 DEF Stat
  <2>2. next \in TaskRecords /\ next.state # "unborn" /\ next.aborted = task.aborted
    <3>1. CASE next = [task EXCEPT !.state = "waiting"]
      BY <1>1, <3>1 DEF TaskRecords
    <3>2. CASE next = [task EXCEPT !.state = "truncated"]
      BY <1>1, <3>2 DEF TaskRecords
    <3>3. CASE next = [task EXCEPT !.state = "replaced", !.seen = path]
      BY <1>1, <3>3 DEF TaskRecords
    <3> QED
      BY <2>1, <3>1, <3>2, <3>3
  <2>3. Life(t, next, judged[t])
    BY <1>1, <1>5, <2>1 DEF Stat, Life, AtWork, TaskRecords
  <2> QED
    BY <1>5, <2>1, <2>2, <2>3, TaskSetOnly DEF Stat
<1>6. CASE OpenReplaced(t)
  <2> DEFINE same == [task EXCEPT !.state = "waiting", !.seen = NoFile]
             race == task.raced \/ path # task.seen
             other == Opened(task, path, task.seen, NoFile, race)
  <2>1. CASE path = NoFile
    <3>1. same \in TaskRecords /\ same.state # "unborn" /\ same.aborted = task.aborted
      BY <1>1 DEF TaskRecords
    <3>2. Set(t, same) /\ Life(t, same, judged[t])
      BY <1>1, <1>6, <2>1 DEF OpenReplaced, Life, AtWork, TaskRecords
    <3> QED
      BY <1>6, <3>1, <3>2, TaskSetOnly DEF OpenReplaced
  <2>2. CASE path # NoFile
    <3>1. race \in BOOLEAN /\ task.seen \in Inodes \cup {NoFile} /\ path \in Inodes
      BY <1>1, <2>2 DEF TaskRecords
    <3>2. other \in TaskRecords
      <4> HIDE DEF race, task
      <4> QED
        BY <1>1, <3>1, OpenedTypes, Zenon
    <3>3. /\ other.state = "waiting" /\ other.aborted = task.aborted
          /\ other.missing = task.missing /\ other.inode = path
      BY <1>1 DEF Opened, TaskRecords
    <3>4. Set(t, other)
      BY <1>6, <2>2 DEF OpenReplaced, Opened
    <3>5. Life(t, other, judged[t])
      <4> HIDE DEF other
      <4> QED
        BY <1>1, <1>6, <2>2, <3>3 DEF OpenReplaced, Life, AtWork
    <3> QED
      BY <1>6, <3>2, <3>3, <3>4, <3>5, TaskSetOnly DEF OpenReplaced
  <2> QED
    BY <2>1, <2>2
<1>7. CASE OpenTruncated(t)
  <2> DEFINE opened == IF path = NoFile THEN task.inode ELSE path
             race == task.raced \/ opened # task.current_ino
             next == Opened(task, opened, task.current_ino, task.seen, race)
  <2>1. opened \in Inodes /\ opened # NoFile
    BY <1>1, <1>7, WorksOnAFile DEF OpenTruncated, AtWork
  <2>2. next = [task EXCEPT !.state = "waiting", !.inode = opened, !.pos = 0,
                            !.buffer = <<>>, !.current_offset = 0,
                            !.raced = race]
    BY <1>1 DEF TaskRecords, Opened
  <2>3. Set(t, next)
    BY <1>7, <2>2 DEF OpenTruncated
  <2>4. next \in TaskRecords
    <3>1. race \in BOOLEAN
      OBVIOUS
    <3>2. task.current_ino \in Inodes \cup {NoFile} /\ task.seen \in Inodes \cup {NoFile}
      BY <1>1 DEF TaskRecords
    <3> HIDE DEF race, opened, task
    <3> QED
      BY <1>1, <2>1, <3>1, <3>2, OpenedTypes, Zenon
  <2>5. /\ next.state = "waiting" /\ next.aborted = task.aborted
        /\ next.missing = task.missing /\ next.inode = opened
    <3> HIDE DEF race, opened
    <3> QED
      BY <1>1 DEF Opened, TaskRecords
  <2>6. Life(t, next, judged[t])
    <3> HIDE DEF next
    <3> QED
      BY <1>1, <1>7, <2>1, <2>5 DEF OpenTruncated, Life, AtWork
  <2> QED
    BY <1>7, <2>3, <2>4, <2>5, <2>6, TaskSetOnly DEF OpenTruncated
<1>8. CASE Cancel(t)
  <2> DEFINE next == [task EXCEPT !.state = "ended"]
  <2>1. next \in TaskRecords /\ next.state # "unborn" /\ next.aborted = task.aborted
    BY <1>1 DEF TaskRecords
  <2>2. Set(t, next) /\ Life(t, next, judged[t])
    BY <1>1, <1>8 DEF Cancel, Life, AtWork, TaskRecords
  <2> QED
    BY <1>8, <2>1, <2>2, TaskSetOnly DEF Cancel
<1> QED
  BY <1>2, <1>3, <1>4, <1>5, <1>6, <1>7, <1>8 DEF TaskStep
\* nginx, logrotate and the administrator leave the watchers and the registry
\* alone.
LEMMA EnvironmentLife ==
    ASSUME LifeInv, Write \/ Rename \/ Create \/ Reopen \/ CopyTruncate \/ Configure
    PROVE  LifeInv'
<1> USE LogWatchAssumption
<1>1. UNCHANGED <<registry, tasks, judged>>
  BY DEF Write, Rename, Create, Reopen, CopyTruncate, Configure
<1>2. Entry' /\ \A t \in Tasks : Life(t, tasks[t], judged[t])'
  BY <1>1 DEF LifeInv, Entry, Life
<1>3. TypeOK /\ Rotation
  BY DEF LifeInv
<1>4. CASE Write
  <2>1. written + 1 \in Units /\ written' \in 0 .. 2 * MaxLines
    BY <1>3, <1>4 DEF Write, TypeOK, Units
  <2>2. files' \in [Inodes -> Seq(Units)]
    BY <1>3, <1>4, <2>1 DEF Write, TypeOK
  <2> QED
    BY <1>1, <1>2, <1>3, <1>4, <2>1, <2>2 DEF Write, LifeInv, TypeOK, Rotation
<1>5. CASE Rename
  BY <1>1, <1>2, <1>3, <1>5 DEF Rename, LifeInv, TypeOK, Rotation, NoFile
<1>6. CASE Create \/ Reopen
  <2>1. path' \in Inodes \cup {NoFile} /\ created' \in Inodes /\ writer' \in Inodes
    BY <1>3, <1>6 DEF Create, Reopen, TypeOK, Inodes, NoFile, Rotation
  <2>2. Rotation'
    BY <1>3, <1>6 DEF Create, Reopen, TypeOK, Inodes, NoFile, Rotation
  <2> QED
    BY <1>1, <1>2, <1>3, <1>6, <2>1, <2>2 DEF Create, Reopen, LifeInv, TypeOK
<1>7. CASE CopyTruncate
  BY <1>1, <1>2, <1>3, <1>7 DEF CopyTruncate, LifeInv, TypeOK, Rotation
<1>8. CASE Configure
  BY <1>1, <1>2, <1>3, <1>8 DEF Configure, environment, LifeInv, TypeOK, Rotation
<1> QED
  BY <1>4, <1>5, <1>6, <1>7, <1>8

LEMMA LifeNext == LifeInv /\ [Next]_vars => LifeInv'
<1> SUFFICES ASSUME LifeInv, [Next]_vars PROVE LifeInv'
  OBVIOUS
<1>1. CASE Write \/ Rename \/ Create \/ Reopen \/ CopyTruncate \/ Configure
  BY <1>1, EnvironmentLife
<1>2. CASE Reconcile
  BY <1>2, ReconcileLife
<1>3. CASE \E t \in Tasks : TaskStep(t)
  BY <1>3, TaskStepLife
<1>4. CASE UNCHANGED vars
  BY <1>4 DEF vars, environment, LifeInv, TypeOK, Entry, Life, Rotation
<1> QED
  BY <1>1, <1>2, <1>3, <1>4 DEF Next

LEMMA LifeInvariant == Spec => []LifeInv
<1> QED
  BY LifeInit, LifeNext, PTL DEF Spec

\* Every variable has its type in every behaviour.
THEOREM LogWatchTypes == Spec => []TypeOK
<1>1. LifeInv => TypeOK
  BY DEF LifeInv
<1> QED
  BY LifeInvariant, <1>1, PTL

\* What runs unaborted is what the registry can abort, and what the registry
\* counts as watched is, or had no file to watch.
THEOREM RegistryAlwaysHoldsTheTask == Spec => []RegistryHoldsTheTask
<1>1. LifeInv => RegistryHoldsTheTask
  <2> SUFFICES ASSUME LifeInv PROVE RegistryHoldsTheTask
    OBVIOUS
  <2>1. registry.task # 0 => registry.task \in Tasks
    BY DEF LifeInv, TypeOK
  <2> QED
    BY <2>1 DEF LifeInv, Entry, Life, RegistryHoldsTheTask
<1> QED
  BY LifeInvariant, <1>1, PTL

\* Two watchers judge the same line only while one of them is being stopped.
THEOREM OnlyHandoverJudgesTwice == Spec => []TwiceOnlyInHandover
<1>1. LifeInv => TwiceOnlyInHandover
  <2> SUFFICES ASSUME LifeInv, NEW t \in Tasks, NEW u \in Tasks, t # u,
                      ~ tasks[t].aborted, ~ tasks[u].aborted,
                      NEW i \in DOMAIN judged[t], NEW j \in DOMAIN judged[u]
               PROVE  FALSE
    BY DEF TwiceOnlyInHandover
  <2>1. ASSUME NEW v \in Tasks, ~ tasks[v].aborted, judged[v] # <<>>
        PROVE  registry.task = v
    BY <2>1 DEF LifeInv, Life
  <2>2. judged[t] # <<>> /\ judged[u] # <<>>
    OBVIOUS
  <2> QED
    BY <2>1, <2>2
<1> QED
  BY LifeInvariant, <1>1, PTL
-----------------------------------------------------------------------------
(* The order of what is judged.                                            *)

LEMMA UnitsAreNumbers ==
    ASSUME NEW s \in Seq(Units)
    PROVE  s \in Seq(Nat) /\ Len(s) \in Nat /\ DOMAIN s = 1 .. Len(s)
BY LogWatchAssumption DEF Units

LEMMA NothingIsInOrder ==
    /\ Increasing(<<>>)
    /\ \A n \in Nat : AtMost(<<>>, n)
    /\ \A s : Before(s, <<>>) /\ Before(<<>>, s)
    /\ \A task : Ahead(<<>>, task)
BY DEF Increasing, AtMost, Before, Ahead

\* The next piece of the log comes after what was written before it.
LEMMA AppendInOrder ==
    ASSUME NEW s \in Seq(Nat), NEW n \in Nat, AtMost(s, n)
    PROVE  /\ Append(s, n + 1) \in Seq(Nat)
           /\ AtMost(Append(s, n + 1), n + 1)
           /\ Increasing(s) => Increasing(Append(s, n + 1))
           /\ \A u \in Seq(Nat) : AtMost(u, n) /\ Before(u, s) => Before(u, Append(s, n + 1))
<1> DEFINE a == Append(s, n + 1)
<1>1. /\ a \in Seq(Nat) /\ DOMAIN s = 1 .. Len(s) /\ Len(s) \in Nat
      /\ DOMAIN a = 1 .. Len(s) + 1
      /\ \A i \in 1 .. Len(s) + 1 : a[i] = IF i <= Len(s) THEN s[i] ELSE n + 1
  OBVIOUS
<1> HIDE DEF a
<1>2. \A i \in DOMAIN s : s[i] \in Nat
  OBVIOUS
<1>3. ASSUME NEW i \in DOMAIN a
      PROVE  (i \in DOMAIN s /\ a[i] = s[i] /\ s[i] <= n) \/ (i = Len(s) + 1 /\ a[i] = n + 1)
  BY <1>1 DEF AtMost
<1>4. AtMost(a, n + 1)
  BY <1>2, <1>3 DEF AtMost
<1>5. ASSUME Increasing(s) PROVE Increasing(a)
  BY <1>1, <1>2, <1>3, <1>5 DEF Increasing
<1>6. ASSUME NEW u \in Seq(Nat), AtMost(u, n), Before(u, s) PROVE Before(u, a)
  <2> SUFFICES ASSUME NEW i \in DOMAIN u, NEW j \in DOMAIN a PROVE u[i] < a[j]
    BY DEF Before
  <2>1. u[i] \in Nat /\ u[i] <= n
    BY <1>6 DEF AtMost
  <2> QED
    BY <1>3, <1>6, <2>1 DEF Before
<1> QED
  BY <1>1, <1>4, <1>5, <1>6 DEF a

\* What is true of all of both is true of all of their concatenation.
LEMMA ConcatElements ==
    ASSUME NEW s \in Seq(Nat), NEW u \in Seq(Nat), NEW k \in DOMAIN (s \o u)
    PROVE  \/ \E i \in DOMAIN s : (s \o u)[k] = s[i]
           \/ \E i \in DOMAIN u : (s \o u)[k] = u[i]
<1>1. /\ DOMAIN s = 1 .. Len(s) /\ Len(s) \in Nat
      /\ DOMAIN u = 1 .. Len(u) /\ Len(u) \in Nat
      /\ DOMAIN (s \o u) = 1 .. Len(s) + Len(u)
      /\ (s \o u)[k] = IF k <= Len(s) THEN s[k] ELSE u[k - Len(s)]
  OBVIOUS
<1>2. CASE k <= Len(s)
  BY <1>1, <1>2
<1>3. CASE ~ (k <= Len(s))
  <2>1. k - Len(s) \in DOMAIN u /\ (s \o u)[k] = u[k - Len(s)]
    BY <1>1, <1>3
  <2> QED
    BY <2>1
<1> QED
  BY <1>2, <1>3

\* What both have read of a file, and the one after the other.
LEMMA AheadConcat ==
    ASSUME NEW s \in Seq(Nat), NEW u \in Seq(Nat)
    PROVE  /\ \A n \in Nat : AtMost(s, n) /\ AtMost(u, n) => AtMost(s \o u, n)
           /\ \A task : Ahead(s, task) /\ Ahead(u, task) => Ahead(s \o u, task)
<1>1. ASSUME NEW n, AtMost(s, n), AtMost(u, n) PROVE AtMost(s \o u, n)
  <2> SUFFICES ASSUME NEW k \in DOMAIN (s \o u) PROVE (s \o u)[k] <= n
    BY DEF AtMost
  <2> QED
    BY <1>1, ConcatElements DEF AtMost
<1>2. ASSUME NEW v, Before(s, v), Before(u, v) PROVE Before(s \o u, v)
  <2> SUFFICES ASSUME NEW k \in DOMAIN (s \o u), NEW j \in DOMAIN v PROVE (s \o u)[k] < v[j]
    BY DEF Before
  <2> QED
    BY <1>2, ConcatElements DEF Before
<1>3. ASSUME NEW task, Ahead(s, task), Ahead(u, task) PROVE Ahead(s \o u, task)
  BY <1>1, <1>2, <1>3 DEF Ahead
<1> QED
  BY <1>1, <1>3

\* The same of what is cut from a sequence.
LEMMA AheadCut ==
    ASSUME NEW s \in Seq(Nat), NEW a \in Seq(Nat),
           \A i \in DOMAIN a : \E j \in DOMAIN s : a[i] = s[j]
    PROVE  /\ \A n \in Nat : AtMost(s, n) => AtMost(a, n)
           /\ \A task : Ahead(s, task) => Ahead(a, task)
<1>1. ASSUME NEW n, AtMost(s, n) PROVE AtMost(a, n)
  BY <1>1 DEF AtMost
<1>2. ASSUME NEW v, Before(s, v) PROVE Before(a, v)
  BY <1>2 DEF Before
<1>3. ASSUME NEW task, Ahead(s, task) PROVE Ahead(a, task)
  BY <1>1, <1>2, <1>3 DEF Ahead
<1> QED
  BY <1>1, <1>3
LEMMA OrderInit == Init => OrderInv
<1> SUFFICES ASSUME Init PROVE OrderInv
  OBVIOUS
<1>1. LifeInv
  BY LifeInit
<1>2. FilesInOrder
  BY NothingIsInOrder DEF Init, FilesInOrder
<1>3. ASSUME NEW t \in Tasks PROVE Reader(tasks[t], judged[t])
  BY NothingIsInOrder DEF Init, Reader, NoTask, AtWork
<1> QED
  BY <1>1, <1>2, <1>3 DEF OrderInv

\* A file that does not grow leaves what was read ahead of what is to be read.
LEMMA ReaderKept ==
    ASSUME OrderInv, LifeInv', NEW t \in Tasks, ~ tasks[t].raced,
           UNCHANGED <<written, tasks, judged>>, created <= created',
           \A i \in Inodes : files'[i] = files[i] \/ files'[i] = <<>>
    PROVE  Reader(tasks[t], judged[t])'
<1> DEFINE task == tasks[t]
           out == judged[t]
<1>1. Reader(task, out)
  BY DEF OrderInv
<1>2. CASE ~ AtWork(task)
  BY <1>1, <1>2 DEF Reader, AtWork
<1>3. CASE AtWork(task)
  <2>1. task.inode \in Inodes /\ created \in Nat /\ created' \in Nat
    BY <1>3, WorksOnAFile DEF OrderInv, LifeInv, TypeOK, Inodes
  <2>2. ASSUME NEW s, Ahead(s, task) PROVE Ahead(s, task)'
    <3>1. ASSUME NEW i \in Inodes, i > task.inode PROVE Before(s, files[i])'
      BY <2>2, <3>1, NothingIsInOrder DEF Ahead, Before
    <3>2. ASSUME NEW k \in DOMAIN files'[task.inode],
                 k > task.pos \/ Len(files'[task.inode]) < task.pos
          PROVE  AtMost(s, files'[task.inode][k] - 1)
      BY <2>1, <2>2, <3>2 DEF Ahead
    <3> QED
      BY <3>1, <3>2 DEF Ahead, AtMost
  <2>3. Before(out, files[task.inode]) => Before(out, files'[task.inode])
    BY <2>1, NothingIsInOrder
  <2>4. task.inode <= created => task.inode <= created'
    BY <2>1 DEF Inodes
  <2> QED
    BY <1>1, <1>3, <2>2, <2>3, <2>4 DEF Reader, AtWork, Increasing, AtMost, Before
<1> QED
  BY <1>2, <1>3

\* nginx writes the next piece of the log to the file it has open.
LEMMA WriteOrder ==
    ASSUME OrderInv, LifeInv', Write
    PROVE  OrderInv'
<1> DEFINE grown == Append(files[writer], written + 1)
<1>1. /\ \A i \in Inodes : files[i] \in Seq(Units)
      /\ files[writer] \in Seq(Nat) /\ writer \in Inodes
      /\ written \in Nat /\ written' = written + 1 /\ AtMost(files[writer], written)
      /\ \A i \in Inodes : files'[i] = IF i = writer THEN grown ELSE files[i]
      /\ UNCHANGED <<created, writer, tasks, judged>>
  BY UnitsAreNumbers DEF OrderInv, LifeInv, TypeOK, FilesInOrder, Write
<1>2. /\ grown \in Seq(Nat) /\ AtMost(grown, written + 1)
      /\ Increasing(files[writer]) => Increasing(grown)
      /\ \A u \in Seq(Nat) : AtMost(u, written) /\ Before(u, files[writer]) => Before(u, grown)
      /\ Len(grown) = Len(files[writer]) + 1 /\ Len(files[writer]) \in Nat
      /\ DOMAIN grown = 1 .. Len(files[writer]) + 1
      /\ \A k \in DOMAIN grown :
            grown[k] = IF k \in DOMAIN files[writer] THEN files[writer][k] ELSE written + 1
  BY <1>1, AppendInOrder
<1> HIDE DEF grown
<1>3. ASSUME NEW s \in Seq(Nat), AtMost(s, written) PROVE AtMost(s, written + 1)
  BY <1>1, <1>3 DEF AtMost
<1>4. FilesInOrder'
  <2>1. writer' <= created'
    BY <1>1 DEF OrderInv, FilesInOrder
  <2>2. ASSUME NEW i \in Inodes
        PROVE  /\ Increasing(files'[i]) /\ AtMost(files'[i], written')
               /\ i > writer' => files'[i] = <<>>
    <3>1. CASE i = writer
      BY <1>1, <1>2, <3>1 DEF OrderInv, FilesInOrder, Inodes
    <3>2. CASE i # writer
      BY <1>1, <1>3, <3>2, UnitsAreNumbers DEF OrderInv, FilesInOrder
    <3> QED
      BY <3>1, <3>2
  <2>3. ASSUME NEW i \in Inodes, NEW j \in Inodes, i < j
        PROVE  Before(files'[i], files'[j])
    <3>1. CASE j = writer
      <4>1. files[i] \in Seq(Nat) /\ AtMost(files[i], written) /\ Before(files[i], files[writer])
        BY <1>1, <2>3, <3>1, UnitsAreNumbers DEF OrderInv, FilesInOrder
      <4>2. files'[i] = files[i] /\ files'[j] = grown
        BY <1>1, <2>3, <3>1 DEF Inodes
      <4> QED
        BY <1>2, <4>1, <4>2
    <3>2. CASE i = writer
      <4>1. files'[j] = <<>>
        BY <1>1, <2>3, <3>2 DEF OrderInv, FilesInOrder, Inodes
      <4> QED
        BY <4>1, NothingIsInOrder
    <3>3. CASE i # writer /\ j # writer
      BY <1>1, <2>3, <3>3 DEF OrderInv, FilesInOrder
    <3> QED
      BY <3>1, <3>2, <3>3
  <2> QED
    BY <2>1, <2>2, <2>3 DEF FilesInOrder, Increasing, AtMost, Before
<1>5. ASSUME NEW t \in Tasks, ~ tasks[t].raced PROVE Reader(tasks[t], judged[t])'
  <2> DEFINE task == tasks[t]
             out == judged[t]
  <2>1. Reader(task, out) /\ out \in Seq(Nat) /\ task.buffer \in Seq(Nat)
    BY <1>5, UnitsAreNumbers DEF OrderInv, LifeInv, TypeOK, TaskRecords
  <2>2. AtMost(out, written + 1)
    BY <1>3, <2>1 DEF Reader
  <2>3. CASE ~ AtWork(task)
    BY <1>1, <2>1, <2>2, <2>3 DEF Reader, AtWork, Increasing, AtMost
  <2>4. CASE AtWork(task)
    <3>1. task.inode \in Inodes /\ task.pos \in Nat
      BY <2>4, WorksOnAFile DEF OrderInv, TaskRecords
    <3>2. ASSUME NEW s \in Seq(Nat), AtMost(s, written), NEW i \in Inodes, Before(s, files[i])
          PROVE  Before(s, files'[i])
      BY <1>1, <1>2, <3>2
    <3>3. ASSUME NEW s \in Seq(Nat), AtMost(s, written), Ahead(s, task)
          PROVE  Ahead(s, task)'
      <4>1. ASSUME NEW i \in Inodes, i > task.inode PROVE Before(s, files'[i])
        BY <3>2, <3>3, <4>1 DEF Ahead
      <4>2. ASSUME NEW k \in DOMAIN files'[task.inode],
                   k > task.pos \/ Len(files'[task.inode]) < task.pos
            PROVE  AtMost(s, files'[task.inode][k] - 1)
        <5>1. CASE task.inode # writer
          BY <1>1, <3>1, <3>3, <4>2, <5>1 DEF Ahead
        <5>2. CASE task.inode = writer /\ k \in DOMAIN files[writer]
          <6>1. files'[task.inode] = grown /\ grown[k] = files[writer][k]
            <7>1. files'[task.inode] = grown
              BY <1>1, <3>1, <5>2
            <7> QED
              BY <1>2, <4>2, <5>2, <7>1
          <6>2. k > task.pos \/ Len(files[writer]) < task.pos
            BY <1>2, <3>1, <4>2, <6>1
          <6> QED
            BY <3>3, <5>2, <6>1, <6>2 DEF Ahead
        <5>3. CASE task.inode = writer /\ k \notin DOMAIN files[writer]
          <6>1. files'[task.inode][k] - 1 = written
            <7>1. files'[task.inode] = grown
              BY <1>1, <3>1, <5>3
            <7>2. grown[k] = written + 1
              BY <1>2, <4>2, <5>3, <7>1
            <7> QED
              BY <1>1, <7>1, <7>2
          <6> QED
            BY <3>3, <6>1
        <5> QED
          BY <5>1, <5>2, <5>3
      <4> QED
        BY <1>1, <4>1, <4>2 DEF Ahead, Before, AtMost
    <3>4. AtMost(out, written) /\ AtMost(task.buffer, written)
      BY <2>1, <2>4 DEF Reader
    <3>5. Ahead(out, task)' /\ Ahead(task.buffer, task)'
      BY <1>1, <2>1, <2>4, <3>3, <3>4 DEF Reader, Ahead
    <3>6. task.state = "truncated" => Before(out, files'[task.inode])
      BY <2>1, <2>4, <3>1, <3>2, <3>4 DEF Reader
    <3>7. AtMost(task.buffer, written + 1)
      BY <1>3, <2>1, <3>4
    <3> QED
      BY <1>1, <2>1, <2>2, <2>4, <3>5, <3>6, <3>7 DEF Reader, AtWork, Increasing, AtMost, Before
  <2> QED
    BY <2>3, <2>4
<1> QED
  BY <1>1, <1>4, <1>5 DEF OrderInv
\* Renames, truncations and a reopened log leave less to be read, not more.
LEMMA RotateOrder ==
    ASSUME OrderInv, LifeInv', Rename \/ Create \/ Reopen \/ CopyTruncate \/ Configure
    PROVE  OrderInv'
<1>1. UNCHANGED <<written, tasks, judged>>
  BY DEF Rename, Create, Reopen, CopyTruncate, Configure, environment
<1>2. /\ \A i \in Inodes : files'[i] = files[i] \/ files'[i] = <<>>
      /\ created \in Nat /\ created' \in Nat /\ created <= created'
      /\ writer \in Nat /\ writer <= writer' /\ writer' \in Nat /\ writer' <= created'
  BY DEF OrderInv, LifeInv, TypeOK, Rotation, FilesInOrder, Inodes, NoFile,
         Rename, Create, Reopen, CopyTruncate, Configure, environment
<1>3. FilesInOrder'
  <2>1. ASSUME NEW i \in Inodes
        PROVE  /\ Increasing(files'[i]) /\ AtMost(files'[i], written')
               /\ i > writer' => files'[i] = <<>>
    <3>1. /\ Increasing(files[i]) /\ AtMost(files[i], written) /\ written \in Nat
          /\ i > writer => files[i] = <<>>
      BY DEF OrderInv, LifeInv, TypeOK, FilesInOrder
    <3>2. i > writer' => i > writer
      BY <1>2 DEF Inodes
    <3>3. CASE files'[i] = files[i]
      BY <1>1, <3>1, <3>2, <3>3
    <3>4. CASE files'[i] = <<>>
      BY <1>1, <3>1, <3>4, NothingIsInOrder
    <3> QED
      BY <1>2, <3>3, <3>4
  <2>2. ASSUME NEW i \in Inodes, NEW j \in Inodes, i < j
        PROVE  Before(files'[i], files'[j])
    BY <1>2, <2>2, NothingIsInOrder DEF OrderInv, FilesInOrder
  <2> QED
    BY <1>2, <2>1, <2>2 DEF FilesInOrder, Increasing, AtMost, Before
<1>4. \A t \in Tasks : ~ tasks[t].raced => Reader(tasks[t], judged[t])'
  BY <1>1, <1>2, ReaderKept
<1> QED
  BY <1>1, <1>3, <1>4 DEF OrderInv

\* The registry reads nothing.
LEMMA ReconcileOrder ==
    ASSUME OrderInv, LifeInv', Reconcile
    PROVE  OrderInv'
<1>1. UNCHANGED <<files, created, path, writer, written, judged>>
  BY DEF Reconcile, environment
<1>2. FilesInOrder'
  BY <1>1 DEF OrderInv, FilesInOrder, Increasing, AtMost, Before
<1>3. ASSUME NEW t \in Tasks, ~ tasks'[t].raced PROVE Reader(tasks[t], judged[t])'
  <2>1. tasks[t] \in TaskRecords /\ tasks'[t] \in TaskRecords
    BY DEF OrderInv, LifeInv, TypeOK
  <2>2. \/ tasks'[t].state = "new" /\ tasks'[t].raced = tasks[t].raced
        \/ /\ tasks'[t].state = tasks[t].state /\ tasks'[t].raced = tasks[t].raced
           /\ tasks'[t].inode = tasks[t].inode /\ tasks'[t].pos = tasks[t].pos
           /\ tasks'[t].buffer = tasks[t].buffer /\ tasks'[t].seen = tasks[t].seen
           /\ tasks'[t].current_ino = tasks[t].current_ino
           /\ tasks'[t].current_offset = tasks[t].current_offset
    <3> DEFINE old == [tasks[t] EXCEPT !.aborted = TRUE]
               new == [tasks[t] EXCEPT !.state = "new"]
    <3>1. tasks \in [Tasks -> TaskRecords]
      BY DEF OrderInv, LifeInv, TypeOK
    <3>2. registry # NotWatched => registry.task \in Tasks
      BY DEF OrderInv, LifeInv, Entry, TypeOK
    <3>3. Unborn # {} => NextTask \in Tasks /\ tasks[NextTask].state = "unborn"
      BY DEF Unborn, NextTask
    <3>4. CASE PruneMissing
      BY <3>1, <3>2, <3>4 DEF PruneMissing, Abort, TaskRecords
    <3>5. CASE AddWatcher
      BY <3>1, <3>3, <3>5 DEF AddWatcher, TaskRecords
    <3>6. CASE UpdateWatcher
      <4>1. registry.task \in Tasks /\ NextTask \in Tasks
        BY <3>2, <3>3, <3>6 DEF UpdateWatcher
      <4>2. tasks' = [Abort(registry.task) EXCEPT ![NextTask].state = "new"]
        BY <3>6 DEF UpdateWatcher
      <4>3. Abort(registry.task)[t] = IF t = registry.task THEN old ELSE tasks[t]
        BY <3>1, <4>1 DEF Abort
      <4>4. tasks'[t] = IF t = NextTask THEN [Abort(registry.task)[t] EXCEPT !.state = "new"]
                                        ELSE Abort(registry.task)[t]
        BY <3>1, <4>1, <4>2 DEF Abort
      <4>5. old \in TaskRecords
        BY <2>1, ReconciledRecords
      <4> HIDE DEF old
      <4>6. /\ old.state = tasks[t].state /\ old.raced = tasks[t].raced
            /\ old.inode = tasks[t].inode /\ old.pos = tasks[t].pos
            /\ old.buffer = tasks[t].buffer /\ old.seen = tasks[t].seen
            /\ old.current_ino = tasks[t].current_ino
            /\ old.current_offset = tasks[t].current_offset
        BY <2>1 DEF old, TaskRecords
      <4>7. CASE t = NextTask
        BY <2>1, <4>3, <4>4, <4>5, <4>6, <4>7 DEF TaskRecords
      <4>8. CASE t # NextTask
        BY <2>1, <4>3, <4>4, <4>6, <4>8
      <4> QED
        BY <4>7, <4>8
    <3> QED
      BY <3>4, <3>5, <3>6 DEF Reconcile
  <2>3. Reader(tasks[t], judged[t])
    BY <1>3, <2>2 DEF OrderInv
  <2> QED
    BY <1>1, <2>2, <2>3 DEF Reader, AtWork, Ahead, Increasing, AtMost, Before
<1> QED
  BY <1>2, <1>3 DEF OrderInv

\* A task's step: the others are as they were, and so is the log.
LEMMA TaskOrder ==
    ASSUME OrderInv, LifeInv', NEW t \in Tasks, NEW task, NEW out,
           tasks' = [tasks EXCEPT ![t] = task],
           judged' = [judged EXCEPT ![t] = out],
           UNCHANGED environment,
           ~ task.raced => Reader(task, out)
    PROVE  OrderInv'
<1>1. UNCHANGED <<files, created, path, writer, written>>
  BY DEF environment
<1>2. FilesInOrder'
  BY <1>1 DEF OrderInv, FilesInOrder, Increasing, AtMost, Before
<1>3. \A u : \A o : Reader(u, o) => Reader(u, o)'
  BY <1>1 DEF Reader, Ahead, AtWork, Increasing, AtMost, Before
<1>4. ASSUME NEW u \in Tasks, ~ tasks'[u].raced PROVE Reader(tasks'[u], judged'[u])
  BY <1>4 DEF OrderInv, LifeInv, TypeOK
<1> QED
  BY <1>2, <1>3, <1>4 DEF OrderInv

\* The same for a step that judges nothing.
LEMMA TaskOrderOnly ==
    ASSUME OrderInv, LifeInv', NEW t \in Tasks, NEW task,
           Set(t, task), UNCHANGED <<environment, judged>>,
           ~ task.raced => Reader(task, judged[t])
    PROVE  OrderInv'
<1>1. judged' = [judged EXCEPT ![t] = judged[t]]
  BY DEF OrderInv, LifeInv, TypeOK
<1> QED
  BY <1>1, TaskOrder DEF Set
\* What the reader's buffer takes in is the part of its file that it has not
\* read, and comes after what it has.
LEMMA FilledOrder ==
    ASSUME OrderInv, NEW t \in Tasks, ~ tasks[t].raced, AtWork(tasks[t]),
           tasks[t].state \notin {"truncated", "replaced"}
    PROVE  Reader(Filled(tasks[t]), judged[t])
<1> DEFINE task == tasks[t]
           out == judged[t]
           file == files[task.inode]
           rest == Rest(task)
           filled == Filled(task)
<1>1. /\ task \in TaskRecords /\ task.inode \in Inodes /\ task.inode # NoFile
      /\ file \in Seq(Units) /\ file \in Seq(Nat) /\ out \in Seq(Nat)
      /\ task.buffer \in Seq(Nat) /\ task.pos \in Nat /\ Len(file) \in Nat
      /\ task.current_offset \in Nat /\ files \in [Inodes -> Seq(Units)]
  BY WorksOnAFile, UnitsAreNumbers DEF OrderInv, LifeInv, TypeOK, TaskRecords
<1>2. Reader(task, out) /\ AtWork(task) /\ task.state \notin {"truncated", "replaced"}
  BY DEF OrderInv
<1>3. CASE filled = task
  BY <1>2, <1>3
<1>4. CASE filled # task
  <2>1. rest # <<>> /\ rest \in Seq(Units)
        /\ filled = [task EXCEPT !.buffer = task.buffer \o rest, !.pos = Len(file)]
    BY <1>1, <1>4, FilledTypes
  <2>2. /\ rest = SubSeq(file, task.pos + 1, Len(file)) /\ rest \in Seq(Nat)
    BY <2>1, UnitsAreNumbers DEF Rest
  <2>3. /\ task.pos + Len(rest) = Len(file) /\ Len(rest) \in Nat
        /\ \A k \in DOMAIN rest : /\ k \in Nat /\ k > 0
                                  /\ task.pos + k \in DOMAIN file
                                  /\ rest[k] = file[task.pos + k]
    <3> HIDE DEF rest, file, task
    <3>1. SubSeq(file, task.pos + 1, Len(file)) # <<>>
      BY <2>1, <2>2
    <3>2. /\ task.pos + Len(SubSeq(file, task.pos + 1, Len(file))) = Len(file)
          /\ \A k \in DOMAIN SubSeq(file, task.pos + 1, Len(file)) :
                /\ k \in Nat /\ k > 0 /\ task.pos + k \in DOMAIN file
                /\ SubSeq(file, task.pos + 1, Len(file))[k] = file[task.pos + k]
      BY <1>1, <3>1, RestOfSequence
    <3>3. Len(rest) \in Nat
      BY <2>2
    <3> QED
      BY <2>2, <3>2, <3>3
  <2>5. /\ filled.buffer = task.buffer \o rest /\ filled.pos = Len(file)
        /\ filled.inode = task.inode /\ filled.current_ino = task.current_ino
        /\ filled.current_offset = task.current_offset /\ filled.state = task.state
    BY <1>1, <2>1 DEF TaskRecords
  <2>6. Len(filled.buffer) = Len(task.buffer) + Len(rest)
    BY <1>1, <2>2, <2>5
  <2> HIDE DEF filled, rest, file, task
  <2>4. ASSUME NEW k \in DOMAIN rest
        PROVE  k \in Nat /\ task.pos + k \in DOMAIN file /\ task.pos + k > task.pos
               /\ rest[k] = file[task.pos + k]
    BY <1>1, <2>3
  <2>7. Increasing(file) /\ AtMost(file, written)
        /\ \A i \in Inodes : i > task.inode => Before(file, files[i])
    BY <1>1 DEF OrderInv, FilesInOrder, file, Inodes
  <2>8. Increasing(rest)
    <3> SUFFICES ASSUME NEW i \in DOMAIN rest, NEW j \in DOMAIN rest, i < j
                 PROVE  rest[i] < rest[j]
      BY DEF Increasing
    <3>1. task.pos + i < task.pos + j
      BY <1>1, <2>4
    <3> QED
      BY <2>4, <2>7, <3>1 DEF Increasing
  <2>9. AtMost(rest, written) /\ \A i \in Inodes : i > task.inode => Before(rest, files[i])
    BY <2>4, <2>7 DEF AtMost, Before
  <2>10. ASSUME NEW s \in Seq(Nat), Ahead(s, task)
         PROVE  Before(s, rest) /\ Ahead(s, filled)
    <3>1. Before(s, rest)
      <4> SUFFICES ASSUME NEW i \in DOMAIN s, NEW k \in DOMAIN rest
                   PROVE  s[i] < rest[k]
        BY DEF Before
      <4>1. AtMost(s, file[task.pos + k] - 1)
        BY <2>4, <2>10 DEF Ahead, file
      <4>2. s[i] \in Nat
        OBVIOUS
      <4>3. file[task.pos + k] \in Nat
        <5>1. file \in Seq(Nat) /\ task.pos + k \in DOMAIN file
          BY <1>1, <2>4
        <5> HIDE DEF file, task
        <5> QED
          BY <5>1
      <4> QED
        BY <2>4, <4>1, <4>2, <4>3 DEF AtMost
    <3>2. \A k \in DOMAIN file : ~ (k > Len(file)) /\ ~ (Len(file) < Len(file))
      BY <1>1
    <3> QED
      BY <2>5, <2>10, <3>1, <3>2 DEF Ahead, file
  <2>11. Ahead(rest, filled)
    <3>1. \A k \in DOMAIN file : ~ (k > Len(file)) /\ ~ (Len(file) < Len(file))
      BY <1>1
    <3> QED
      BY <2>5, <2>9, <3>1 DEF Ahead, file
  <2>12. /\ Increasing(out) /\ AtMost(out, written)
         /\ Increasing(task.buffer) /\ AtMost(task.buffer, written)
         /\ Before(out, task.buffer) /\ task.inode <= created
         /\ task.current_ino = task.inode
         /\ task.current_offset + Len(task.buffer) <= task.pos
         /\ Ahead(out, task) /\ Ahead(task.buffer, task)
    BY <1>2 DEF Reader
  <2>15. written \in Nat
    BY DEF OrderInv, LifeInv, TypeOK
  <2>13. /\ Increasing(filled.buffer) /\ AtMost(filled.buffer, written)
         /\ Before(out, filled.buffer) /\ Ahead(filled.buffer, filled)
    <3>1. Increasing(filled.buffer)
      BY <1>1, <2>2, <2>5, <2>8, <2>10, <2>12, IncreasingConcat
    <3>2. AtMost(filled.buffer, written)
      BY <1>1, <2>2, <2>5, <2>9, <2>12, <2>15, AheadConcat
    <3>3. Before(out, filled.buffer)
      <4>1. Before(out, rest)
        BY <1>1, <2>10, <2>12
      <4>2. out \in Seq(Nat) /\ task.buffer \in Seq(Nat) /\ rest \in Seq(Nat)
        BY <1>1, <2>2
      <4>3. Before(out, task.buffer)
        BY <2>12
      <4>4. Before(out, task.buffer \o rest)
        BY <4>1, <4>2, <4>3, BeforeConcat, Zenon
      <4> QED
        BY <2>5, <4>4
    <3>4. Ahead(filled.buffer, filled)
      BY <1>1, <2>2, <2>5, <2>10, <2>11, <2>12, AheadConcat
    <3> QED
      BY <3>1, <3>2, <3>3, <3>4
  <2>14. filled.current_offset + Len(filled.buffer) <= filled.pos
    BY <1>1, <2>3, <2>5, <2>6, <2>12
  <2>16. Ahead(out, filled)
    BY <1>1, <2>10, <2>12
  <2>17. Reader(filled, out)
    BY <1>2, <2>5, <2>12, <2>13, <2>14, <2>16 DEF Reader, AtWork
  <2> QED
    BY <2>17 DEF filled, task
<1> QED
  BY <1>3, <1>4

\* What read_line takes off the buffer comes first in it.
LEMMA CutOrder ==
    ASSUME NEW s \in Seq(Nat), NEW n \in 1 .. Len(s)
    PROVE  LET a == SubSeq(s, 1, n)
               b == SubSeq(s, n + 1, Len(s))
           IN /\ a \in Seq(Nat) /\ b \in Seq(Nat)
              /\ \A m \in Nat : AtMost(s, m) => AtMost(a, m) /\ AtMost(b, m)
              /\ \A task : Ahead(s, task) => Ahead(a, task) /\ Ahead(b, task)
<1> DEFINE a == SubSeq(s, 1, n)
           b == SubSeq(s, n + 1, Len(s))
<1>1. a \in Seq(Nat) /\ b \in Seq(Nat)
  OBVIOUS
<1>2. \A i \in DOMAIN a : i \in DOMAIN s /\ a[i] = s[i]
  OBVIOUS
<1>3. \A i \in DOMAIN b : n + i \in DOMAIN s /\ b[i] = s[n + i]
  OBVIOUS
<1> HIDE DEF a, b
<1>4. \A i \in DOMAIN a : \E j \in DOMAIN s : a[i] = s[j]
  BY <1>2
<1>5. \A i \in DOMAIN b : \E j \in DOMAIN s : b[i] = s[j]
  BY <1>3
<1>6. \A m \in Nat : AtMost(s, m) => AtMost(a, m) /\ AtMost(b, m)
  BY <1>1, <1>4, <1>5, AheadCut
<1>7. \A task : Ahead(s, task) => Ahead(a, task) /\ Ahead(b, task)
  BY <1>1, <1>4, <1>5, AheadCut
<1> QED
  BY <1>1, <1>6, <1>7 DEF a, b
\* A line that is read goes from the buffer's front to the pipeline, or, when it
\* is not UTF-8, nowhere.
LEMMA ReadLineOrder ==
    ASSUME OrderInv, LifeInv', NEW t \in Tasks, ReadLine(t)
    PROVE  OrderInv'
<1> DEFINE filled == Filled(tasks[t])
           buffer == filled.buffer
           length == LineLength(buffer)
           line == SubSeq(buffer, 1, length)
           rest == SubSeq(buffer, length + 1, Len(buffer))
           out == judged[t]
<1>1. /\ AtWork(tasks[t]) /\ tasks[t].state \notin {"truncated", "replaced"}
      /\ buffer # <<>> /\ UNCHANGED environment
  BY DEF ReadLine, Runs, AtWork
<1>2. /\ filled \in TaskRecords /\ filled.raced = tasks[t].raced
      /\ filled.state = tasks[t].state /\ filled.inode # NoFile
  <2>1. /\ tasks[t] \in TaskRecords /\ tasks[t].inode # NoFile
        /\ files \in [Inodes -> Seq(Units)]
    BY <1>1, WorksOnAFile DEF OrderInv, LifeInv, TypeOK
  <2> QED
    BY <2>1, FilledTypes DEF TaskRecords
<1>3. /\ buffer \in Seq(Units) /\ buffer \in Seq(Nat) /\ out \in Seq(Nat)
      /\ filled.current_offset \in Nat /\ filled.pos \in Nat
      /\ length \in 1 .. Len(buffer) /\ length \in Nat /\ Len(buffer) \in Nat
      /\ written \in Nat
  <2>1. buffer \in Seq(Units)
    BY <1>2 DEF TaskRecords
  <2>2. length \in 1 .. Len(buffer)
    BY <1>1, <2>1, LineLengthRange
  <2> QED
    BY <1>2, <2>1, <2>2, UnitsAreNumbers DEF TaskRecords, OrderInv, LifeInv, TypeOK
<1>4. ASSUME ~ filled.raced
      PROVE  /\ Increasing(out) /\ AtMost(out, written)
             /\ Increasing(buffer) /\ AtMost(buffer, written)
             /\ Before(out, buffer) /\ filled.inode <= created
             /\ filled.current_ino = filled.inode
             /\ filled.current_offset + Len(buffer) <= filled.pos
             /\ Ahead(out, filled) /\ Ahead(buffer, filled)
  <2>1. Reader(filled, out)
    BY <1>1, <1>2, <1>4, FilledOrder
  <2> QED
    BY <1>1, <1>2, <2>1 DEF Reader, AtWork
<1>5. /\ line \in Seq(Nat) /\ rest \in Seq(Nat)
      /\ Len(rest) = Len(buffer) - length
      /\ Increasing(buffer) => Increasing(line) /\ Increasing(rest) /\ Before(line, rest)
      /\ Before(out, buffer) => Before(out, line) /\ Before(out, rest)
      /\ AtMost(buffer, written) => AtMost(line, written) /\ AtMost(rest, written)
      /\ Ahead(buffer, filled) => Ahead(line, filled) /\ Ahead(rest, filled)
  <2> HIDE DEF length, buffer, filled
  <2>1. length \in 0 .. Len(buffer)
    BY <1>3
  <2> QED
    BY <1>3, <2>1, IncreasingCut, CutOrder
<1>6. CASE LineOf(line[1]) \in Garbled
  <2> DEFINE next == [filled EXCEPT !.buffer = rest, !.state = "waiting"]
  <2>1. Set(t, next) /\ UNCHANGED judged
    BY <1>6 DEF ReadLine
  <2> HIDE DEF rest, length, filled
  <2>2. /\ next.state = "waiting" /\ next.buffer = rest /\ next.pos = filled.pos
        /\ next.inode = filled.inode /\ next.current_ino = filled.current_ino
        /\ next.current_offset = filled.current_offset /\ next.raced = filled.raced
    BY <1>2 DEF TaskRecords
  <2> HIDE DEF next, buffer, out
  <2>3. ASSUME ~ next.raced PROVE Reader(next, out)
    <3>1. \A s : Ahead(s, filled) => Ahead(s, next)
      BY <2>2 DEF Ahead
    <3>2. filled.current_offset + Len(rest) <= filled.pos
      BY <1>3, <1>4, <1>5, <2>2, <2>3
    <3> QED
      BY <1>4, <1>5, <2>2, <2>3, <3>1, <3>2 DEF Reader, AtWork
  <2> QED
    BY <1>1, <2>1, <2>3, TaskOrderOnly DEF out
<1>7. CASE LineOf(line[1]) \notin Garbled
  <2>1. PICK then \in {"reading", "waiting"} :
          Set(t, [filled EXCEPT !.buffer = rest, !.state = then,
                                !.current_offset = @ + length])
    BY <1>7 DEF ReadLine
  <2> DEFINE next == [filled EXCEPT !.buffer = rest, !.state = then,
                                    !.current_offset = @ + length]
             more == out \o line
  <2>2. tasks' = [tasks EXCEPT ![t] = next] /\ judged' = [judged EXCEPT ![t] = more]
    BY <1>7, <2>1 DEF ReadLine, Set
  <2> HIDE DEF rest, length, filled, line
  <2>3. /\ next.state = then /\ next.buffer = rest /\ next.pos = filled.pos
        /\ next.inode = filled.inode /\ next.current_ino = filled.current_ino
        /\ next.current_offset = filled.current_offset + length
        /\ next.raced = filled.raced
    BY <1>2 DEF TaskRecords
  <2> HIDE DEF next, buffer, out
  <2>4. ASSUME ~ next.raced PROVE Reader(next, more)
    <3>1. \A s : Ahead(s, filled) => Ahead(s, next)
      BY <2>3 DEF Ahead
    <3>2. next.current_offset + Len(rest) <= next.pos
      BY <1>3, <1>4, <1>5, <2>3, <2>4
    <3>3. /\ Increasing(out) /\ Increasing(line) /\ Before(out, line) /\ Before(out, rest)
          /\ Before(line, rest) /\ AtMost(out, written) /\ AtMost(line, written)
          /\ Ahead(out, filled) /\ Ahead(line, filled)
      BY <1>4, <1>5, <2>3, <2>4
    <3>4. Increasing(more)
      BY <1>3, <1>5, <3>3, IncreasingConcat
    <3>5. Before(more, rest)
      BY <1>3, <1>5, <3>3, BeforeConcat, Zenon
    <3>6. AtMost(more, written) /\ Ahead(more, filled)
      BY <1>3, <1>5, <3>3, AheadConcat
    <3> HIDE DEF more
    <3> QED
      BY <1>4, <1>5, <2>3, <2>4, <3>1, <3>2, <3>4, <3>5, <3>6 DEF Reader, AtWork
  <2> QED
    BY <1>1, <2>2, <2>4, TaskOrder
<1> QED
  BY <1>6, <1>7

LEMMA TaskStepOrder ==
    ASSUME OrderInv, LifeInv', NEW t \in Tasks, TaskStep(t)
    PROVE  OrderInv'
<1> DEFINE task == tasks[t]
           out == judged[t]
<1>1. /\ task \in TaskRecords /\ out \in Seq(Nat) /\ created \in Nat
      /\ path \in Inodes \cup {NoFile}
      /\ path # NoFile => path = created /\ path \in Nat
      /\ \A i \in Inodes : files[i] \in Seq(Nat) /\ i \in Nat
      /\ ~ task.raced => Reader(task, out)
  <2>1. /\ task \in TaskRecords /\ created \in Nat /\ path \in Inodes \cup {NoFile}
        /\ path # NoFile => path = created /\ path \in Nat
    BY DEF OrderInv, LifeInv, TypeOK, Rotation, Inodes
  <2>2. out \in Seq(Nat)
    BY UnitsAreNumbers DEF OrderInv, LifeInv, TypeOK
  <2>3. \A i \in Inodes : files[i] \in Seq(Nat) /\ i \in Nat
    <3>1. \A i \in Inodes : files[i] \in Seq(Units)
      BY DEF OrderInv, LifeInv, TypeOK
    <3> QED
      BY <3>1, UnitsAreNumbers DEF Inodes
  <2>4. ~ task.raced => Reader(task, out)
    BY DEF OrderInv
  <2> QED
    BY <2>1, <2>2, <2>3, <2>4
<1>2. CASE Start(t)
  <2>1. CASE path = NoFile
    <3> DEFINE next == [task EXCEPT !.state = "ended", !.missing = TRUE]
    <3>1. Set(t, next) /\ UNCHANGED <<environment, judged>>
      BY <1>2, <2>1 DEF Start
    <3>2. next.state = "ended" /\ next.raced = task.raced
      BY <1>1 DEF TaskRecords
    <3>3. ~ next.raced => Reader(next, out)
      BY <1>1, <3>2 DEF Reader, AtWork
    <3> QED
      BY <3>1, <3>3, TaskOrderOnly
  <2>2. CASE path # NoFile
    <3> DEFINE next == [task EXCEPT !.state = "reading", !.inode = path, !.current_ino = path,
                                    !.pos = Len(files[path]),
                                    !.current_offset = Len(files[path])]
    <3>1. Set(t, next) /\ UNCHANGED <<environment, judged>>
      BY <1>2, <2>2 DEF Start
    <3>2. /\ next.state = "reading" /\ next.raced = task.raced /\ next.inode = path
          /\ next.current_ino = path /\ next.pos = Len(files[path])
          /\ next.current_offset = Len(files[path]) /\ next.buffer = task.buffer
      BY <1>1 DEF TaskRecords
    <3>3. out = <<>> /\ task.buffer = <<>>
      BY <1>2 DEF Start, OrderInv, LifeInv, Life
    <3>4. Len(files[path]) \in Nat
      BY <1>1, <2>2
    <3> HIDE DEF next
    <3>5. Reader(next, out)
      <4>1. written \in Nat /\ Len(<<>>) = 0
        BY DEF OrderInv, LifeInv, TypeOK
      <4>2. /\ Increasing(out) /\ AtMost(out, written) /\ Increasing(next.buffer)
            /\ AtMost(next.buffer, written) /\ Before(out, next.buffer)
            /\ Ahead(out, next) /\ Ahead(next.buffer, next)
        BY <3>2, <3>3, <4>1, NothingIsInOrder
      <4>3. next.current_offset + Len(next.buffer) <= next.pos
        BY <3>2, <3>3, <3>4, <4>1
      <4>4. /\ next.inode <= created /\ next.current_ino = next.inode
            /\ next.state \notin {"truncated", "replaced"}
        BY <1>1, <2>2, <3>2
      <4> QED
        BY <4>2, <4>3, <4>4 DEF Reader
    <3> QED
      BY <3>1, <3>5, TaskOrderOnly
  <2> QED
    BY <2>1, <2>2
<1>3. CASE EndOfFile(t)
  <2> DEFINE next == [task EXCEPT !.state = "checking"]
  <2>1. Set(t, next) /\ UNCHANGED <<environment, judged>> /\ AtWork(task)
    BY <1>3 DEF EndOfFile, Runs, AtWork
  <2>2. /\ next.state = "checking" /\ next.raced = task.raced /\ next.inode = task.inode
        /\ next.current_ino = task.current_ino /\ next.pos = task.pos
        /\ next.current_offset = task.current_offset /\ next.buffer = task.buffer
    BY <1>1 DEF TaskRecords
  <2> HIDE DEF next
  <2>3. ~ next.raced => Reader(next, out)
    BY <1>1, <2>1, <2>2 DEF Reader, AtWork, Ahead
  <2> QED
    BY <2>1, <2>3, TaskOrderOnly
<1>4. CASE ReadLine(t)
  BY <1>4, ReadLineOrder
<1>5. CASE Stat(t)
  <2>1. PICK next : /\ Set(t, next)
                    /\ \/ next = [task EXCEPT !.state = "waiting"]
                       \/ /\ next = [task EXCEPT !.state = "replaced", !.seen = path]
                          /\ path # NoFile /\ path # task.current_ino
                       \/ /\ next = [task EXCEPT !.state = "truncated"]
                          /\ path = task.current_ino
                          /\ Len(files[path]) < task.current_offset
    BY <1>5 DEF Stat
  <2>2. UNCHANGED <<environment, judged>> /\ AtWork(task)
    BY <1>5 DEF Stat, AtWork
  <2>3. /\ next.raced = task.raced /\ next.inode = task.inode
        /\ next.current_ino = task.current_ino /\ next.pos = task.pos
        /\ next.current_offset = task.current_offset /\ next.buffer = task.buffer
        /\ \/ next.state = "waiting"
           \/ /\ next.state = "replaced" /\ next.seen = path
              /\ path # NoFile /\ path # task.current_ino
           \/ /\ next.state = "truncated"
              /\ path = task.current_ino /\ Len(files[path]) < task.current_offset
    BY <1>1, <2>1 DEF TaskRecords
  <2>4. /\ task.inode \in Inodes /\ task.inode \in Nat /\ task.pos \in Nat
        /\ task.current_offset \in Nat /\ Len(task.buffer) \in Nat
        /\ files[task.inode] \in Seq(Nat) /\ Len(files[task.inode]) \in Nat
    <3>1. task.inode \in Inodes
      BY <2>2, WorksOnAFile DEF OrderInv
    <3> QED
      BY <1>1, <3>1 DEF TaskRecords
  <2>5. ASSUME ~ next.raced PROVE Reader(next, out)
    <3>1. Reader(task, out) /\ task.current_ino = task.inode /\ task.inode <= created
          /\ task.current_offset + Len(task.buffer) <= task.pos /\ Ahead(out, task)
      BY <1>1, <2>2, <2>3, <2>5 DEF Reader
    <3>2. next.state = "replaced" => next.seen > next.inode
      BY <1>1, <2>3, <2>4, <3>1
    <3>3. ASSUME next.state = "truncated" PROVE Before(out, files[task.inode])
      <4>1. Len(files[task.inode]) < task.pos
        <5>1. path = task.inode /\ Len(files[path]) < task.current_offset
          BY <2>3, <3>1, <3>3
        <5> HIDE DEF task
        <5> QED
          BY <2>4, <3>1, <5>1
      <4> SUFFICES ASSUME NEW i \in DOMAIN out, NEW k \in DOMAIN files[task.inode]
                   PROVE  out[i] < files[task.inode][k]
        BY DEF Before
      <4>2. out[i] <= files[task.inode][k] - 1
        BY <3>1, <4>1 DEF Ahead, AtMost
      <4>3. out[i] \in Nat
        BY <1>1
      <4>4. files[task.inode][k] \in Nat
        BY <2>4
      <4> QED
        BY <4>2, <4>3, <4>4
    <3> QED
      BY <2>2, <2>3, <3>1, <3>2, <3>3 DEF Reader, AtWork, Ahead
  <2> QED
    BY <2>1, <2>2, <2>5, TaskOrderOnly
<1>6. CASE OpenReplaced(t)
  <2>1. AtWork(task) /\ UNCHANGED <<environment, judged>> /\ task.state = "replaced"
    BY <1>6 DEF OpenReplaced, AtWork
  <2>2. CASE path = NoFile
    <3> DEFINE next == [task EXCEPT !.state = "waiting", !.seen = NoFile]
    <3>1. Set(t, next)
      BY <1>6, <2>2 DEF OpenReplaced
    <3>2. /\ next.state = "waiting" /\ next.raced = task.raced /\ next.inode = task.inode
          /\ next.current_ino = task.current_ino /\ next.pos = task.pos
          /\ next.current_offset = task.current_offset /\ next.buffer = task.buffer
      BY <1>1 DEF TaskRecords
    <3> HIDE DEF next
    <3>3. ~ next.raced => Reader(next, out)
      BY <1>1, <2>1, <3>2 DEF Reader, AtWork, Ahead
    <3> QED
      BY <2>1, <3>1, <3>3, TaskOrderOnly
  <2>3. CASE path # NoFile
    <3> DEFINE race == task.raced \/ path # task.seen
               next == Opened(task, path, task.seen, NoFile, race)
    <3>1. Set(t, next)
      BY <1>6, <2>3 DEF OpenReplaced, Opened
    <3>2. /\ next.state = "waiting" /\ next.inode = path /\ next.buffer = <<>>
          /\ next.current_ino = task.seen /\ next.pos = 0 /\ next.current_offset = 0
          /\ next.raced = race
      <4> HIDE DEF race
      <4> QED
        BY <1>1 DEF Opened, TaskRecords
    <3> HIDE DEF next
    <3>3. ASSUME ~ next.raced PROVE Reader(next, out)
      <4>1. ~ task.raced /\ path = task.seen
        BY <3>2, <3>3
      <4>2. /\ Increasing(out) /\ AtMost(out, written) /\ task.seen > task.inode
            /\ Ahead(out, task)
        BY <1>1, <2>1, <4>1 DEF Reader
      <4>3. task.inode \in Inodes /\ path \in Inodes /\ path <= created
        BY <1>1, <2>1, <2>3, WorksOnAFile DEF OrderInv
      <4>4. Before(out, files[path])
        BY <4>1, <4>2, <4>3 DEF Ahead
      <4>5. \A i \in Inodes : i > path => Before(out, files[i])
        BY <1>1, <4>1, <4>2, <4>3 DEF Ahead
      <4>6. ASSUME NEW k \in DOMAIN files[path] PROVE AtMost(out, files[path][k] - 1)
        <5> SUFFICES ASSUME NEW i \in DOMAIN out PROVE out[i] <= files[path][k] - 1
          BY DEF AtMost
        <5>1. out[i] < files[path][k]
          BY <4>4 DEF Before
        <5>2. out[i] \in Nat /\ files[path] \in Seq(Nat)
          BY <1>1, <4>3
        <5>3. files[path][k] \in Nat
          BY <5>2
        <5> QED
          BY <5>1, <5>2, <5>3
      <4>7. Ahead(out, next)
        BY <3>2, <4>5, <4>6 DEF Ahead
      <4>8. written \in Nat /\ Len(<<>>) = 0
        BY DEF OrderInv, LifeInv, TypeOK
      <4> QED
        BY <3>2, <4>1, <4>2, <4>3, <4>7, <4>8, NothingIsInOrder DEF Reader, AtWork
    <3> QED
      BY <2>1, <3>1, <3>3, TaskOrderOnly
  <2> QED
    BY <2>2, <2>3
<1>7. CASE OpenTruncated(t)
  <2>1. AtWork(task) /\ UNCHANGED <<environment, judged>> /\ task.state = "truncated"
    BY <1>7 DEF OpenTruncated, AtWork
  <2> DEFINE opened == IF path = NoFile THEN task.inode ELSE path
             race == task.raced \/ opened # task.current_ino
             next == Opened(task, opened, task.current_ino, task.seen, race)
  <2>2. Set(t, next)
    <3>1. next = [task EXCEPT !.state = "waiting", !.inode = opened, !.pos = 0,
                              !.buffer = <<>>, !.current_offset = 0, !.raced = race]
      BY <1>1 DEF TaskRecords, Opened
    <3> QED
      BY <1>7, <3>1 DEF OpenTruncated
  <2>3. /\ next.state = "waiting" /\ next.inode = opened /\ next.buffer = <<>>
        /\ next.current_ino = task.current_ino /\ next.pos = 0 /\ next.current_offset = 0
        /\ next.raced = race
    <3> HIDE DEF race, opened
    <3> QED
      BY <1>1 DEF Opened, TaskRecords
  <2> HIDE DEF next
  <2>4. ASSUME ~ next.raced PROVE Reader(next, out)
    <3>1. ~ task.raced /\ opened = task.current_ino
      BY <2>3, <2>4
    <3>2. /\ Increasing(out) /\ AtMost(out, written) /\ task.current_ino = task.inode
          /\ task.inode <= created /\ Ahead(out, task) /\ Before(out, files[task.inode])
      BY <1>1, <2>1, <3>1 DEF Reader
    <3>3. task.inode \in Inodes /\ files[task.inode] \in Seq(Nat)
      BY <1>1, <2>1, WorksOnAFile DEF OrderInv
    <3>4. ASSUME NEW k \in DOMAIN files[task.inode]
          PROVE  AtMost(out, files[task.inode][k] - 1)
      <4> SUFFICES ASSUME NEW i \in DOMAIN out PROVE out[i] <= files[task.inode][k] - 1
        BY DEF AtMost
      <4>1. out[i] < files[task.inode][k]
        BY <3>2 DEF Before
      <4>2. out[i] \in Nat
        BY <1>1
      <4>3. files[task.inode][k] \in Nat
        BY <3>3
      <4> QED
        BY <4>1, <4>2, <4>3
    <3>5. Ahead(out, next)
      BY <2>3, <3>1, <3>2, <3>4 DEF Ahead
    <3>6. written \in Nat /\ Len(<<>>) = 0
      BY DEF OrderInv, LifeInv, TypeOK
    <3> QED
      BY <2>3, <3>1, <3>2, <3>5, <3>6, NothingIsInOrder DEF Reader, AtWork
  <2> QED
    BY <2>1, <2>2, <2>4, TaskOrderOnly
<1>8. CASE Cancel(t)
  <2> DEFINE next == [task EXCEPT !.state = "ended"]
  <2>1. Set(t, next) /\ UNCHANGED <<environment, judged>>
    BY <1>8 DEF Cancel
  <2>2. next.state = "ended" /\ next.raced = task.raced
    BY <1>1 DEF TaskRecords
  <2>3. ~ next.raced => Reader(next, out)
    BY <1>1, <2>2 DEF Reader, AtWork
  <2> QED
    BY <2>1, <2>3, TaskOrderOnly
<1> QED
  BY <1>2, <1>3, <1>4, <1>5, <1>6, <1>7, <1>8 DEF TaskStep

LEMMA OrderNext == OrderInv /\ [Next]_vars => OrderInv'
<1> SUFFICES ASSUME OrderInv, [Next]_vars PROVE OrderInv'
  OBVIOUS
<1>1. LifeInv'
  BY LifeNext DEF OrderInv
<1>2. CASE Write
  BY <1>1, <1>2, WriteOrder
<1>3. CASE Rename \/ Create \/ Reopen \/ CopyTruncate \/ Configure
  BY <1>1, <1>3, RotateOrder
<1>4. CASE Reconcile
  BY <1>1, <1>4, ReconcileOrder
<1>5. CASE \E t \in Tasks : TaskStep(t)
  BY <1>1, <1>5, TaskStepOrder
<1>6. CASE UNCHANGED vars
  BY <1>1, <1>6 DEF vars, environment, OrderInv, FilesInOrder, Reader, AtWork, Ahead,
                    Increasing, AtMost, Before
<1> QED
  BY <1>2, <1>3, <1>4, <1>5, <1>6 DEF Next

\* Whatever logrotate and nginx do between two steps of a watcher, it judges
\* every piece of the log at most once and in the order in which it was written,
\* unless the file was replaced between the stat and the open of its rotation
\* check.
THEOREM LinesAreJudgedOnceInOrder == Spec => []JudgedOnceInOrder
<1>1. OrderInv => JudgedOnceInOrder
  BY DEF OrderInv, Reader, Increasing, JudgedOnceInOrder
<1> QED
  BY OrderInit, OrderNext, <1>1, PTL DEF Spec

-----------------------------------------------------------------------------
(* The watchers together.                                                  *)

\* No buffer holds what was not written, not even that of a reader that was raced.
BuffersWritten == \A t \in Tasks : AtMost(tasks[t].buffer, written)

ReadersInv == OrderInv /\ BuffersWritten

Retired == {t \in Tasks : tasks[t].aborted}
Confused == {t \in Tasks : tasks[t].raced}

\* What is read into a buffer, and what is taken off it, was written.
LEMMA ReadsWhatIsWritten ==
    ASSUME ReadersInv, NEW t \in Tasks, AtWork(tasks[t])
    PROVE  LET buffer == Filled(tasks[t]).buffer
               length == LineLength(buffer)
               line == SubSeq(buffer, 1, length)
               rest == SubSeq(buffer, length + 1, Len(buffer))
           IN buffer # <<>> =>
                /\ line \in Seq(Units) /\ line # <<>> /\ AtMost(line, written)
                /\ rest \in Seq(Units) /\ AtMost(rest, written)
<1> DEFINE task == tasks[t]
           filled == Filled(task)
           buffer == filled.buffer
           length == LineLength(buffer)
           line == SubSeq(buffer, 1, length)
           rest == SubSeq(buffer, length + 1, Len(buffer))
<1>1. /\ task \in TaskRecords /\ task.inode \in Inodes /\ task.inode # NoFile
      /\ files \in [Inodes -> Seq(Units)] /\ written \in Nat
      /\ task.buffer \in Seq(Units) /\ task.pos \in Nat
      /\ AtMost(task.buffer, written) /\ AtMost(files[task.inode], written)
  <2>1. LifeInv /\ FilesInOrder /\ BuffersWritten
    BY DEF ReadersInv, OrderInv
  <2>2. task \in TaskRecords /\ task.inode \in Inodes /\ task.inode # NoFile
    BY <2>1, WorksOnAFile
  <2>3. files \in [Inodes -> Seq(Units)] /\ written \in Nat
    BY <2>1 DEF LifeInv, TypeOK
  <2>4. task.buffer \in Seq(Units) /\ task.pos \in Nat
    BY <2>2 DEF TaskRecords
  <2>5. AtMost(task.buffer, written) /\ AtMost(files[task.inode], written)
    BY <2>1, <2>2 DEF BuffersWritten, FilesInOrder
  <2> QED
    BY <2>2, <2>3, <2>4, <2>5
<1>2. Rest(task) \in Seq(Units) /\ AtMost(Rest(task), written)
  <2> DEFINE file == files[task.inode]
             cut == SubSeq(file, task.pos + 1, Len(file))
  <2>1. file \in Seq(Units) /\ task.pos \in Nat
    BY <1>1
  <2>2. cut \in Seq(Units) /\ \A i \in DOMAIN cut : task.pos + i \in DOMAIN file /\ cut[i] = file[task.pos + i]
    <3> HIDE DEF file, task
    <3> QED
      BY <2>1
  <2> QED
    BY <1>1, <2>2 DEF AtMost, Rest
<1>3. buffer \in Seq(Units) /\ AtMost(buffer, written)
  <2>1. CASE filled = task
    BY <1>1, <2>1
  <2>2. CASE filled # task
    <3>1. filled = [task EXCEPT !.buffer = task.buffer \o Rest(task), !.pos = Len(files[task.inode])]
      BY <1>1, <2>2, FilledTypes
    <3>2. buffer = task.buffer \o Rest(task)
      BY <1>1, <3>1 DEF TaskRecords
    <3>3. AtMost(task.buffer \o Rest(task), written)
      BY <1>1, <1>2, AheadConcat, UnitsAreNumbers
    <3> QED
      BY <1>1, <1>2, <3>2, <3>3
  <2> QED
    BY <2>1, <2>2
<1> SUFFICES ASSUME buffer # <<>>
             PROVE  /\ line \in Seq(Units) /\ line # <<>> /\ AtMost(line, written)
                    /\ rest \in Seq(Units) /\ AtMost(rest, written)
  OBVIOUS
<1> HIDE DEF filled, buffer
<1>4. length \in 1 .. Len(buffer)
  BY <1>3, LineLengthRange
<1> HIDE DEF length
<1>5. line \in Seq(Units) /\ rest \in Seq(Units)
  BY <1>3, <1>4, CutTypes
<1>6. line # <<>>
  BY <1>3, <1>4
<1>7. AtMost(line, written) /\ AtMost(rest, written)
  BY <1>1, <1>3, <1>4, CutOrder, UnitsAreNumbers
<1> QED
  BY <1>5, <1>6, <1>7


\* A watcher that judges, or opens a file, is in charge or was told to stop.
LEMMA WhoWorksWasHired ==
    ASSUME ReadersInv, NEW t \in Tasks, AtWork(tasks[t])
    PROVE  t \in Retired \cup {registry.task}
BY DEF ReadersInv, OrderInv, LifeInv, Life, AtWork, Retired

\* A step that judges nothing is nothing to the others, or confuses its watcher.
LEMMA QuietStep ==
    ASSUME ReadersInv, NEW t \in Tasks, NEW next, Set(t, next),
           UNCHANGED <<environment, configured, changes, registry, judged>>,
           next.aborted = tasks[t].aborted,
           next.raced = tasks[t].raced \/ (next.raced = TRUE /\ AtWork(tasks[t])),
           next.buffer \in {tasks[t].buffer, <<>>}
    PROVE  BuffersWritten' /\ [Readers!Next]_Readers!vars
<1>1. /\ tasks \in [Tasks -> TaskRecords] /\ tasks' = [tasks EXCEPT ![t] = next]
      /\ UNCHANGED <<written, registry, judged>>
      /\ tasks'[t] = next /\ \A u \in Tasks : u # t => tasks'[u] = tasks[u]
  BY DEF ReadersInv, OrderInv, LifeInv, TypeOK, Set, environment
<1>2. BuffersWritten'
  BY <1>1 DEF BuffersWritten, ReadersInv, AtMost
<1>3. Retired' = Retired
  BY <1>1 DEF Retired
<1>4. CASE next.raced = tasks[t].raced
  <2>1. Confused' = Confused
    BY <1>1, <1>4 DEF Confused
  <2> QED
    BY <1>1, <1>2, <1>3, <2>1 DEF Readers!vars, Retired, Confused
<1>5. CASE next.raced = TRUE /\ AtWork(tasks[t])
  <2>1. Confused' = Confused \cup {t}
    BY <1>1, <1>5 DEF Confused
  <2>2. t \in Retired \cup {registry.task}
    BY <1>5, WhoWorksWasHired
  <2>3. Readers!Confuse(t)
    BY <1>1, <1>3, <2>1, <2>2 DEF Readers!Confuse, Retired, Confused
  <2> QED
    BY <1>2, <2>3 DEF Readers!Next
<1> QED
  BY <1>4, <1>5

\* What is appended to what was judged.
LEMMA AppendedPieces ==
    ASSUME NEW s \in Seq(Units), NEW line \in Seq(Units), line # <<>>, NEW n \in Nat,
           AtMost(line, n)
    PROVE  LET all == s \o line IN
           /\ Len(all) > Len(s)
           /\ \A k \in DOMAIN s : all[k] = s[k]
           /\ \A k \in DOMAIN all \ DOMAIN s : all[k] \in 1 .. n
<1> DEFINE all == s \o line
<1>1. /\ DOMAIN s = 1 .. Len(s) /\ Len(s) \in Nat
      /\ DOMAIN line = 1 .. Len(line) /\ Len(line) \in Nat /\ Len(line) # 0
      /\ Len(all) = Len(s) + Len(line) /\ DOMAIN all = 1 .. Len(s) + Len(line)
      /\ \A k \in DOMAIN s : all[k] = s[k]
      /\ \A k \in DOMAIN all \ DOMAIN s : k - Len(s) \in DOMAIN line /\ all[k] = line[k - Len(s)]
  OBVIOUS
<1> HIDE DEF all
<1>2. \A k \in DOMAIN line : line[k] \in Units /\ line[k] <= n
  BY DEF AtMost
<1>3. \A k \in DOMAIN all \ DOMAIN s : all[k] \in 1 .. n
  BY <1>1, <1>2, LogWatchAssumption DEF Units
<1> QED
  BY <1>1, <1>3 DEF all

\* A line that is read is judged, or dropped if it is not UTF-8.
LEMMA ReadStep ==
    ASSUME ReadersInv, OrderInv', NEW t \in Tasks, ReadLine(t)
    PROVE  BuffersWritten' /\ [Readers!Next]_Readers!vars
<1> DEFINE task == tasks[t]
           filled == Filled(task)
           length == LineLength(filled.buffer)
           line == SubSeq(filled.buffer, 1, length)
           rest == SubSeq(filled.buffer, length + 1, Len(filled.buffer))
<1>1. /\ AtWork(task) /\ filled.buffer # <<>>
      /\ UNCHANGED <<written, registry>>
      /\ tasks \in [Tasks -> TaskRecords] /\ judged \in [Tasks -> Seq(Units)]
      /\ written \in Nat
  BY DEF ReadLine, Runs, AtWork, environment, ReadersInv, OrderInv, LifeInv, TypeOK
<1>2. /\ line \in Seq(Units) /\ line # <<>> /\ AtMost(line, written)
      /\ rest \in Seq(Units) /\ AtMost(rest, written)
  BY <1>1, ReadsWhatIsWritten
<1>3. /\ filled \in TaskRecords /\ filled.aborted = task.aborted /\ filled.raced = task.raced
  <2>1. task \in TaskRecords /\ task.inode # NoFile /\ files \in [Inodes -> Seq(Units)]
    BY <1>1, WorksOnAFile DEF ReadersInv, OrderInv, LifeInv, TypeOK
  <2> QED
    BY <2>1, FilledTypes DEF TaskRecords
<1>4. PICK next :
        /\ tasks' = [tasks EXCEPT ![t] = next]
        /\ next.aborted = task.aborted /\ next.raced = task.raced /\ next.buffer = rest
        /\ \/ UNCHANGED judged
           \/ judged' = [judged EXCEPT ![t] = @ \o line]
  <2>1. CASE LineOf(line[1]) \in Garbled
    <3> DEFINE next == [filled EXCEPT !.buffer = rest, !.state = "waiting"]
    <3>1. tasks' = [tasks EXCEPT ![t] = next] /\ UNCHANGED judged
      BY <2>1 DEF ReadLine, Set
    <3> HIDE DEF filled, rest, line, length
    <3>2. next.aborted = task.aborted /\ next.raced = task.raced /\ next.buffer = rest
      BY <1>3 DEF TaskRecords
    <3> QED
      BY <3>1, <3>2
  <2>2. CASE LineOf(line[1]) \notin Garbled
    <3>1. PICK then \in {"reading", "waiting"} :
            Set(t, [filled EXCEPT !.buffer = rest, !.state = then,
                                  !.current_offset = @ + length])
      BY <2>2 DEF ReadLine
    <3> DEFINE next == [filled EXCEPT !.buffer = rest, !.state = then,
                                      !.current_offset = @ + length]
    <3>2. tasks' = [tasks EXCEPT ![t] = next] /\ judged' = [judged EXCEPT ![t] = @ \o line]
      BY <2>2, <3>1 DEF ReadLine, Set
    <3> HIDE DEF filled, rest, line, length
    <3>3. next.aborted = task.aborted /\ next.raced = task.raced /\ next.buffer = rest
      BY <1>3 DEF TaskRecords
    <3> QED
      BY <3>2, <3>3
  <2> QED
    BY <2>1, <2>2
<1> HIDE DEF filled, rest, line, length
<1>5. tasks'[t] = next /\ \A u \in Tasks : u # t => tasks'[u] = tasks[u]
  BY <1>1, <1>4
<1>6. BuffersWritten'
  BY <1>1, <1>2, <1>4, <1>5 DEF BuffersWritten, ReadersInv, AtMost
<1>7. Retired' = Retired /\ Confused' = Confused
  BY <1>4, <1>5 DEF Retired, Confused
<1>8. CASE UNCHANGED judged
  BY <1>1, <1>6, <1>7, <1>8 DEF Readers!vars, Retired, Confused
<1>9. CASE judged' = [judged EXCEPT ![t] = @ \o line]
  <2>1. judged'[t] = judged[t] \o line /\ judged' = [judged EXCEPT ![t] = judged'[t]]
    BY <1>1, <1>9
  <2>2. /\ Len(judged'[t]) > Len(judged[t])
        /\ \A k \in DOMAIN judged[t] : judged'[t][k] = judged[t][k]
        /\ \A k \in DOMAIN judged'[t] \ DOMAIN judged[t] : judged'[t][k] \in 1 .. written
    BY <1>1, <1>2, <2>1, AppendedPieces
  <2>3. t \notin Confused => Increasing(judged'[t])
    BY <1>4, <1>5 DEF OrderInv, Reader, Confused
  <2>4. t \in Retired \cup {registry.task}
    BY <1>1, WhoWorksWasHired
  <2>5. Readers!Judge(t)
    BY <1>1, <1>7, <2>1, <2>2, <2>3, <2>4 DEF Readers!Judge, Retired, Confused, Increasing
  <2> QED
    BY <1>6, <2>5 DEF Readers!Next
<1> QED
  BY <1>4, <1>8, <1>9

LEMMA TaskStepReaders ==
    ASSUME ReadersInv, OrderInv', NEW t \in Tasks, TaskStep(t)
    PROVE  BuffersWritten' /\ [Readers!Next]_Readers!vars
<1> DEFINE task == tasks[t]
<1>1. task \in TaskRecords
  BY DEF ReadersInv, OrderInv, LifeInv, TypeOK
<1>2. CASE ReadLine(t)
  BY <1>2, ReadStep
<1>3. CASE ~ ReadLine(t)
  <2>1. PICK next :
          /\ Set(t, next)
          /\ UNCHANGED <<environment, configured, changes, registry, judged>>
          /\ next.aborted = task.aborted
          /\ next.raced = task.raced \/ (next.raced = TRUE /\ AtWork(task))
          /\ next.buffer \in {task.buffer, <<>>}
    <3>1. CASE Start(t)
      <4> DEFINE next == IF path = NoFile
                         THEN [task EXCEPT !.state = "ended", !.missing = TRUE]
                         ELSE [task EXCEPT !.state = "reading", !.inode = path,
                                           !.current_ino = path, !.pos = Len(files[path]),
                                           !.current_offset = Len(files[path])]
      <4>1. Set(t, next)
        BY <3>1 DEF Start
      <4>2. /\ next.aborted = task.aborted /\ next.raced = task.raced
            /\ next.buffer = task.buffer
        BY <1>1 DEF TaskRecords
      <4> QED
        BY <3>1, <4>1, <4>2 DEF Start
    <3>2. CASE EndOfFile(t)
      <4>1. Set(t, [task EXCEPT !.state = "checking"])
        BY <3>2 DEF EndOfFile
      <4> QED
        BY <1>1, <3>2, <4>1 DEF EndOfFile, TaskRecords
    <3>3. CASE Stat(t)
      <4>1. PICK next \in {[task EXCEPT !.state = "waiting"], [task EXCEPT !.state = "truncated"],
                           [task EXCEPT !.state = "replaced", !.seen = path]} : Set(t, next)
        BY <3>3 DEF Stat
      <4>2. /\ next.aborted = task.aborted /\ next.raced = task.raced
            /\ next.buffer = task.buffer
        BY <1>1, <4>1 DEF TaskRecords
      <4> QED
        BY <3>3, <4>1, <4>2 DEF Stat
    <3>4. CASE OpenReplaced(t)
      <4> DEFINE race == task.raced \/ path # task.seen
                 next == IF path = NoFile
                         THEN [task EXCEPT !.state = "waiting", !.seen = NoFile]
                         ELSE Opened(task, path, task.seen, NoFile, race)
      <4>1. Set(t, next)
        BY <3>4 DEF OpenReplaced, Opened
      <4>2. race \in BOOLEAN /\ (race = task.raced \/ race = TRUE)
        BY <1>1 DEF TaskRecords
      <4>3. /\ next.aborted = task.aborted
            /\ next.raced \in {task.raced, race}
            /\ next.buffer \in {task.buffer, <<>>}
        <5> HIDE DEF race
        <5> QED
          BY <1>1 DEF TaskRecords, Opened
      <4>4. UNCHANGED <<environment, configured, changes, registry, judged>> /\ AtWork(task)
        BY <3>4 DEF OpenReplaced, AtWork
      <4> HIDE DEF next, race, task
      <4> QED
        BY <3>4, <4>1, <4>2, <4>3, <4>4
    <3>5. CASE OpenTruncated(t)
      <4> DEFINE opened == IF path = NoFile THEN task.inode ELSE path
                 race == task.raced \/ opened # task.current_ino
                 next == [task EXCEPT !.state = "waiting", !.inode = opened, !.pos = 0,
                                      !.buffer = <<>>, !.current_offset = 0, !.raced = race]
      <4>1. Set(t, next)
        BY <3>5 DEF OpenTruncated
      <4>2. race \in BOOLEAN /\ (race = task.raced \/ race = TRUE)
        BY <1>1 DEF TaskRecords
      <4>3. next.aborted = task.aborted /\ next.raced = race /\ next.buffer = <<>>
        <5> HIDE DEF race, opened
        <5> QED
          BY <1>1 DEF TaskRecords
      <4> HIDE DEF next, race
      <4> QED
        BY <3>5, <4>1, <4>2, <4>3 DEF OpenTruncated, AtWork
    <3>6. CASE Cancel(t)
      <4>1. Set(t, [task EXCEPT !.state = "ended"])
        BY <3>6 DEF Cancel
      <4>2. UNCHANGED <<environment, configured, changes, registry, judged>>
        BY <3>6 DEF Cancel
      <4>3. LET next == [task EXCEPT !.state = "ended"]
            IN  next.aborted = task.aborted /\ next.raced = task.raced /\ next.buffer = task.buffer
        BY <1>1 DEF TaskRecords
      <4> HIDE DEF task
      <4> QED
        BY <4>1, <4>2, <4>3
    <3> QED
      BY <1>3, <3>1, <3>2, <3>3, <3>4, <3>5, <3>6 DEF TaskStep
  <2> HIDE DEF task
  <2> QED
    BY <2>1, QuietStep DEF task
<1> QED
  BY <1>2, <1>3

\* The registry replaces its watcher, starts one, or sends it away.
LEMMA ReconcileReaders ==
    ASSUME ReadersInv, OrderInv', Reconcile
    PROVE  BuffersWritten' /\ [Readers!Next]_Readers!vars
<1> DEFINE a == registry.task
<1> PICK b : b = NextTask
  OBVIOUS
<1>1. /\ UNCHANGED <<written, judged>> /\ tasks \in [Tasks -> TaskRecords]
      /\ registry # NotWatched => a \in Tasks /\ a # 0
      /\ registry = NotWatched => a = 0
      /\ 0 \notin Tasks
      /\ a # 0 => tasks[a].state # "unborn"
      /\ BuffersWritten
  BY DEF Reconcile, environment, ReadersInv, OrderInv, LifeInv, Entry, TypeOK, NotWatched, Tasks
<1>2. Unborn # {} =>
        /\ b \in Tasks /\ tasks[b].state = "unborn" /\ b # a
        /\ ~ tasks[b].aborted /\ judged[b] = <<>>
  <2>1. Unborn # {} => b \in Tasks /\ tasks[b].state = "unborn"
    BY DEF Unborn, NextTask
  <2> QED
    BY <1>1, <2>1 DEF ReadersInv, OrderInv, LifeInv, Life
<1>3. ASSUME NEW u \in Tasks
      PROVE  LET old == [tasks[u] EXCEPT !.aborted = TRUE]
                 new == [tasks[u] EXCEPT !.state = "new"]
             IN /\ old.aborted = TRUE /\ old.raced = tasks[u].raced
                /\ old.buffer = tasks[u].buffer
                /\ new.aborted = tasks[u].aborted /\ new.raced = tasks[u].raced
                /\ new.buffer = tasks[u].buffer
  BY <1>1 DEF TaskRecords
<1> HIDE DEF a
<1>4. CASE PruneMissing
  <2>1. a \in Tasks /\ a # 0 /\ tasks' = [tasks EXCEPT ![a].aborted = TRUE] /\ registry'.task = 0
    BY <1>1, <1>4 DEF PruneMissing, Abort, NotWatched, a
  <2>2. BuffersWritten'
    BY <1>1, <1>3, <2>1 DEF BuffersWritten, AtMost
  <2>3. Retired' = Retired \cup {a} /\ Confused' = Confused
    BY <1>1, <1>3, <2>1 DEF Retired, Confused
  <2>4. Readers!Dismiss
    BY <1>1, <2>1, <2>3 DEF Readers!Dismiss, Retired, Confused, a
  <2> QED
    BY <2>2, <2>4 DEF Readers!Next
<1>5. CASE AddWatcher
  <2>1. /\ a = 0 /\ Unborn # {} /\ tasks' = [tasks EXCEPT ![b].state = "new"] /\ registry'.task = b
    BY <1>1, <1>5 DEF AddWatcher
  <2>2. BuffersWritten'
    BY <1>1, <1>2, <1>3, <2>1 DEF BuffersWritten, AtMost
  <2>3. Retired' = Retired /\ Confused' = Confused /\ b \notin Retired
    BY <1>1, <1>2, <1>3, <2>1 DEF Retired, Confused
  <2>4. Readers!Hire(b)
    BY <1>1, <1>2, <2>1, <2>3 DEF Readers!Hire, Retired, Confused, a
  <2> QED
    BY <1>2, <2>1, <2>2, <2>4 DEF Readers!Next
<1>6. CASE UpdateWatcher
  <2>1. /\ a \in Tasks /\ a # 0 /\ Unborn # {}
        /\ tasks' = [[tasks EXCEPT ![a].aborted = TRUE] EXCEPT ![b].state = "new"]
        /\ registry'.task = b
    BY <1>1, <1>6 DEF UpdateWatcher, Abort, a
  <2>2. /\ \A u \in Tasks : /\ tasks'[u].buffer = tasks[u].buffer
                            /\ tasks'[u].raced = tasks[u].raced
                            /\ u = a => tasks'[u].aborted = TRUE
                            /\ u # a => tasks'[u].aborted = tasks[u].aborted
    <3> SUFFICES ASSUME NEW u \in Tasks
                 PROVE  /\ tasks'[u].buffer = tasks[u].buffer
                        /\ tasks'[u].raced = tasks[u].raced
                        /\ u = a => tasks'[u].aborted = TRUE
                        /\ u # a => tasks'[u].aborted = tasks[u].aborted
      OBVIOUS
    <3>1. tasks'[u] = IF u = a THEN [tasks[u] EXCEPT !.aborted = TRUE]
                      ELSE IF u = b THEN [tasks[u] EXCEPT !.state = "new"] ELSE tasks[u]
      BY <1>1, <1>2, <2>1
    <3> QED
      BY <1>3, <3>1
  <2>3. BuffersWritten'
    BY <1>1, <2>2 DEF BuffersWritten, AtMost
  <2>4. Retired' = Retired \cup {a} /\ Confused' = Confused /\ b \notin Retired
    <3>1. ASSUME NEW u PROVE u \in Retired' <=> u \in Retired \cup {a}
      <4>1. CASE u = a
        BY <2>1, <2>2, <4>1 DEF Retired
      <4>2. CASE u # a
        BY <2>2, <4>2 DEF Retired
      <4> QED
        BY <4>1, <4>2
    <3>2. Retired' = Retired \cup {a}
      BY <3>1
    <3>3. Confused' = Confused
      BY <2>2 DEF Confused
    <3>4. b \notin Retired
      BY <1>2, <2>1 DEF Retired
    <3> QED
      BY <3>2, <3>3, <3>4
  <2>5. Readers!Hire(b)
    BY <1>1, <1>2, <2>1, <2>4 DEF Readers!Hire, Retired, Confused, a
  <2> QED
    BY <1>2, <2>1, <2>3, <2>5 DEF Readers!Next
<1> QED
  BY <1>4, <1>5, <1>6 DEF Reconcile

LEMMA ReadersInit == Init => ReadersInv /\ Readers!Init
<1> SUFFICES ASSUME Init PROVE ReadersInv /\ Readers!Init
  OBVIOUS
<1>1. OrderInv
  BY OrderInit
<1>2. BuffersWritten
  BY DEF Init, BuffersWritten, AtMost, NoTask
<1>3. Readers!Init
  BY DEF Init, Readers!Init, NoTask, NotWatched
<1> QED
  BY <1>1, <1>2, <1>3 DEF ReadersInv

LEMMA ReadersNext ==
    ReadersInv /\ [Next]_vars => ReadersInv' /\ [Readers!Next]_Readers!vars
<1> SUFFICES ASSUME ReadersInv, [Next]_vars
             PROVE  ReadersInv' /\ [Readers!Next]_Readers!vars
  OBVIOUS
<1>1. OrderInv'
  BY OrderNext DEF ReadersInv
<1> SUFFICES BuffersWritten' /\ [Readers!Next]_Readers!vars
  BY <1>1 DEF ReadersInv
<1>2. CASE Write
  <2>1. /\ written' = written + 1 /\ written < 2 * MaxLines
        /\ UNCHANGED <<registry, tasks, judged>>
    BY <1>2 DEF Write
  <2>2. \A t \in Tasks : tasks[t].buffer \in Seq(Nat) /\ written \in Nat
    BY UnitsAreNumbers DEF ReadersInv, OrderInv, LifeInv, TypeOK, TaskRecords
  <2>3. ASSUME NEW t \in Tasks PROVE AtMost(tasks[t].buffer, written + 1)
    <3>1. AtMost(tasks[t].buffer, written)
      BY DEF ReadersInv, BuffersWritten
    <3> QED
      BY <2>2, <3>1 DEF AtMost
  <2>4. BuffersWritten'
    BY <2>1, <2>3 DEF BuffersWritten, AtMost
  <2>5. Readers!Write
    BY <2>1 DEF Readers!Write
  <2> QED
    BY <2>4, <2>5 DEF Readers!Next
<1>3. CASE Rename \/ Create \/ Reopen \/ CopyTruncate \/ Configure \/ UNCHANGED vars
  <2>1. UNCHANGED <<written, registry, tasks, judged>>
    BY <1>3 DEF Rename, Create, Reopen, CopyTruncate, Configure, vars, environment
  <2> QED
    BY <2>1 DEF Readers!vars, BuffersWritten, ReadersInv, AtMost
<1>4. CASE Reconcile
  BY <1>1, <1>4, ReconcileReaders
<1>5. CASE \E t \in Tasks : TaskStep(t)
  BY <1>1, <1>5, TaskStepReaders
<1> QED
  BY <1>2, <1>3, <1>4, <1>5 DEF Next

\* Registry and watchers keep what LogReaders promises, whatever nginx, logrotate
\* and the administrator do between any two of their steps.
THEOREM ReadersAreImplemented == Spec => ImplementsReaders
BY ReadersInit, ReadersNext, PTL DEF Spec, ImplementsReaders, Readers!Spec
=============================================================================
