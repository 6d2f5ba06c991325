------------------------ MODULE CloudflareSync_proofs ------------------------
(***************************************************************************)
(* Proofs about CloudflareSync, for every value of its constants that      *)
(* ConstantsAssumption allows; the safety theorems also assume Worker-     *)
(* Alone, which names what they need of the environment.                   *)
(***************************************************************************)
EXTENDS CloudflareSync, TLAPS, SequenceTheorems

\* What a task may be.
TaskStates ==
    [pc : {"idle", "batching", "reading", "finding", "writing", "recording"},
     got : Expressions, next : 1 .. ListCount + 1, patch : BOOLEAN]

\* What may be under way to Cloudflare.
RequestStates == [got : Expressions, patch : BOOLEAN]

\* No manual sync runs and no request takes effect after its timeout: only the
\* worker writes the rule.
WorkerAlone == Syncers = {} /\ "late" \notin Faults

-----------------------------------------------------------------------------
(* Types.                                                                  *)

\* The numbers of an instance.
LEMMA Numbers ==
    /\ Capacity \in Nat /\ Capacity > 0
    /\ ListCount \in Nat /\ ListCount > 1
    /\ MaxChanges \in Nat /\ MaxStops \in Nat
    /\ "worker" \notin Syncers
<1>1. ListCount \in Nat /\ ListCount # 0 /\ ListCount # 1
  BY ConstantsAssumption
<1>2. Capacity \in Nat /\ Capacity # 0
  BY ConstantsAssumption
<1>3. MaxChanges \in Nat /\ MaxStops \in Nat /\ "worker" \notin Syncers
  BY ConstantsAssumption
<1> QED
  BY <1>1, <1>2, <1>3

\* An expression that has read nothing is one.
LEMMA NothingIsExpression ==
    /\ Nothing \in Expressions
    /\ 1 \in Lists /\ 1 # Bans /\ Bans \in Lists
    /\ 1 \in 1 .. ListCount + 1
  BY Numbers DEF None, Nothing, Expressions, Lists, Bans

\* An idle task is a task, and a task that moves on stays one.
LEMMA TaskTypes ==
    ASSUME TypeOK, NEW x \in Tasks
    PROVE  /\ Idle \in TaskStates
           /\ task[x] \in TaskStates
           /\ RequestOf(x) \in RequestStates
           /\ \A s \in TaskStates : [task EXCEPT ![x] = s] \in [Tasks -> TaskStates]
<1>1. Idle \in TaskStates
  BY NothingIsExpression DEF Idle, TaskStates
<1>2. task \in [Tasks -> TaskStates]
  BY DEF TypeOK, TaskStates
<1>3. RequestOf(x) \in RequestStates
  BY <1>2 DEF RequestOf, RequestStates, TaskStates
<1> QED
  BY <1>1, <1>2, <1>3

\* Writing a request changes the first rule, or adds one to none.
LEMMA WrittenRules ==
    ASSUME TypeOK, NEW request \in RequestStates,
           request.patch => edge # <<>>
    PROVE  /\ Written(request) \in Seq(Expressions)
           /\ Written(request) # <<>>
           /\ request.patch => Len(Written(request)) = Len(edge)
           /\ ~request.patch => Len(Written(request)) = Len(edge) + 1
           /\ (request.patch \/ edge = <<>>) => Written(request)[1] = request.got
<1> DEFINE S == Expressions
<1>1. edge \in Seq(S) /\ request.got \in S /\ request.patch \in BOOLEAN
  BY DEF TypeOK, RequestStates
<1>2. CASE request.patch
  <2>1. 1 \in 1 .. Len(edge)
    BY <1>1, <1>2, EmptySeq, LenProperties
  <2>2. Written(request) = [edge EXCEPT ![1] = request.got]
    BY <1>2 DEF Written
  <2> HIDE DEF S
  <2> QED
    BY <1>1, <1>2, <2>1, <2>2, ExceptSeq, EmptySeq DEF S
<1>3. CASE ~request.patch
  <2>1. Written(request) = Append(edge, request.got)
    BY <1>3 DEF Written
  <2> HIDE DEF S
  <2> QED
    BY <1>1, <1>3, <2>1, AppendProperties, EmptySeq DEF S
<1> QED
  BY <1>2, <1>3

\* A patch is sent only to a rule that was found, and no rule is ever deleted.
PatchesExist ==
    /\ \A x \in Tasks : task[x].patch => edge # <<>>
    /\ \A request \in wire : request.patch => edge # <<>>

\* The types, with what the type of the rules rests on.
TypeInv == TypeOK /\ PatchesExist

\* TypeInv holds when the daemon starts.
LEMMA TypeInvInit == Init => TypeInv
<1> SUFFICES ASSUME Init PROVE TypeInv
  OBVIOUS
<1> USE Numbers DEF Init
<1>1. task \in [Tasks -> TaskStates]
  BY NothingIsExpression DEF Idle, TaskStates
<1>2. edge \in Seq(Expressions)
  <2>1. CASE edge = <<>>
    BY <2>1, EmptySeq
  <2>2. CASE edge = <<Nothing>>
    BY <2>2, NothingIsExpression
  <2> QED
    BY <2>1, <2>2
<1>3. content \in [Lists -> Versions] /\ queue \in 0 .. Capacity /\ stops \in 0 .. MaxStops
  BY DEF Versions
<1>4. recorded \in Expressions /\ mode \in Modes
  BY NothingIsExpression
<1>5. PatchesExist
  BY DEF PatchesExist, Idle
<1> QED
  BY <1>1, <1>2, <1>3, <1>4, <1>5 DEF TypeInv, TypeOK, TaskStates

\* A list that changes has another version.
LEMMA ChangedTypes ==
    ASSUME TypeOK, NEW l \in Lists, Changed(l)
    PROVE  content' \in [Lists -> Versions]
  BY Numbers DEF TypeOK, Changed, Versions

\* A list that is read makes an expression again.
LEMMA ReadTypes ==
    ASSUME TypeOK, NEW got \in Expressions, NEW l \in Lists
    PROVE  [got EXCEPT ![l] = content[l]] \in Expressions
  BY DEF TypeOK, Expressions

\* Every step keeps TypeInv.
LEMMA TypeInvNext == TypeInv /\ [Next]_vars => TypeInv'
<1> SUFFICES ASSUME TypeInv, [Next]_vars PROVE TypeInv'
  OBVIOUS
<1> USE Numbers DEF TypeInv
<1>a. /\ task \in [Tasks -> TaskStates]
      /\ "worker" \in Tasks
      /\ Syncers \subseteq Tasks
  BY DEF TypeOK, TaskStates, Tasks
<1>b. \A x \in Tasks, s \in TaskStates :
        [task EXCEPT ![x] = s] \in [Tasks -> TaskStates]
  BY <1>a
<1>c. Bans \in Lists /\ Lists = 1 .. ListCount /\ Bans = ListCount
  BY NothingIsExpression DEF Lists, Bans
<1>d. ASSUME NEW x \in Tasks, NEW pc \in {"idle", "batching", "reading", "finding", "writing", "recording"},
             Goto(x, pc), UNCHANGED <<edge, wire>>
      PROVE  task' \in [Tasks -> TaskStates] /\ PatchesExist'
  <2>1. task' \in [Tasks -> TaskStates]
    BY <1>a, <1>d DEF Goto, TaskStates
  <2>2. PatchesExist'
    BY <1>a, <1>d DEF Goto, TaskStates, PatchesExist
  <2> QED
    BY <2>1, <2>2
<1>1. ASSUME NEW w \in Writers, Change(w) PROVE TypeInv'
  <2>1. content' \in [Lists -> Versions]
    BY <1>1, ChangedTypes DEF Change
  <2> QED
    BY <1>1, <2>1 DEF Change, TypeOK, PatchesExist
<1>2. ASSUME NEW w \in Writers, Send(w) PROVE TypeInv'
  BY <1>2 DEF Send, TypeOK, PatchesExist
<1>3. CASE Expire
  <2>1. content' \in [Lists -> Versions]
    BY <1>3, <1>c, ChangedTypes DEF Expire
  <2> QED
    BY <1>3, <2>1 DEF Expire, TypeOK, PatchesExist
<1>4. CASE WorkerRecv
  <2>1. queue' \in 0 .. Capacity
    BY <1>4 DEF WorkerRecv, TypeOK
  <2>2. task' \in [Tasks -> TaskStates] /\ PatchesExist'
    BY <1>4, <1>a, <1>d DEF WorkerRecv
  <2> QED
    BY <1>4, <2>1, <2>2 DEF WorkerRecv, TypeOK, TaskStates
<1>5. CASE WorkerDrain
  <2>1. queue' \in 0 .. Capacity
    BY <1>5 DEF WorkerDrain, TypeOK
  <2>2. task' \in [Tasks -> TaskStates] /\ PatchesExist'
    BY <1>5, <1>a, <1>d DEF WorkerDrain
  <2> QED
    BY <1>5, <2>1, <2>2 DEF WorkerDrain, TypeOK, TaskStates
<1>8. ASSUME NEW s \in Syncers, SyncerStart(s) PROVE TypeInv'
  <2>1. task' \in [Tasks -> TaskStates] /\ PatchesExist'
    BY <1>8, <1>a, <1>d DEF SyncerStart
  <2> QED
    BY <1>8, <2>1 DEF SyncerStart, TypeOK, TaskStates
<1>9. ASSUME NEW x \in Tasks, UpdateStep(x) PROVE TypeInv'
  <2>a. Idle \in TaskStates /\ task[x] \in TaskStates /\ RequestOf(x) \in RequestStates
    BY TaskTypes
  <2>b. RequestOf(x).patch => edge # <<>>
    BY DEF PatchesExist, RequestOf
  <2>c. Written(RequestOf(x)) \in Seq(Expressions) /\ Written(RequestOf(x)) # <<>>
    BY <2>a, <2>b, WrittenRules
  <2>d. ASSUME GiveUp(x)
        PROVE  /\ task' \in [Tasks -> TaskStates]
               /\ abandoned' \in BOOLEAN
               /\ \A y \in Tasks : task'[y].patch => task[y].patch
    <3>1. task' \in [Tasks -> TaskStates] /\ \A y \in Tasks : task'[y].patch => task[y].patch
      BY <1>a, <2>a, <2>d DEF GiveUp, Idle
    <3> QED
      BY <2>d, <3>1 DEF GiveUp, TypeOK
  <2>e. ASSUME NEW state \in TaskStates, state.patch = task[x].patch,
               task' = [task EXCEPT ![x] = state], UNCHANGED <<edge, wire>>
        PROVE  task' \in [Tasks -> TaskStates] /\ PatchesExist'
    <3>1. task' \in [Tasks -> TaskStates]
      BY <1>b, <2>e
    <3>2. \A y \in Tasks : task'[y].patch = task[y].patch
      BY <1>a, <2>e
    <3> QED
      BY <2>e, <3>1, <3>2 DEF PatchesExist
  <2>0. CASE ReadList(x)
    <3> DEFINE l == task[x].next
               got == [task[x].got EXCEPT ![l] = content[l]]
               state == [task[x] EXCEPT !.got = got, !.next = l + 1]
    <3>1. l \in Lists /\ l + 1 \in 1 .. ListCount + 1 /\ task[x].got \in Expressions
      BY <2>0, <2>a, <1>c DEF ReadList, TaskStates
    <3>2. got \in Expressions
      BY <3>1, ReadTypes
    <3>3. task' = [task EXCEPT ![x] = state]
      BY <2>0, <2>a, <1>a DEF ReadList, TaskStates
    <3>4. state \in TaskStates /\ state.patch = task[x].patch
      <4> HIDE DEF got, l
      <4> QED
        BY <2>a, <3>1, <3>2 DEF TaskStates
    <3>5. UNCHANGED <<edge, wire>>
      BY <2>0 DEF ReadList
    <3>6. task' \in [Tasks -> TaskStates] /\ PatchesExist'
      <4> HIDE DEF state
      <4> QED
        BY <2>e, <3>3, <3>4, <3>5
    <3> QED
      BY <2>0, <3>6 DEF ReadList, TypeOK, TaskStates
  <2>0a. CASE ReadListFails(x)
    <3> DEFINE state == [task[x] EXCEPT !.next = @ + 1]
    <3>1. state \in TaskStates /\ state.patch = task[x].patch
      BY <2>0a, <2>a, <1>c DEF ReadListFails, TaskStates
    <3>2. task' = [task EXCEPT ![x] = state] /\ UNCHANGED <<edge, wire>>
      BY <2>0a, <1>a DEF ReadListFails
    <3>3. task' \in [Tasks -> TaskStates] /\ PatchesExist'
      <4> HIDE DEF state
      <4> QED
        BY <2>e, <3>1, <3>2
    <3>4. abandoned' \in BOOLEAN
      BY <2>0a DEF ReadListFails, TypeOK
    <3> QED
      BY <2>0a, <3>3, <3>4 DEF ReadListFails, TypeOK, TaskStates
  <2>0b. CASE ReadBans(x)
    <3> DEFINE got == [task[x].got EXCEPT ![Bans] = content[Bans]]
               state == [task[x] EXCEPT !.got = got, !.next = Bans + 1, !.pc = "finding"]
    <3>1. Bans + 1 \in 1 .. ListCount + 1 /\ task[x].got \in Expressions
      BY <2>a, <1>c DEF TaskStates
    <3>2. got \in Expressions
      BY <3>1, <1>c, ReadTypes
    <3>3. task' = [task EXCEPT ![x] = state]
      BY <2>0b, <2>a, <1>a DEF ReadBans, TaskStates
    <3>4. state \in TaskStates /\ state.patch = task[x].patch
      <4> HIDE DEF got
      <4> QED
        BY <2>a, <3>1, <3>2 DEF TaskStates
    <3>5. UNCHANGED <<edge, wire>>
      BY <2>0b DEF ReadBans
    <3>6. task' \in [Tasks -> TaskStates] /\ PatchesExist'
      <4> HIDE DEF state
      <4> QED
        BY <2>e, <3>3, <3>4, <3>5
    <3>7. abandoned' \in BOOLEAN
      BY <2>0b DEF ReadBans, TypeOK, IsPartial
    <3> QED
      BY <2>0b, <3>6, <3>7 DEF ReadBans, TypeOK, TaskStates
  <2>0c. CASE ReadBansFails(x)
    <3>1. PatchesExist'
      BY <2>0c, <2>d DEF ReadBansFails, PatchesExist
    <3> QED
      BY <2>0c, <2>d, <3>1 DEF ReadBansFails, TypeOK, TaskStates
  <2>0d. CASE Skip(x)
    <3>1. task' \in [Tasks -> TaskStates] /\ PatchesExist'
      BY <2>0d, <1>d DEF Skip
    <3>2. abandoned' \in BOOLEAN
      BY <2>0d DEF Skip, TypeOK
    <3> QED
      BY <2>0d, <3>1, <3>2 DEF Skip, TypeOK, TaskStates
  <2>1. CASE Find(x)
    <3> DEFINE found == edge # <<>>
    <3>1. task' = [task EXCEPT ![x].pc = "writing", ![x].patch = found]
      BY <2>1 DEF Find
    <3>2. found \in BOOLEAN
      OBVIOUS
    <3>3. task' \in [Tasks -> TaskStates]
      <4> HIDE DEF found
      <4> DEFINE state == [task[x] EXCEPT !.pc = "writing", !.patch = found]
      <4>1. task' = [task EXCEPT ![x] = state]
        BY <1>a, <3>1
      <4>2. state \in TaskStates
        BY <2>a, <3>2 DEF TaskStates
      <4> HIDE DEF state
      <4> QED
        BY <1>b, <4>1, <4>2
    <3>4. PatchesExist'
      BY <2>1, <1>a DEF Find, TaskStates, PatchesExist
    <3> QED
      BY <2>1, <3>3, <3>4 DEF Find, TypeOK, TaskStates
  <2>2. CASE FindFails(x)
    <3>1. PatchesExist'
      BY <2>2, <2>d DEF FindFails, PatchesExist
    <3> QED
      BY <2>2, <2>d, <3>1 DEF FindFails, TypeOK, TaskStates
  <2>3. CASE Write(x)
    <3>1. task' \in [Tasks -> TaskStates]
      BY <2>3, <1>a DEF Write, Goto, TaskStates
    <3>2. edge' \in Seq(Expressions) /\ edge' # <<>>
      BY <2>3, <2>c DEF Write
    <3>3. PatchesExist'
      BY <3>2 DEF PatchesExist
    <3> QED
      BY <2>3, <3>1, <3>2, <3>3 DEF Write, TypeOK, TaskStates
  <2>4. CASE WriteFails(x)
    <3>1. edge' \in Seq(Expressions) /\ (edge # <<>> => edge' # <<>>)
      BY <2>4, <2>c DEF WriteFails, TypeOK
    <3>2. wire' \in SUBSET RequestStates /\ wire' \subseteq wire \cup {RequestOf(x)}
      BY <2>4, <2>a DEF WriteFails, TypeOK, RequestStates
    <3>3. PatchesExist'
      BY <2>4, <2>d, <2>b, <3>1, <3>2 DEF WriteFails, PatchesExist
    <3> QED
      BY <2>4, <2>d, <3>1, <3>2, <3>3 DEF WriteFails, TypeOK, TaskStates, RequestStates
  <2>5. CASE Record(x)
    <3>1. task' \in [Tasks -> TaskStates] /\ recorded' \in Expressions
      BY <2>5, <1>a, <2>a DEF Record, TaskStates
    <3>2. PatchesExist'
      BY <2>5, <1>a DEF Record, PatchesExist, Idle
    <3> QED
      BY <2>5, <3>1, <3>2 DEF Record, TypeOK, TaskStates
  <2>6. CASE RecordFails(x)
    <3>1. PatchesExist'
      BY <2>6, <2>d DEF RecordFails, PatchesExist
    <3> QED
      BY <2>6, <2>d, <3>1 DEF RecordFails, TypeOK, TaskStates
  <2> QED
    BY <1>9, <2>0, <2>0a, <2>0b, <2>0c, <2>0d, <2>1, <2>2, <2>3, <2>4, <2>5, <2>6
    DEF UpdateStep
<1>10. CASE LateWrite
  <2>1. PICK request \in wire : edge' = Written(request) /\ wire' = wire \ {request}
    BY <1>10 DEF LateWrite
  <2>2. request \in RequestStates /\ (request.patch => edge # <<>>)
    BY DEF TypeOK, RequestStates, PatchesExist
  <2>3. edge' \in Seq(Expressions) /\ edge' # <<>>
    BY <2>1, <2>2, WrittenRules
  <2>4. UNCHANGED <<mode, content, recorded, writer, queue, task, stops, abandoned>>
    BY <1>10 DEF LateWrite
  <2>5. PatchesExist'
    BY <2>3 DEF PatchesExist
  <2> QED
    BY <2>1, <2>3, <2>4, <2>5 DEF TypeOK
<1>11. CASE Restart
  <2> DEFINE writing == {RequestOf(x) : x \in {y \in Tasks : task[y].pc = "writing"}}
  <2>1. \A request \in writing :
          request \in RequestStates /\ (request.patch => edge # <<>>)
    <3> TAKE request \in writing
    <3>1. PICK x \in {y \in Tasks : task[y].pc = "writing"} : request = RequestOf(x)
      OBVIOUS
    <3>2. x \in Tasks
      OBVIOUS
    <3>3. request \in RequestStates
      BY <3>1, <3>2, TaskTypes
    <3>4. request.patch = task[x].patch
      BY <3>1 DEF RequestOf
    <3>5. request.patch => edge # <<>>
      BY <3>2, <3>4 DEF PatchesExist
    <3> QED
      BY <3>3, <3>5
  <2>2. wire' \subseteq wire \cup writing
    BY <1>11 DEF Restart
  <2>3. edge' = edge
    BY <1>11 DEF Restart
  <2>4. task' = [x \in Tasks |-> Idle]
    BY <1>11 DEF Restart
  <2>5. task' \in [Tasks -> TaskStates]
    BY <2>4, NothingIsExpression DEF Idle, TaskStates
  <2>6. PatchesExist'
    BY <2>1, <2>2, <2>3, <2>4 DEF PatchesExist, Idle
  <2>7. wire' \subseteq RequestStates
    BY <2>1, <2>2 DEF TypeOK, RequestStates
  <2>8. stops' \in 0 .. MaxStops /\ queue' \in 0 .. Capacity /\ mode' \in Modes
    BY <1>11 DEF Restart, TypeOK
  <2> QED
    BY <1>11, <2>5, <2>6, <2>7, <2>8 DEF Restart, TypeOK, TaskStates, RequestStates
<1>12. CASE UNCHANGED vars
  BY <1>12 DEF vars, TypeOK, PatchesExist
<1> QED
  BY <1>1, <1>2, <1>3, <1>4, <1>5, <1>8, <1>9, <1>10, <1>11, <1>12 DEF Next, WorkerStep

\* Every variable keeps its type; above all the queue never exceeds the bound
\* of the channel (worker.rs:45).
THEOREM TypeCorrect == Spec => []TypeOK
<1>1. TypeInv => TypeOK
  BY DEF TypeInv
<1> QED
  BY <1>1, TypeInvInit, TypeInvNext, PTL DEF Spec

-----------------------------------------------------------------------------
(* The rounds of the worker.                                               *)

Round == {"reading", "finding", "writing", "recording"}

\* There will be another round, or a failure is not made good.
Covered == Unread \/ abandoned

\* Between rounds the rule and the record are those of the store.
RestInv ==
    task["worker"].pc = "idle" => Covered \/ (recorded = content /\ ~EdgeIsStale)

\* What a round has read: all the lists when it is past reading, none before.
ReadInv ==
    LET t == task["worker"]
    IN  /\ t.pc = "reading" => t.next < Bans + 1
        /\ t.pc \in {"finding", "writing", "recording"} => t.next = Bans + 1
        /\ t.pc \notin Round => t.next = 1
        /\ \A l \in Lists : l >= t.next => t.got[l] = None

\* A list that was read is as it was read, or there will be another round; while the
\* lists are read, only one that could not be read is excepted.
RoundInv ==
    LET t == task["worker"]
    IN  t.pc \in Round => \A l \in Lists : l < t.next =>
            /\ Covered \/ t.got[l] = content[l]
            /\ t.pc = "reading" => Unread \/ t.got[l] \in {content[l], None}

\* What the round has found, and then what it has written.
RuleInv ==
    /\ Len(edge) <= 1
    /\ task["worker"].pc = "writing" =>
          (task["worker"].patch <=> edge # <<>>)
    /\ task["worker"].pc = "recording" =>
          abandoned \/ (edge # <<>> /\ edge[1] = task["worker"].got)

WorkerInv == TypeInv /\ wire = {} /\ RestInv /\ ReadInv /\ RoundInv /\ RuleInv

\* WorkerInv holds when the daemon starts.
LEMMA WorkerInvInit == Init => WorkerInv
<1> SUFFICES ASSUME Init PROVE WorkerInv
  OBVIOUS
<1>1. task["worker"] = Idle /\ queue > 0
  BY DEF Init, Tasks
<1>2. Len(edge) <= 1
  <2>1. CASE edge = <<>>
    BY <2>1, EmptySeq
  <2>2. CASE edge = <<Nothing>>
    BY <2>2
  <2> QED
    BY <2>1, <2>2 DEF Init
<1>3. ReadInv
  BY <1>1 DEF ReadInv, Idle, Nothing, Round
<1> QED
  BY <1>1, <1>2, <1>3, TypeInvInit
  DEF Init, WorkerInv, RestInv, RoundInv, RuleInv, Covered, Unread, Idle, Round

\* A step that leaves the worker and the rule alone keeps WorkerInv when it leaves another
\* round to come, or a failure that is not made good and the lists already read.
LEMMA OthersKeep ==
    ASSUME WorkerInv, UNCHANGED <<task, edge, wire>>, abandoned => abandoned',
           \/ Unread'
           \/ /\ abandoned' /\ (Unread => Unread')
              /\ \A l \in Lists : l < Bans => content'[l] = content[l]
    PROVE  RestInv' /\ ReadInv' /\ RoundInv' /\ RuleInv' /\ wire' = {}
<1>1. Covered'
  BY DEF Covered
<1>2. ReadInv'
  BY DEF WorkerInv, ReadInv
<1>4. RoundInv'
  <2> SUFFICES ASSUME task["worker"].pc = "reading", NEW l \in Lists, l < task["worker"].next, ~Unread'
               PROVE  task["worker"].got[l] \in {content'[l], None}
    BY <1>1 DEF RoundInv
  <2>1. task["worker"].next < Bans + 1 /\ task["worker"].next \in Nat /\ Bans \in Nat /\ l \in Nat
    BY Numbers, TaskTypes DEF WorkerInv, ReadInv, TypeInv, TypeOK, TaskStates, Tasks, Bans, Lists
  <2>2. l < Bans
    BY <2>1
  <2>3. Unread \/ task["worker"].got[l] \in {content[l], None}
    BY DEF WorkerInv, RoundInv, Round
  <2> QED
    BY <2>2, <2>3
<1>5. RuleInv'
  BY DEF WorkerInv, RuleInv
<1> QED
  BY <1>1, <1>2, <1>4, <1>5 DEF RestInv, WorkerInv

\* Every step keeps WorkerInv: a change leaves its writer sending, a drain is
\* followed by a read, and a failure is remembered as abandoned.
LEMMA WorkerInvNext ==
    ASSUME WorkerAlone, WorkerInv, [Next]_vars
    PROVE  WorkerInv'
<1> USE DEF WorkerInv
<1> DEFINE t == task["worker"]
<1>a. TypeInv'
  BY TypeInvNext
<1>b. Tasks = {"worker"} /\ "late" \notin Faults
  BY DEF WorkerAlone, Tasks
<1>c. /\ task \in [Tasks -> TaskStates]
      /\ writer \in [Writers -> {"idle", "sending"}]
      /\ queue \in Nat
      /\ content \in [Lists -> Versions]
  BY Numbers DEF TypeInv, TypeOK, TaskStates
<1>d. /\ Lists = 1 .. Bans /\ Bans \in Nat /\ 1 < Bans
      /\ t.next \in Nat /\ t.next >= 1 /\ t.got \in [Lists -> Versions \cup {None}]
  BY <1>b, <1>c, Numbers DEF Lists, Bans, TaskStates, Expressions
<1>e. \A l \in Lists : content[l] # None
  BY <1>c, Numbers DEF Versions, None
<1> DEFINE Now == RestInv' /\ ReadInv' /\ RoundInv' /\ RuleInv' /\ wire' = {}
<1>1. ASSUME NEW w \in Writers, Change(w) PROVE Now
  <2>1. Unread' /\ UNCHANGED <<task, edge, wire, abandoned>>
    BY <1>1, <1>c DEF Change, Unread
  <2> QED
    BY <2>1, OthersKeep
<1>2. ASSUME NEW w \in Writers, Send(w) PROVE Now
  <2>1. Unread' /\ UNCHANGED <<task, edge, wire, abandoned>>
    BY <1>2, <1>c DEF Send, Unread
  <2> QED
    BY <2>1, OthersKeep
<1>3. ASSUME Expire PROVE Now
  <2>1. abandoned' /\ UNCHANGED <<task, edge, wire, queue, writer>>
    BY <1>3 DEF Expire
  <2>2. \A l \in Lists : l < Bans => content'[l] = content[l]
    BY <1>3, <1>c, <1>d DEF Expire, Changed
  <2>3. Unread => Unread'
    BY <2>1 DEF Unread
  <2> QED
    BY <2>1, <2>2, <2>3, OthersKeep
<1>4. ASSUME WorkerRecv PROVE Now
  <2>1. /\ t.pc = "idle" /\ t'.pc = "batching" /\ UNCHANGED <<edge, wire>>
        /\ t'.got = t.got /\ t'.next = t.next
    BY <1>4, <1>b, <1>c DEF WorkerRecv, Goto, TaskStates
  <2>2. ReadInv'
    BY <2>1 DEF ReadInv, Round
  <2> QED
    BY <2>1, <2>2 DEF RestInv, RoundInv, RuleInv, Round
<1>5. ASSUME WorkerDrain PROVE Now
  <2>1. /\ t.pc = "batching" /\ t'.pc = "reading" /\ UNCHANGED <<edge, wire>>
        /\ t'.got = t.got /\ t'.next = t.next
    BY <1>5, <1>b, <1>c DEF WorkerDrain, Goto, TaskStates
  <2>2. ReadInv' /\ t'.next = 1
    BY <1>d, <2>1 DEF ReadInv, Round
  <2>3. RoundInv'
    BY <1>d, <2>2 DEF RoundInv
  <2> QED
    BY <2>1, <2>2, <2>3 DEF RestInv, RuleInv
<1>6. ASSUME ReadList("worker") \/ ReadListFails("worker") PROVE Now
  <2>1. /\ t.pc = "reading" /\ t'.pc = "reading" /\ t.next < Bans /\ t'.next = t.next + 1
        /\ \A l \in Lists : l # t.next => t'.got[l] = t.got[l]
        /\ t'.got[t.next] = content[t.next] \/ (t'.got[t.next] = t.got[t.next] /\ abandoned')
        /\ UNCHANGED <<content, queue, writer, edge, wire>> /\ (abandoned => abandoned')
    <3>1. CASE ReadList("worker")
      <4>1. t' = [t EXCEPT !.got = [t.got EXCEPT ![t.next] = content[t.next]], !.next = t.next + 1]
        BY <3>1, <1>b, <1>c DEF ReadList, TaskStates
      <4>2. t'.got = [t.got EXCEPT ![t.next] = content[t.next]] /\ t'.next = t.next + 1
            /\ t'.pc = t.pc
        BY <4>1, <1>b, <1>c DEF TaskStates
      <4>3. t.next \in Lists
        BY <3>1, <1>d DEF ReadList
      <4> QED
        BY <3>1, <4>2, <4>3, <1>d DEF ReadList
    <3>2. CASE ReadListFails("worker")
      BY <3>2, <1>b, <1>c DEF ReadListFails, TaskStates
    <3> QED
      BY <1>6, <3>1, <3>2
  <2>3. t.next # 1 => (Unread => Unread')
    BY <2>1 DEF Unread
  <2>4. t.next \in Lists /\ t.got[t.next] = None
    BY <1>d, <2>1 DEF ReadInv
  <2>5. ReadInv'
    BY <1>d, <2>1 DEF ReadInv, Round
  <2>6. RoundInv'
    <3> SUFFICES ASSUME NEW l \in Lists, l < t.next + 1
                 PROVE  /\ Covered' \/ t'.got[l] = content[l]
                        /\ Unread' \/ t'.got[l] \in {content[l], None}
      BY <2>1 DEF RoundInv
    <3>1. CASE l = t.next
      BY <2>1, <2>4, <3>1 DEF Covered
    <3>2. CASE l # t.next
      <4>1. l < t.next /\ t.next # 1 /\ t'.got[l] = t.got[l]
        BY <1>d, <2>1, <3>2
      <4>2. (Covered => Covered') /\ (Unread => Unread')
        BY <2>1, <2>3, <4>1 DEF Covered
      <4> QED
        BY <2>1, <4>1, <4>2 DEF RoundInv, Round
    <3> QED
      BY <3>1, <3>2
  <2> QED
    BY <2>1, <2>5, <2>6 DEF RestInv, RuleInv
<1>7. ASSUME ReadBans("worker") PROVE Now
  <2>1. /\ t.pc = "reading" /\ t'.pc = "finding" /\ t.next = Bans /\ t'.next = Bans + 1
        /\ t'.got = [t.got EXCEPT ![Bans] = content[Bans]]
        /\ abandoned' = IsPartial(t'.got)
        /\ UNCHANGED <<content, queue, writer, edge, wire>>
    <3>1. t' = [t EXCEPT !.got = [t.got EXCEPT ![Bans] = content[Bans]], !.next = Bans + 1, !.pc = "finding"]
      BY <1>7, <1>b, <1>c DEF ReadBans, TaskStates
    <3>2. t'.got = [t.got EXCEPT ![Bans] = content[Bans]] /\ t'.next = Bans + 1
          /\ t'.pc = "finding"
      BY <3>1, <1>b, <1>c DEF TaskStates
    <3> QED
      BY <1>7, <3>2 DEF ReadBans
  <2>2. \A l \in Lists : t'.got[l] = IF l = Bans THEN content[Bans] ELSE t.got[l]
    BY <1>d, <2>1
  <2>3. ReadInv'
    BY <1>d, <2>1 DEF ReadInv, Round
  <2>4. RoundInv'
    <3> SUFFICES ASSUME NEW l \in Lists, ~Covered'
                 PROVE  t'.got[l] = content[l]
      BY <2>1 DEF RoundInv
    <3>1. CASE l = Bans
      BY <2>2, <3>1
    <3>2. CASE l # Bans
      <4>1. l < t.next /\ t'.got[l] = t.got[l]
        BY <1>d, <2>1, <2>2, <3>2
      <4>2. ~Unread
        BY <1>d, <2>1 DEF Covered, Unread
      <4>3. t'.got[l] # None
        BY <2>1 DEF Covered, IsPartial
      <4> QED
        BY <2>1, <4>1, <4>2, <4>3 DEF RoundInv, Round
    <3> QED
      BY <3>1, <3>2
  <2> QED
    BY <2>1, <2>3, <2>4 DEF RestInv, RuleInv
<1>8. ASSUME UpdateStep("worker"), t.pc # "reading" \/ ReadBansFails("worker") PROVE Now
  <2>a. task["worker"] \in TaskStates /\ RequestOf("worker") \in RequestStates
    BY <1>b, <1>c, TaskTypes DEF TypeInv
  <2>b. /\ RequestOf("worker").got = task["worker"].got
        /\ RequestOf("worker").patch = task["worker"].patch
    BY DEF RequestOf
  <2>c. ASSUME GiveUp("worker"), wire' = wire, Len(edge') <= 1
        PROVE  Now
    <3>1. t' = Idle /\ abandoned'
      BY <2>c, <1>b, <1>c DEF GiveUp
    <3> QED
      BY <1>d, <2>c, <3>1 DEF RestInv, ReadInv, RoundInv, RuleInv, Covered, Idle, Nothing, Round
  <2>d. ASSUME task["worker"].pc = "writing"
        PROVE  /\ Len(Written(RequestOf("worker"))) <= 1
               /\ Written(RequestOf("worker")) # <<>>
               /\ Written(RequestOf("worker"))[1] = task["worker"].got
    <3>1. task["worker"].patch <=> edge # <<>>
      BY <2>d DEF RuleInv
    <3>2. Len(edge) <= 1 /\ (edge = <<>> => Len(edge) = 0)
      BY EmptySeq DEF RuleInv
    <3>3. RequestOf("worker").patch => edge # <<>>
      BY <2>b, <3>1
    <3>4. RequestOf("worker").patch \/ edge = <<>>
      BY <2>b, <3>1
    <3>5. /\ Written(RequestOf("worker")) # <<>>
          /\ Written(RequestOf("worker"))[1] = RequestOf("worker").got
      BY <2>a, <3>3, <3>4, WrittenRules DEF TypeInv
    <3>6. Len(Written(RequestOf("worker"))) <= 1
      BY <2>a, <3>2, <3>3, <3>4, WrittenRules DEF TypeInv
    <3> QED
      BY <2>b, <3>5, <3>6
  \* A round that goes on keeps what it has read.
  <2>e. ASSUME t.pc \in {"finding", "writing"}, t'.pc \in {"writing", "recording"},
               t'.got = t.got, t'.next = t.next,
               UNCHANGED <<content, queue, writer>>, abandoned => abandoned'
        PROVE  RestInv' /\ ReadInv' /\ RoundInv'
    <3>1. Covered => Covered'
      BY <2>e DEF Covered, Unread
    <3>2. ReadInv'
      BY <2>e DEF ReadInv, Round
    <3>3. RoundInv'
      BY <2>e, <3>1 DEF RoundInv, Round
    <3> QED
      BY <2>e, <3>2, <3>3 DEF RestInv
  <2>0. CASE ReadBansFails("worker")
    BY <2>0, <2>c DEF ReadBansFails, RuleInv
  <2>0a. CASE Skip("worker")
    <3>1. t.pc = "finding" /\ t'.pc = "recording" /\ t'.got = t.got /\ t'.next = t.next
      BY <2>0a, <1>b, <1>c DEF Skip, Goto, TaskStates
    <3>2. UNCHANGED <<content, queue, writer, edge, wire>> /\ abandoned'
      BY <2>0a DEF Skip
    <3> QED
      BY <2>e, <3>1, <3>2 DEF RuleInv
  <2>1. CASE Find("worker")
    <3>1. /\ t.pc = "finding" /\ t'.pc = "writing" /\ t'.got = t.got /\ t'.next = t.next
          /\ t'.patch = (edge # <<>>)
      BY <2>1, <1>b, <1>c DEF Find, TaskStates
    <3>2. UNCHANGED <<content, queue, writer, abandoned, edge, wire>>
      BY <2>1 DEF Find
    <3>3. RuleInv'
      BY <3>1, <3>2 DEF RuleInv
    <3> QED
      BY <2>e, <3>1, <3>2, <3>3
  <2>2. CASE FindFails("worker")
    BY <2>2, <2>c DEF FindFails, RuleInv
  <2>3. CASE Write("worker")
    <3>1. t.pc = "writing" /\ t'.pc = "recording" /\ t'.got = t.got /\ t'.next = t.next
      BY <2>3, <1>b, <1>c DEF Write, Goto, TaskStates
    <3>2. /\ edge' = Written(RequestOf("worker"))
          /\ UNCHANGED <<content, queue, writer, abandoned, wire>>
      BY <2>3 DEF Write
    <3>3. RuleInv'
      BY <3>1, <3>2, <2>d DEF RuleInv
    <3> QED
      BY <2>e, <3>1, <3>2, <3>3
  <2>4. CASE WriteFails("worker")
    <3>1. Len(edge') <= 1 /\ wire' = wire /\ GiveUp("worker")
      BY <2>4, <2>d, <1>b DEF WriteFails, RuleInv
    <3> QED
      BY <2>c, <3>1
  <2>5. CASE Record("worker")
    <3>1. t.pc = "recording" /\ t' = Idle /\ recorded' = t.got
      BY <2>5, <1>b, <1>c DEF Record
    <3>2. UNCHANGED <<content, queue, writer, abandoned, edge, wire>>
      BY <2>5 DEF Record
    <3>3. Covered => Covered'
      BY <3>1, <3>2 DEF Covered, Unread
    <3>4. abandoned \/ (edge # <<>> /\ edge[1] = t.got)
      BY <3>1 DEF RuleInv
    <3>5. Covered \/ t.got = content
      <4> SUFFICES ASSUME ~Covered PROVE t.got = content
        OBVIOUS
      <4>1. t.next = Bans + 1
        BY <3>1 DEF ReadInv
      <4>2. \A l \in Lists : t.got[l] = content[l]
        BY <1>d, <3>1, <4>1 DEF RoundInv, Round
      <4> QED
        BY <1>c, <1>d, <4>2
    <3>6. RestInv'
      BY <3>1, <3>2, <3>3, <3>4, <3>5 DEF RestInv, Covered, EdgeIsStale
    <3>7. ReadInv'
      BY <3>1 DEF ReadInv, Idle, Nothing, Round
    <3>8. t'.pc = "idle"
      BY <3>1 DEF Idle
    <3> QED
      BY <3>2, <3>6, <3>7, <3>8 DEF RoundInv, RuleInv, Round
  <2>6. CASE RecordFails("worker")
    BY <2>6, <2>c DEF RecordFails, RuleInv
  <2>7. \/ ~ReadList("worker") /\ ~ReadListFails("worker") /\ ~ReadBans("worker")
        \/ ReadBansFails("worker")
    BY <1>8 DEF ReadList, ReadListFails, ReadBans
  <2> QED
    BY <1>8, <2>0, <2>0a, <2>1, <2>2, <2>3, <2>4, <2>5, <2>6, <2>7 DEF UpdateStep
<1>9. ASSUME LateWrite PROVE Now
  BY <1>9 DEF LateWrite
<1>10. ASSUME Restart PROVE Now
  <2>1. t' = Idle /\ queue' > 0
    BY <1>10, <1>b DEF Restart
  <2>2. wire' = {} /\ edge' = edge
    BY <1>10, <1>b DEF Restart
  <2>3. ReadInv'
    BY <2>1 DEF ReadInv, Idle, Nothing, Round
  <2>4. t'.pc = "idle"
    BY <2>1 DEF Idle
  <2> QED
    BY <2>1, <2>2, <2>3, <2>4 DEF RestInv, RoundInv, RuleInv, Covered, Unread, Round
<1>11. ASSUME UNCHANGED vars PROVE Now
  BY <1>11 DEF vars, RestInv, ReadInv, RoundInv, RuleInv, Covered, Unread, EdgeIsStale
<1>12. UpdateStep("worker") => Now
  <2>1. ASSUME UpdateStep("worker"), t.pc = "reading"
        PROVE  ReadList("worker") \/ ReadListFails("worker") \/ ReadBans("worker") \/ ReadBansFails("worker")
    BY <2>1 DEF UpdateStep, Skip, Find, FindFails, Write, WriteFails, Record, RecordFails
  <2> QED
    BY <1>6, <1>7, <1>8, <2>1
<1>13. Now
  <2> HIDE DEF Now
  <2> QED
    BY <1>1, <1>2, <1>3, <1>4, <1>5, <1>9, <1>10, <1>11, <1>12, <1>b
    DEF Next, WorkerStep, WorkerAlone
<1> QED
  BY <1>a, <1>13

\* While the rule differs from the store an update is on its way, unless the
\* last round failed, was not sent, or a ban expired (worker.rs:61-97, handlers.rs:31-36).
THEOREM ChangesArePending ==
    ASSUME WorkerAlone
    PROVE  Spec => []StaleEdgeIsPending
<1>1. WorkerInv => StaleEdgeIsPending
  <2> SUFFICES ASSUME WorkerInv, EdgeIsStale, ~abandoned, ~Unread PROVE DraftIsCurrent
    BY DEF StaleEdgeIsPending, Pending
  <2> DEFINE t == task["worker"]
  <2>1. t \in TaskStates /\ t.pc \notin {"idle", "batching"}
    BY TaskTypes DEF WorkerInv, TypeInv, RestInv, Covered, Unread, Tasks
  <2>2. \A l \in Lists : l < t.next => t.got[l] = content[l]
    BY <2>1 DEF WorkerInv, RoundInv, Covered, TaskStates, Round
  <2>3. t.pc # "recording"
    <3> SUFFICES ASSUME t.pc = "recording" PROVE FALSE
      OBVIOUS
    <3>1. t.next = Bans + 1 /\ edge # <<>> /\ edge[1] = t.got
      BY DEF WorkerInv, ReadInv, RuleInv
    <3>2. \A l \in Lists : t.got[l] = content[l]
      BY <2>2, <3>1, Numbers DEF Lists, Bans
    <3>3. t.got = content
      BY <2>1, <3>2 DEF WorkerInv, TypeInv, TypeOK, TaskStates, Expressions
    <3> QED
      BY <3>1, <3>3 DEF EdgeIsStale
  <2> QED
    BY <2>1, <2>2, <2>3 DEF DraftIsCurrent, Drafting, TaskStates
<1> QED
  BY <1>1, WorkerInvInit, WorkerInvNext, PTL DEF Spec

\* The worker never makes a second rule, whatever fails or restarts between
\* looking for the rule and creating it (client.rs:109-152).
THEOREM NoSecondRule ==
    ASSUME WorkerAlone
    PROVE  Spec => []OneRule
<1>1. WorkerInv => OneRule
  BY DEF WorkerInv, RuleInv, OneRule
<1> QED
  BY <1>1, WorkerInvInit, WorkerInvNext, PTL DEF Spec

\* At rest after a round that was sent and did not fail, the store records what is in
\* force (worker.rs:87-90, client.rs:56-58).
THEOREM RecordIsInForce ==
    ASSUME WorkerAlone
    PROVE  Spec => []SettledMeansRecorded
<1>1. WorkerInv => SettledMeansRecorded
  BY DEF WorkerInv, RestInv, Covered, Unread, Pending, SettledMeansRecorded
<1> QED
  BY <1>1, WorkerInvInit, WorkerInvNext, PTL DEF Spec

-----------------------------------------------------------------------------
(* The rule is a copy of the store.                                        *)

\* With one rule at most there is one copy at most.
LEMMA CopyOfOne ==
    ASSUME NEW S, NEW e \in Seq(S), Len(e) <= 1
    PROVE  {e[i] : i \in DOMAIN e} = IF e = <<>> THEN {} ELSE {e[1]}
<1>1. DOMAIN e = 1 .. Len(e) /\ Len(e) \in Nat
  OBVIOUS
<1>2. CASE e = <<>>
  BY <1>2
<1>3. CASE e # <<>>
  <2>1. Len(e) = 1
    BY <1>1, <1>3, EmptySeq
  <2>2. DOMAIN e = {1}
    BY <1>1, <2>1
  <2> QED
    BY <1>3, <2>2
<1> QED
  BY <1>2, <1>3

\* The copies in a state of the worker.
LEMMA CopiesOf ==
    ASSUME WorkerInv
    PROVE  Copies = IF edge = <<>> THEN {} ELSE {edge[1]}
<1>1. edge \in Seq(Expressions) /\ Len(edge) <= 1
  BY DEF WorkerInv, TypeInv, TypeOK, RuleInv
<1> QED
  BY <1>1, CopyOfOne DEF Copies

\* The daemon starts with a copy that is due.
LEMMA MirrorInit == ASSUME Init PROVE Mirror!Init
<1>1. Copies \in {{}, {Nothing}}
  BY CopiesOf, WorkerInvInit DEF Init
<1>2. Draft = Nothing /\ Taken = 0
  BY DEF Init, Idle, Tasks, Draft, Taken, Drafting
<1>3. Unread = TRUE
  BY DEF Init, Unread
<1> QED
  BY <1>1, <1>2, <1>3 DEF Init, Mirror!Init, Mirror!Nothing, Mirror!Lists, Nothing, Lists

\* Every step of the worker and of its environment is a step of the mirror, or none.
LEMMA MirrorNext ==
    ASSUME WorkerAlone, WorkerInv, WorkerInv', [Next]_vars
    PROVE  [Mirror!Next]_Mirror!vars
<1> DEFINE t == task["worker"]
<1>a. Tasks = {"worker"} /\ "late" \notin Faults
  BY DEF WorkerAlone, Tasks
<1>b. /\ task \in [Tasks -> TaskStates] /\ t \in TaskStates
      /\ writer \in [Writers -> {"idle", "sending"}]
      /\ queue \in Nat /\ content \in [Lists -> Versions] /\ abandoned \in BOOLEAN
  BY <1>a, Numbers DEF WorkerInv, TypeInv, TypeOK, TaskStates
<1>c. Copies = IF edge = <<>> THEN {} ELSE {edge[1]}
  BY CopiesOf
<1>d. Copies' = IF edge' = <<>> THEN {} ELSE {edge'[1]}
  <2>1. edge' \in Seq(Expressions) /\ Len(edge') <= 1
    BY DEF WorkerInv, TypeInv, TypeOK, RuleInv
  <2> QED
    BY <2>1, CopyOfOne DEF Copies
<1>e. Unread \in BOOLEAN /\ Unread' \in BOOLEAN
  BY DEF Unread
<1>f. /\ Lists = 1 .. Bans /\ Bans \in Nat /\ 1 < Bans /\ Bans = ListCount /\ Lists = Mirror!Lists
      /\ t.next \in Nat /\ t.next >= 1 /\ t.got \in [Lists -> Versions \cup {None}]
  BY <1>b, Numbers DEF Lists, Bans, TaskStates, Expressions, Mirror!Lists
<1>g. Nothing = Mirror!Nothing
  BY <1>f DEF Nothing, Mirror!Nothing
<1>h. t.pc \notin {"reading", "finding", "writing"} => Draft = Nothing /\ Taken = 0
  BY DEF Draft, Taken, Drafting
<1>i. t'.pc \notin {"reading", "finding", "writing"} => Draft' = Nothing /\ Taken' = 0
  BY DEF Draft, Taken, Drafting
<1>j. t.pc \in {"reading", "finding", "writing"} => Draft = t.got /\ Taken = t.next - 1
  BY DEF Draft, Taken, Drafting
<1>k. t'.pc \in {"reading", "finding", "writing"} => Draft' = t'.got /\ Taken' = t'.next - 1
  BY DEF Draft, Taken, Drafting
<1> DEFINE Goal == Mirror!Next \/ UNCHANGED <<content, Copies, Draft, Taken, Unread, abandoned>>
\* The step of a task that ends a round, and leaves the copy.
<1>l. ASSUME t' = Idle, t.pc \in {"finding", "writing", "recording"} \/ (t.pc = "reading" /\ t.next # 1),
             UNCHANGED <<edge, content, queue, writer>>, abandoned' = TRUE
      PROVE  Goal
  <2>1. t'.pc = "idle"
    BY <1>l DEF Idle
  <2>2. Unread' = Unread
    BY <1>l, <2>1 DEF Unread
  <2>3. Mirror!Drop
    BY <1>c, <1>d, <1>g, <1>i, <1>l, <2>1, <2>2 DEF Mirror!Drop, Mirror!Clear
  <2> QED
    BY <2>3 DEF Mirror!Next
<1>1. ASSUME NEW w \in Writers, Change(w) PROVE Goal
  <2>1. Unread' = TRUE /\ UNCHANGED <<task, edge, abandoned>>
    BY <1>1, <1>b DEF Change, Unread
  <2>2. PICK l \in Lists : content[l] < MaxChanges /\ content' = [content EXCEPT ![l] = @ + 1]
    BY <1>1 DEF Change, Changed
  <2>3. Draft' = Draft /\ Taken' = Taken /\ Copies' = Copies
    BY <1>c, <1>d, <2>1 DEF Draft, Taken, Drafting
  <2>4. Mirror!Change
    BY <1>f, <2>1, <2>2, <2>3 DEF Mirror!Change
  <2> QED
    BY <2>4 DEF Mirror!Next
<1>2. ASSUME NEW w \in Writers, Send(w) PROVE Goal
  <2>1. Unread /\ Unread'
    BY <1>2, <1>b DEF Send, Unread
  <2>2. UNCHANGED <<task, edge, abandoned, content>>
    BY <1>2 DEF Send
  <2>3. Draft' = Draft /\ Taken' = Taken /\ Copies' = Copies
    BY <1>c, <1>d, <2>2 DEF Draft, Taken, Drafting
  <2> QED
    BY <1>e, <2>1, <2>2, <2>3
<1>3. ASSUME Expire PROVE Goal
  <2>1. UNCHANGED <<task, edge, queue, writer>> /\ abandoned' = TRUE
        /\ content[Bans] < MaxChanges /\ content' = [content EXCEPT ![Bans] = @ + 1]
    BY <1>3 DEF Expire, Changed
  <2>2. Unread' = Unread
    BY <2>1 DEF Unread
  <2>3. Draft' = Draft /\ Taken' = Taken /\ Copies' = Copies
    BY <1>c, <1>d, <2>1 DEF Draft, Taken, Drafting
  <2>4. Bans \in Mirror!Lists
    BY <1>f
  <2>5. Mirror!Change
    BY <1>f, <2>1, <2>2, <2>3, <2>4 DEF Mirror!Change
  <2> QED
    BY <2>5 DEF Mirror!Next
<1>4. ASSUME WorkerRecv PROVE Goal
  <2>1. t.pc = "idle" /\ queue > 0 /\ t'.pc = "batching"
    BY <1>4, <1>a, <1>b DEF WorkerRecv, Goto, TaskStates
  <2>2. Unread /\ Unread'
    BY <2>1 DEF Unread
  <2>3. UNCHANGED <<edge, content, abandoned>>
    BY <1>4 DEF WorkerRecv
  <2> QED
    BY <1>c, <1>d, <1>e, <1>h, <1>i, <2>1, <2>2, <2>3
<1>5. ASSUME WorkerDrain PROVE Goal
  <2>1. t.pc = "batching" /\ t'.pc = "reading" /\ t'.got = t.got /\ t'.next = t.next
    BY <1>5, <1>a, <1>b DEF WorkerDrain, Goto, TaskStates
  <2>2. t.next = 1 /\ \A l \in Lists : t.got[l] = None
    BY <1>f, <2>1 DEF WorkerInv, ReadInv, Round
  <2>3. Unread /\ Unread'
    BY <2>1, <2>2 DEF Unread
  <2>4. t'.got = Nothing
    BY <1>f, <2>1, <2>2 DEF Nothing
  <2>5. Draft' = Draft /\ Taken' = Taken
    BY <1>h, <1>k, <2>1, <2>2, <2>4
  <2>6. UNCHANGED <<edge, content, abandoned>>
    BY <1>5 DEF WorkerDrain
  <2> QED
    BY <1>c, <1>d, <1>e, <2>3, <2>5, <2>6
\* The first list is read because a round is due.
<1>m. ASSUME t.pc = "reading", t.next = 1 \/ t'.pc = "finding" \/ t'.next # 1, t'.pc = "reading" \/ t'.pc = "finding",
             UNCHANGED <<queue, writer>>, t'.next = t.next + 1
      PROVE  Mirror!Begins
  <2>1. CASE t.next = 1
    BY <1>e, <1>j, <1>m, <2>1 DEF Mirror!Begins, Unread
  <2>2. CASE t.next # 1
    <3>1. Unread' = Unread
      BY <1>f, <1>m, <2>2 DEF Unread
    <3> QED
      BY <1>f, <1>j, <1>m, <2>2, <3>1 DEF Mirror!Begins
  <2> QED
    BY <2>1, <2>2
<1>6. ASSUME ReadList("worker") PROVE Goal
  <2>1. /\ t.pc = "reading" /\ t.next < Bans
        /\ UNCHANGED <<content, queue, writer, edge, wire, abandoned>>
    BY <1>6 DEF ReadList
  <2>2. t' = [t EXCEPT !.got = [t.got EXCEPT ![t.next] = content[t.next]], !.next = t.next + 1]
    BY <1>6, <1>a, <1>b DEF ReadList, TaskStates
  <2>3. t'.got = [t.got EXCEPT ![t.next] = content[t.next]] /\ t'.next = t.next + 1 /\ t'.pc = t.pc
    BY <2>2, <1>b DEF TaskStates
  <2>4. Mirror!Begins
    BY <1>m, <1>f, <2>1, <2>3
  <2>5. Taken = t.next - 1 /\ Taken' = t.next /\ Draft = t.got /\ Draft' = t'.got
    BY <1>f, <1>j, <1>k, <2>1, <2>3
  <2>6. Taken < ListCount /\ Taken' = Taken + 1 /\ Taken' # ListCount
    BY <1>f, <2>1, <2>5
  <2>7. Draft' = [Draft EXCEPT ![Taken'] = content[Taken']]
    BY <1>f, <2>3, <2>5
  <2>8. UNCHANGED <<content, Copies, abandoned>>
    BY <1>c, <1>d, <2>1
  <2>9. Mirror!Take
    BY <2>4, <2>6, <2>7, <2>8 DEF Mirror!Take
  <2> QED
    BY <2>9 DEF Mirror!Next
<1>6a. ASSUME ReadListFails("worker") PROVE Goal
  <2>1. /\ t.pc = "reading" /\ t.next < Bans /\ t'.pc = "reading" /\ t'.next = t.next + 1 /\ t'.got = t.got
        /\ UNCHANGED <<content, queue, writer, edge, wire>> /\ abandoned' = TRUE
    BY <1>6a, <1>a, <1>b DEF ReadListFails, TaskStates
  <2>2. Mirror!Begins
    BY <1>m, <1>f, <2>1
  <2>3. Taken = t.next - 1 /\ Taken' = t.next /\ Draft' = Draft
    BY <1>f, <1>j, <1>k, <2>1
  <2>4. Mirror!TakeFails
    BY <1>c, <1>d, <1>f, <2>1, <2>2, <2>3 DEF Mirror!TakeFails
  <2> QED
    BY <2>4 DEF Mirror!Next
<1>7. ASSUME ReadBans("worker") PROVE Goal
  <2>1. /\ t.pc = "reading" /\ t.next = Bans /\ abandoned' = IsPartial(t'.got)
        /\ UNCHANGED <<content, queue, writer, edge, wire>>
    BY <1>7 DEF ReadBans
  <2>2. t' = [t EXCEPT !.got = [t.got EXCEPT ![Bans] = content[Bans]], !.next = Bans + 1, !.pc = "finding"]
    BY <1>7, <1>a, <1>b DEF ReadBans, TaskStates
  <2>3. t'.got = [t.got EXCEPT ![Bans] = content[Bans]] /\ t'.next = Bans + 1 /\ t'.pc = "finding"
    BY <2>2, <1>b DEF TaskStates
  <2>4. Mirror!Begins
    BY <1>m, <1>f, <2>1, <2>3
  <2>5. Taken = Bans - 1 /\ Taken' = Bans /\ Draft = t.got /\ Draft' = t'.got
    BY <1>f, <1>j, <1>k, <2>1, <2>3
  <2>6. abandoned' = (\E l \in Mirror!Lists : Draft'[l] = None)
    BY <1>f, <2>1, <2>5 DEF IsPartial
  <2>7. Taken < ListCount /\ Taken' = Taken + 1 /\ Taken' = ListCount
    BY <1>f, <2>5
  <2>8. Draft' = [Draft EXCEPT ![Taken'] = content[Taken']]
    BY <1>f, <2>3, <2>5
  <2>9. UNCHANGED <<content, Copies>>
    BY <1>c, <1>d, <2>1
  <2>10. Mirror!Take
    BY <2>4, <2>6, <2>7, <2>8, <2>9 DEF Mirror!Take
  <2> QED
    BY <2>10 DEF Mirror!Next
<1>8. ASSUME ReadBansFails("worker") PROVE Goal
  <2>1. /\ t.pc = "reading" /\ t.next = Bans /\ t' = Idle /\ abandoned' = TRUE
        /\ UNCHANGED <<edge, content, queue, writer>>
    BY <1>8, <1>a, <1>b DEF ReadBansFails, GiveUp
  <2>2. t.next # 1
    BY <1>f, <2>1
  <2> HIDE DEF Goal
  <2> QED
    BY <1>l, <2>1, <2>2
<1>9. ASSUME UpdateStep("worker"), t.pc # "reading" PROVE Goal
  <2>a. RequestOf("worker") \in RequestStates
    BY <1>a, TaskTypes DEF WorkerInv, TypeInv
  <2>b. ASSUME GiveUp("worker"), t.pc \in {"finding", "writing", "recording"},
               UNCHANGED <<edge, content, queue, writer>>
        PROVE  Goal
    <3>1. t' = Idle /\ abandoned' = TRUE
      BY <2>b, <1>a, <1>b DEF GiveUp
    <3> QED
      BY <1>l, <2>b, <3>1
  <2>c. ASSUME t.pc = "writing", edge' = Written(RequestOf("worker")),
               t'.pc \notin {"batching", "reading", "finding", "writing"},
               UNCHANGED <<content, queue, writer>>, abandoned' \in {abandoned, TRUE}
        PROVE  Goal
    <3>1. t.patch <=> edge # <<>>
      BY <2>c DEF WorkerInv, RuleInv
    <3>2. RequestOf("worker").got = t.got /\ RequestOf("worker").patch = t.patch
      BY DEF RequestOf
    <3>3. edge' # <<>> /\ edge'[1] = t.got
      BY <2>a, <2>c, <3>1, <3>2, WrittenRules DEF WorkerInv, TypeInv
    <3>4. Draft = t.got /\ Taken = ListCount
      BY <1>f, <1>j, <2>c DEF WorkerInv, ReadInv
    <3>5. Copies' = {Draft} /\ Draft' = Mirror!Nothing /\ Taken' = 0
      BY <1>d, <1>g, <1>i, <2>c, <3>3, <3>4
    <3>6. Unread' = Unread
      BY <2>c DEF Unread
    <3>7. Mirror!Put
      BY <2>c, <3>4, <3>5, <3>6 DEF Mirror!Put, Mirror!Clear
    <3> QED
      BY <3>7 DEF Mirror!Next
  <2>0. CASE Skip("worker")
    <3>1. t.pc = "finding" /\ t'.pc = "recording"
      BY <2>0, <1>a, <1>b DEF Skip, Goto, TaskStates
    <3>2. UNCHANGED <<edge, content, queue, writer>> /\ abandoned' = TRUE
      BY <2>0 DEF Skip
    <3>3. Unread' = Unread
      BY <3>1, <3>2 DEF Unread
    <3>4. Mirror!Drop
      BY <1>c, <1>d, <1>g, <1>i, <3>1, <3>2, <3>3 DEF Mirror!Drop, Mirror!Clear
    <3> QED
      BY <3>4 DEF Mirror!Next
  <2>1. CASE Find("worker")
    <3>1. t.pc = "finding" /\ t'.pc = "writing" /\ t'.got = t.got /\ t'.next = t.next
      BY <2>1, <1>a, <1>b DEF Find, TaskStates
    <3>2. UNCHANGED <<edge, content, queue, writer, abandoned>>
      BY <2>1 DEF Find
    <3>3. Unread' = Unread
      BY <3>1, <3>2 DEF Unread
    <3>4. Draft' = Draft /\ Taken' = Taken
      BY <1>j, <1>k, <3>1
    <3> QED
      BY <1>c, <1>d, <3>2, <3>3, <3>4
  <2>2. CASE FindFails("worker")
    BY <2>2, <2>b DEF FindFails
  <2>3. CASE Write("worker")
    <3>1. t.pc = "writing" /\ t'.pc = "recording"
      BY <2>3, <1>a, <1>b DEF Write, Goto, TaskStates
    <3>2. edge' = Written(RequestOf("worker")) /\ UNCHANGED <<content, queue, writer, abandoned>>
      BY <2>3 DEF Write
    <3> QED
      BY <2>c, <3>1, <3>2
  <2>4. CASE WriteFails("worker")
    <3>1. t.pc = "writing" /\ UNCHANGED <<content, queue, writer>> /\ GiveUp("worker")
      BY <2>4 DEF WriteFails
    <3>2. t'.pc = "idle" /\ abandoned' = TRUE
      BY <3>1, <1>a, <1>b DEF GiveUp, Idle
    <3>3. edge' = edge \/ edge' = Written(RequestOf("worker"))
      BY <2>4, <1>a DEF WriteFails
    <3>4. CASE edge' = edge
      BY <2>b, <3>1, <3>4
    <3>5. CASE edge' = Written(RequestOf("worker"))
      BY <2>c, <3>1, <3>2, <3>5
    <3> QED
      BY <3>3, <3>4, <3>5
  <2>5. CASE Record("worker")
    <3>1. t.pc = "recording" /\ t'.pc = "idle"
      BY <2>5, <1>a, <1>b DEF Record, Idle
    <3>2. UNCHANGED <<edge, content, queue, writer, abandoned>>
      BY <2>5 DEF Record
    <3>3. Unread' = Unread
      BY <3>1, <3>2 DEF Unread
    <3> QED
      BY <1>c, <1>d, <1>h, <1>i, <3>1, <3>2, <3>3
  <2>6. CASE RecordFails("worker")
    BY <2>6, <2>b DEF RecordFails
  <2> QED
    BY <1>9, <2>0, <2>1, <2>2, <2>3, <2>4, <2>5, <2>6
    DEF UpdateStep, ReadList, ReadListFails, ReadBans, ReadBansFails
<1>10. ASSUME LateWrite PROVE Goal
  BY <1>10 DEF LateWrite, WorkerInv
<1>11. ASSUME Restart PROVE Goal
  <2>1. t'.pc = "idle" /\ queue' = 1 /\ UNCHANGED <<content, edge, abandoned>>
    BY <1>11, <1>a DEF Restart, Idle
  <2>2. Unread' = TRUE
    BY <2>1 DEF Unread
  <2>3. Mirror!Restart
    BY <1>c, <1>d, <1>g, <1>i, <2>1, <2>2 DEF Mirror!Restart, Mirror!Clear
  <2> QED
    BY <2>3 DEF Mirror!Next
<1>12. ASSUME UNCHANGED vars PROVE Goal
  BY <1>12 DEF vars, Unread, Copies, Draft, Taken, Drafting
<1> HIDE DEF Goal
<1>13. Goal
  <2>1. CASE UNCHANGED vars
    BY <1>12, <2>1
  <2>2. CASE Next
    <3>1. Syncers = {}
      BY DEF WorkerAlone
    <3>2. \/ (\E w \in Writers : Change(w) \/ Send(w)) \/ Expire \/ WorkerStep
          \/ UpdateStep("worker") \/ LateWrite \/ Restart
      BY <1>a, <2>2, <3>1 DEF Next
    <3>3. WorkerStep => Goal
      BY <1>4, <1>5 DEF WorkerStep
    <3>4. ASSUME UpdateStep("worker"), t.pc = "reading"
          PROVE  \/ ReadList("worker") \/ ReadListFails("worker")
                 \/ ReadBans("worker") \/ ReadBansFails("worker")
      BY <3>4 DEF UpdateStep, Skip, Find, FindFails, Write, WriteFails, Record, RecordFails
    <3>5. UpdateStep("worker") => Goal
      BY <1>6, <1>6a, <1>7, <1>8, <1>9, <3>4
    <3> QED
      BY <1>1, <1>2, <1>3, <1>10, <1>11, <3>2, <3>3, <3>5
  <2> QED
    BY <2>1, <2>2
<1> QED
  BY <1>13 DEF Goal, Mirror!vars

\* The worker mirrors the store list by list: what it writes is what it has read since its
\* last write, a change makes it read again from the first list on, and so a copy that a
\* change has torn is followed by another, whatever is refused, lost or restarted
\* (worker.rs:61-97, client.rs:109-152).
THEOREM MirrorIsImplemented ==
    ASSUME WorkerAlone
    PROVE  Spec => ImplementsMirror
<1>1. Init => Mirror!Init
  BY MirrorInit
<1>2. WorkerInv /\ WorkerInv' /\ [Next]_vars => [Mirror!Next]_Mirror!vars
  BY MirrorNext
<1> QED
  BY <1>1, <1>2, WorkerInvInit, WorkerInvNext, PTL DEF Spec, ImplementsMirror, Mirror!Spec

\* One expression is not older than another, in any list that both could read.
NotOlder(old, new) ==
    \A l \in Lists : old[l] # None /\ new[l] # None => old[l] <= new[l]

\* An expression that was read from the store, at some time.
WasRead(e) ==
    /\ e \in [Lists -> Versions \cup {None}]
    /\ \A l \in Lists : e[l] # None => e[l] <= content[l]

\* What is copied is not older than the copy and not newer than the store; and it agrees
\* with the store as far as it is read, or it is due again, or a failure is remembered.
MirrorInv ==
    /\ content \in [Lists -> Versions] /\ Taken \in 0 .. ListCount
    /\ abandoned \in BOOLEAN
    /\ WasRead(Draft) /\ \A c \in Copies : WasRead(c) /\ NotOlder(c, Draft)
    /\ Copies = {} \/ \E c \in Copies : Copies = {c}
    /\ \A l \in Lists : l > Taken => Draft[l] = None
    /\ Taken \in 1 .. ListCount - 1 =>
          \A l \in 1 .. Taken : Unread \/ Draft[l] \in {content[l], None}
    /\ Mirror!CopyFollows

\* Any mirror keeps to that, and never puts back an older version.
LEMMA MirrorInvHolds == Mirror!Spec => [](MirrorInv /\ Mirror!CopyFollows) /\ [][Mirror!NeverBack]_Mirror!vars
<1>a. /\ Lists = 1 .. ListCount /\ ListCount \in Nat /\ ListCount > 1 /\ Mirror!Lists = Lists
      /\ Mirror!Nothing = Nothing /\ Nothing \in [Lists -> Versions \cup {None}]
      /\ Versions = 0 .. MaxChanges /\ MaxChanges \in Nat /\ None \notin Versions
      /\ \A l \in Lists : Nothing[l] = None
  BY Numbers DEF Lists, Mirror!Lists, Nothing, Mirror!Nothing, Versions, None
<1>b. Unread \in BOOLEAN /\ Unread' \in BOOLEAN
  BY DEF Unread
<1>1. Mirror!Init => MirrorInv
  <2> SUFFICES ASSUME Mirror!Init PROVE MirrorInv
    OBVIOUS
  <2>1. /\ content = [l \in Lists |-> 0] /\ Copies \in {{}, {Nothing}} /\ Draft = Nothing
        /\ Taken = 0 /\ Unread = TRUE /\ abandoned = FALSE
    BY <1>a DEF Mirror!Init
  <2>2. content \in [Lists -> Versions] /\ Mirror!CopyFollows
    BY <1>a, <2>1 DEF Mirror!CopyFollows
  <2>3. WasRead(Nothing) /\ NotOlder(Nothing, Nothing)
    BY <1>a DEF WasRead, NotOlder
  <2>4. WasRead(Draft) /\ \A c \in Copies : WasRead(c) /\ NotOlder(c, Draft)
    BY <2>1, <2>3
  <2>5. Copies = {} \/ \E c \in Copies : Copies = {c}
    BY <2>1
  <2>6. Taken \in 0 .. ListCount /\ Taken \notin 1 .. ListCount - 1 /\ \A l \in Lists : Draft[l] = None
    BY <1>a, <2>1
  <2> QED
    BY <2>1, <2>2, <2>4, <2>5, <2>6 DEF MirrorInv
<1>2. MirrorInv /\ [Mirror!Next]_Mirror!vars => MirrorInv' /\ [Mirror!NeverBack]_Mirror!vars
  <2> SUFFICES ASSUME MirrorInv, [Mirror!Next]_Mirror!vars
               PROVE  MirrorInv' /\ [Mirror!NeverBack]_Mirror!vars
    OBVIOUS
  <2> DEFINE Back == \A old \in Copies, new \in Copies' : NotOlder(old, new)
  <2>a. Back => Mirror!NeverBack
    BY <1>a DEF Mirror!NeverBack, NotOlder
  <2>b. \A e : WasRead(e) => NotOlder(e, e)
    BY <1>a DEF WasRead, NotOlder, Versions
  <2>c. Copies' = Copies => Back
    <3> SUFFICES ASSUME NEW old \in Copies, NEW new \in Copies PROVE NotOlder(old, new)
      OBVIOUS
    <3>1. old = new
      BY DEF MirrorInv
    <3> QED
      BY <2>b, <3>1 DEF MirrorInv
  <2>d. /\ content \in [Lists -> Versions] /\ Taken \in Nat /\ Taken <= ListCount
        /\ Draft \in [Lists -> Versions \cup {None}]
    BY <1>a DEF MirrorInv, WasRead
  <2>e. content' = content => \A e : WasRead(e) => WasRead(e)'
    BY DEF WasRead
  \* A step that clears the draft and keeps the copy.
  <2>f. ASSUME content' = content, Copies' = Copies, Draft' = Nothing, Taken' = 0,
               Unread' = TRUE \/ abandoned' = TRUE, abandoned' \in BOOLEAN
        PROVE  MirrorInv' /\ Back
    <3>1. WasRead(Nothing)' /\ \A c : NotOlder(c, Nothing)
      BY <1>a DEF WasRead, NotOlder
    <3>2. Mirror!CopyFollows'
      BY <2>f DEF Mirror!CopyFollows
    <3>3. WasRead(Draft)' /\ \A c \in Copies' : WasRead(c)' /\ NotOlder(c, Draft)'
      BY <2>e, <2>f, <3>1 DEF MirrorInv, WasRead, NotOlder
    <3>4. \A l \in Lists : Draft'[l] = None
      BY <1>a, <2>f
    <3> QED
      BY <1>a, <2>c, <2>f, <3>2, <3>3, <3>4 DEF MirrorInv
  <2>3. CASE Mirror!Change
    <3>1. PICK m \in Lists : /\ content[m] < MaxChanges /\ content' = [content EXCEPT ![m] = @ + 1]
                            /\ \/ Unread' = TRUE /\ abandoned' = abandoned
                               \/ m = ListCount /\ Unread' = Unread /\ abandoned' = TRUE
      BY <1>a, <2>3 DEF Mirror!Change
    <3>2. UNCHANGED <<Copies, Draft, Taken>>
      BY <2>3 DEF Mirror!Change
    <3>3. content' \in [Lists -> Versions] /\ \A l \in Lists : content[l] <= content'[l]
      BY <1>a, <2>d, <3>1 DEF Versions
    <3>4. \A e : WasRead(e) => WasRead(e)'
      BY <1>a, <2>d, <3>3 DEF WasRead, Versions
    <3>5. Mirror!CopyFollows'
      BY <3>1 DEF Mirror!CopyFollows
    <3>6. ASSUME Taken \in 1 .. ListCount - 1, NEW l \in 1 .. Taken, ~Unread'
          PROVE  Draft[l] \in {content'[l], None}
      <4>1. m = ListCount /\ ~Unread /\ l # m
        BY <1>a, <3>1, <3>6
      <4>2. content'[l] = content[l]
        BY <1>a, <2>d, <3>1, <3>6, <4>1
      <4> QED
        BY <3>6, <4>1, <4>2 DEF MirrorInv
    <3>7. WasRead(Draft)' /\ \A c \in Copies' : WasRead(c)' /\ NotOlder(c, Draft)'
      BY <3>2, <3>4 DEF MirrorInv, WasRead, NotOlder
    <3> QED
      BY <2>a, <2>c, <3>1, <3>2, <3>3, <3>5, <3>6, <3>7 DEF MirrorInv
  <2>4. CASE Mirror!Take \/ Mirror!TakeFails
    <3>1. /\ content' = content /\ Copies' = Copies /\ Taken < ListCount /\ Taken' = Taken + 1
          /\ IF Taken = 0 THEN Unread /\ Unread' \in BOOLEAN ELSE Unread' = Unread
          /\ \/ /\ Draft' = [Draft EXCEPT ![Taken'] = content[Taken']]
                /\ abandoned' = IF Taken' = ListCount THEN \E l \in Lists : Draft'[l] = None ELSE abandoned
             \/ Draft' = Draft /\ abandoned' = TRUE /\ Taken' < ListCount
      <4>1. CASE Mirror!Take
        BY <1>a, <4>1 DEF Mirror!Take, Mirror!Begins
      <4>2. CASE Mirror!TakeFails
        <5>1. Taken < ListCount - 1 /\ Taken' = Taken + 1
          BY <4>2 DEF Mirror!TakeFails
        <5>2. Taken < ListCount /\ Taken' < ListCount
          BY <1>a, <2>d, <5>1
        <5> QED
          BY <4>2, <5>1, <5>2 DEF Mirror!TakeFails, Mirror!Begins
      <4> QED
        BY <2>4, <4>1, <4>2
    <3>2. Taken' \in Lists /\ Draft[Taken'] = None
      BY <1>a, <2>d, <3>1 DEF MirrorInv
    <3>3. \A l \in Lists : Draft'[l] = Draft[l] \/ (l = Taken' /\ Draft'[l] = content[l])
      BY <1>a, <2>d, <3>1, <3>2
    <3>4. Draft' \in [Lists -> Versions \cup {None}]
      BY <2>d, <3>1, <3>2
    <3>5. WasRead(Draft)'
      BY <1>a, <2>d, <3>1, <3>3, <3>4 DEF MirrorInv, WasRead, Versions
    <3>6. \A c \in Copies' : WasRead(c)' /\ NotOlder(c, Draft)'
      <4> SUFFICES ASSUME NEW c \in Copies PROVE WasRead(c)' /\ NotOlder(c, Draft)'
        BY <3>1
      <4>1. WasRead(c) /\ NotOlder(c, Draft)
        BY DEF MirrorInv
      <4>2. NotOlder(c, Draft')
        BY <3>3, <4>1 DEF NotOlder, WasRead
      <4> QED
        BY <2>e, <3>1, <4>1, <4>2 DEF NotOlder
    <3>7. \A l \in Lists : l > Taken' => Draft'[l] = None
      BY <1>a, <2>d, <3>1, <3>3 DEF MirrorInv
    <3>8. \A l \in 1 .. Taken' : Unread' \/ Draft'[l] \in {content[l], None}
      <4> SUFFICES ASSUME NEW l \in 1 .. Taken', ~Unread' PROVE Draft'[l] \in {content[l], None}
        OBVIOUS
      <4>1. CASE l = Taken'
        BY <3>2, <3>3, <4>1
      <4>2. CASE l # Taken'
        <5>1. Taken \in 1 .. ListCount - 1 /\ l \in 1 .. Taken /\ ~Unread
          BY <1>a, <2>d, <3>1, <4>2
        <5>2. Draft'[l] = Draft[l]
          BY <1>a, <2>d, <3>3, <4>2, <5>1
        <5> QED
          BY <5>1, <5>2 DEF MirrorInv
      <4> QED
        BY <4>1, <4>2
    <3>9. Mirror!CopyFollows'
      <4> SUFFICES ASSUME ~Unread', ~abandoned', NEW l \in 1 .. Taken' PROVE Draft'[l] = content[l]
        BY <2>d, <3>1 DEF Mirror!CopyFollows
      <4>1. Draft'[l] \in {content[l], None}
        BY <3>8
      <4>2. CASE Taken' = ListCount
        BY <1>a, <3>1, <4>1, <4>2
      <4>3. CASE Taken' # ListCount
        <5>1. ~abandoned /\ Draft' = [Draft EXCEPT ![Taken'] = content[Taken']]
          BY <3>1, <4>3
        <5>2. CASE l = Taken'
          BY <2>d, <3>2, <5>1, <5>2
        <5>3. CASE l # Taken'
          <6>1. Taken # 0 /\ l \in 1 .. Taken /\ ~Unread /\ Draft'[l] = Draft[l]
            BY <1>a, <2>d, <3>1, <5>1, <5>3
          <6> QED
            BY <3>1, <5>1, <6>1 DEF MirrorInv, Mirror!CopyFollows
        <5> QED
          BY <5>2, <5>3
      <4> QED
        BY <4>2, <4>3
    <3>10. Taken' \in 0 .. ListCount
      BY <1>a, <2>d, <3>1
    <3>11. abandoned' \in BOOLEAN
      BY <3>1 DEF MirrorInv
    <3> QED
      BY <2>a, <2>c, <2>d, <3>1, <3>5, <3>6, <3>7, <3>8, <3>9, <3>10, <3>11 DEF MirrorInv
  <2>5. CASE Mirror!Put
    <3>1. /\ content' = content /\ Copies' = {Draft} /\ Draft' = Nothing /\ Taken' = 0
          /\ Taken = ListCount /\ Unread' = Unread /\ (abandoned' = abandoned \/ abandoned' = TRUE)
      BY <1>a, <2>5 DEF Mirror!Put, Mirror!Clear
    <3>2. WasRead(Draft) /\ WasRead(Nothing) /\ \A c : NotOlder(c, Nothing)
      BY <1>a DEF MirrorInv, WasRead, NotOlder
    <3>3. Mirror!CopyFollows'
      <4> SUFFICES ASSUME ~Unread, ~abandoned PROVE Draft = content
        BY <3>1 DEF Mirror!CopyFollows
      <4>1. \A l \in Lists : Draft[l] = content[l]
        BY <1>a, <3>1 DEF MirrorInv, Mirror!CopyFollows
      <4> QED
        BY <2>d, <4>1
    <3>4. Back
      BY <3>1 DEF MirrorInv
    <3>5. WasRead(Draft)' /\ \A c \in Copies' : WasRead(c)' /\ NotOlder(c, Draft)'
      BY <2>e, <3>1, <3>2 DEF WasRead, NotOlder
    <3>6. \A l \in Lists : Draft'[l] = None
      BY <1>a, <3>1
    <3>7. Copies' # {} /\ (\E c \in Copies' : Copies' = {c}) /\ abandoned' \in BOOLEAN
      BY <3>1 DEF MirrorInv
    <3>8. Taken' \in 0 .. ListCount /\ Taken' \notin 1 .. ListCount - 1
      BY <1>a, <3>1
    <3> QED
      BY <2>a, <2>d, <3>1, <3>3, <3>4, <3>5, <3>6, <3>7, <3>8 DEF MirrorInv
  <2>6. CASE Mirror!Drop
    BY <1>a, <2>a, <2>f, <2>6 DEF Mirror!Drop, Mirror!Clear, MirrorInv
  <2>7. CASE Mirror!Restart
    BY <1>a, <2>a, <2>f, <2>7 DEF Mirror!Restart, Mirror!Clear, MirrorInv
  <2>8. CASE UNCHANGED Mirror!vars
    BY <2>8 DEF Mirror!vars, MirrorInv, Mirror!CopyFollows, WasRead, NotOlder
  <2> QED
    BY <2>3, <2>4, <2>5, <2>6, <2>7, <2>8 DEF Mirror!Next
<1>3. MirrorInv => Mirror!CopyFollows
  BY DEF MirrorInv
<1> QED
  BY <1>1, <1>2, <1>3, PTL DEF Mirror!Spec

\* No write puts back an older version of a list, however many rounds fail between the two
\* (worker.rs:61-97).
THEOREM NoOlderCopy ==
    ASSUME WorkerAlone
    PROVE  Spec => [][Mirror!NeverBack]_Mirror!vars
  BY MirrorIsImplemented, MirrorInvHolds, PTL DEF ImplementsMirror
=============================================================================
