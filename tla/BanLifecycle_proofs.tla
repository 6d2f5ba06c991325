------------------------- MODULE BanLifecycle_proofs -------------------------
(***************************************************************************)
(* Proofs about BanLifecycle, for every value of its constants that        *)
(* ConstantsAssumption allows.                                             *)
(***************************************************************************)
EXTENDS BanLifecycle, TLAPS

\* Expiries are instants a TempBan after the clock, or one of the two ends.
LEMMA ExpiryTypes ==
    /\ Absent \in Expiries
    /\ Never \in Expiries
    /\ \A at \in 1 .. MaxTime, permanent \in BOOLEAN :
          /\ ExpiryOf(permanent, at) \in Expiries
          /\ ExpiryOf(permanent, at) > at
BY ConstantsAssumption DEF Expiries, Absent, Never, ExpiryOf

\* What an nft add command does to the kernel's set keeps its type.
LEMMA NftAddType ==
    ASSUME TypeOK, NEW t \in Targets, NEW expiry \in Expiries, NftAdd(t, expiry)
    PROVE  fw' \in [Targets -> Expiries] /\ unrenewed' \in SUBSET Targets
BY DEF TypeOK, NftAdd, KernelAdd

\* What the start of a ban does to the history of its target.
LEMMA BanHistory ==
    ASSUME TypeOK, NEW t \in Targets,
           \/ \E w \in Watchers, permanent \in Verdicts : WatcherBlock(w, t, permanent)
           \/ \E c \in Clients : ClientBanSave(c, t)
    PROVE  /\ contested' \in SUBSET Targets /\ lifted' = lifted \ {t}
           /\ contested' \subseteq contested \cup {t} /\ contested \ {t} \subseteq contested'
           /\ UnbanInFlight(t) \/ (BanInFlight(t) /\ t \in contested) => t \in contested'
<1>1. ASSUME NEW w \in Watchers, NEW permanent \in Verdicts, WatcherBlock(w, t, permanent)
      PROVE  \/ contested' = contested \cup {t}
             \/ ~UnbanInFlight(t) /\ contested' = IF Quiet(t) THEN contested \ {t} ELSE contested
  BY <1>1 DEF WatcherBlock, BanStarts
<1>2. ASSUME NEW c \in Clients, ClientBanSave(c, t)
      PROVE  \/ contested' = contested \cup {t}
             \/ ~UnbanInFlight(t) /\ contested' = IF Quiet(t) THEN contested \ {t} ELSE contested
  BY <1>2 DEF ClientBanSave, BanStarts
<1>3. lifted' = lifted \ {t}
  BY DEF WatcherBlock, ClientBanSave, BanStarts
<1> QED
  BY <1>1, <1>2, <1>3 DEF TypeOK, Quiet

\* What an operator's ban without a daemon does to the history.
LEMMA OfflineHistory ==
    ASSUME TypeOK, NEW t \in Targets, OfflineBan(t)
    PROVE  contested' \in SUBSET Targets /\ lifted' = lifted \ {t}
BY DEF OfflineBan, BanStarts, TypeOK

\* What the start of an unban does to the history.
LEMMA UnbanHistory ==
    ASSUME TypeOK, NEW t \in Targets, UnbanStarts(t)
    PROVE  /\ contested' \in SUBSET Targets /\ lifted' \in SUBSET Targets
           /\ unbanned' \in SUBSET Targets
BY DEF TypeOK, UnbanStarts

\* A task that is not idle has the fields of its state.
LEMMA TaskTypes ==
    ASSUME TypeOK
    PROVE  /\ \A w \in Watchers : watcher[w] # Idle =>
                 /\ watcher[w].pc = "saving"
                 /\ watcher[w].target \in Targets
                 /\ watcher[w].permanent \in Verdicts
                 /\ watcher[w].at \in 1 .. MaxTime
           /\ \A c \in Clients : client[c].pc \in {"blocking", "lifting"} =>
                 /\ client[c] # Idle
                 /\ client[c].target \in Targets
BY DEF TypeOK, WatcherTasks, ClientTasks, Idle

\* A restore adds the active records to the kernel, or none of them.
LEMMA RestoredBans ==
    ASSUME BootRestore
    PROVE  \E restored \in SUBSET ActiveBans :
             /\ fw' = [t \in Targets |-> IF t \in restored
                                        THEN KernelAdd(t, Never) ELSE fw[t]]
             /\ unrenewed' = (unrenewed \ restored) \cup
                                {t \in restored : KernelAdd(t, Never) < Never}
             /\ Faults = {} => restored = ActiveBans
<1>1. PICK ok \in Outcomes("nft"), read \in Outcomes("redb") :
        LET restored == IF ok /\ read THEN ActiveBans ELSE {}
        IN  /\ fw' = [t \in Targets |-> IF t \in restored
                                        THEN KernelAdd(t, Never) ELSE fw[t]]
            /\ unrenewed' = (unrenewed \ restored) \cup
                               {t \in restored : KernelAdd(t, Never) < Never}
  BY DEF BootRestore
<1>2. Faults = {} => ok /\ read
  BY DEF Outcomes
<1> WITNESS (IF ok /\ read THEN ActiveBans ELSE {}) \in SUBSET ActiveBans
<1> QED
  BY <1>1, <1>2

\* The daemon is down, the host fresh and no ban was made yet.
LEMMA InitType == Init => TypeOK
<1> SUFFICES ASSUME Init PROVE TypeOK
  OBVIOUS
<1>1. now \in 1 .. MaxTime /\ stops \in 0 .. MaxStops
  BY ConstantsAssumption DEF Init
<1>2. watcher \in [Watchers -> WatcherTasks] /\ client \in [Clients -> ClientTasks]
  BY DEF Init, WatcherTasks, ClientTasks
<1> QED
  BY <1>1, <1>2, ExpiryTypes DEF Init, TypeOK

\* Every variable keeps its type (the declarations of BanLifecycle).
THEOREM TypeCorrect == Spec => []TypeOK
<1>1. Init => TypeOK
  BY InitType
<1>2. TypeOK /\ [Next]_vars => TypeOK'
  <2> SUFFICES ASSUME TypeOK, [Next]_vars PROVE TypeOK'
    OBVIOUS
  <2> USE ConstantsAssumption
  <2>1. CASE Tick
    BY <2>1 DEF TypeOK, Tick
  <2>2. ASSUME NEW w \in Watchers, NEW t \in Targets, NEW permanent \in Verdicts,
               WatcherBlock(w, t, permanent)
        PROVE  TypeOK'
    <3>1. ExpiryOf(permanent, now) \in Expiries
      BY ExpiryTypes DEF TypeOK
    <3>2. fw' \in [Targets -> Expiries] /\ unrenewed' \in SUBSET Targets
      BY <2>2, <3>1, NftAddType DEF WatcherBlock
    <3>3. contested' \in SUBSET Targets /\ lifted' \in SUBSET Targets
      BY <2>2, BanHistory DEF TypeOK
    <3>4. watcher' \in [Watchers -> WatcherTasks]
      BY <2>2 DEF WatcherBlock, TypeOK, WatcherTasks
    <3> QED
      BY <2>2, <3>2, <3>3, <3>4 DEF WatcherBlock, TypeOK
  <2>3. ASSUME NEW w \in Watchers, WatcherSave(w)
        PROVE  TypeOK'
    <3>1. ExpiryOf(watcher[w].permanent, now) \in Expiries
      BY <2>3, ExpiryTypes, TaskTypes DEF WatcherSave, TypeOK
    <3>2. bans' \in [Targets -> Expiries]
      BY <2>3, <3>1, TaskTypes DEF WatcherSave, TypeOK
    <3>3. watcher' \in [Watchers -> WatcherTasks]
      BY <2>3 DEF WatcherSave, TypeOK, WatcherTasks
    <3> QED
      BY <2>3, <3>2, <3>3 DEF WatcherSave, TypeOK
  <2>4. ASSUME NEW c \in Clients, NEW t \in Targets, ClientBanSave(c, t)
        PROVE  TypeOK'
    <3>1. contested' \in SUBSET Targets /\ lifted' \in SUBSET Targets
      BY <2>4, BanHistory DEF TypeOK
    <3>2. client' \in [Clients -> ClientTasks]
      BY <2>4 DEF ClientBanSave, TypeOK, ClientTasks
    <3>3. bans' \in [Targets -> Expiries]
      BY <2>4, ExpiryTypes DEF ClientBanSave, TypeOK
    <3> QED
      BY <2>4, <3>1, <3>2, <3>3 DEF ClientBanSave, TypeOK
  <2>5. ASSUME NEW c \in Clients, NEW t \in Targets, ClientUnbanRemove(c, t)
        PROVE  TypeOK'
    <3>1. /\ contested' \in SUBSET Targets /\ lifted' \in SUBSET Targets
          /\ unbanned' \in SUBSET Targets
      BY <2>5, UnbanHistory DEF ClientUnbanRemove
    <3>2. client' \in [Clients -> ClientTasks]
      BY <2>5 DEF ClientUnbanRemove, TypeOK, ClientTasks
    <3>3. bans' \in [Targets -> Expiries]
      BY <2>5, ExpiryTypes DEF ClientUnbanRemove, TypeOK
    <3> QED
      BY <2>5, <3>1, <3>2, <3>3 DEF ClientUnbanRemove, TypeOK
  <2>6. ASSUME NEW c \in Clients, ClientBanBlock(c)
        PROVE  TypeOK'
    <3>1. fw' \in [Targets -> Expiries] /\ unrenewed' \in SUBSET Targets
      BY <2>6, TaskTypes, ExpiryTypes, NftAddType DEF ClientBanBlock
    <3>2. client' \in [Clients -> ClientTasks]
      BY <2>6 DEF ClientBanBlock, TypeOK, ClientTasks
    <3> QED
      BY <2>6, <3>1, <3>2 DEF ClientBanBlock, TypeOK
  <2>7. ASSUME NEW c \in Clients, ClientUnbanLift(c)
        PROVE  TypeOK'
    <3>1. client[c].target \in Targets
      BY <2>7, TaskTypes DEF ClientUnbanLift
    <3>2. fw' \in [Targets -> Expiries] /\ lifted' \in SUBSET Targets
      BY <2>7, <3>1, ExpiryTypes DEF ClientUnbanLift, TypeOK
    <3>3. client' \in [Clients -> ClientTasks]
      BY <2>7 DEF ClientUnbanLift, TypeOK, ClientTasks
    <3> QED
      BY <2>7, <3>2, <3>3 DEF ClientUnbanLift, TypeOK
  <2>8. CASE SweepScan
    BY <2>8 DEF SweepScan, TypeOK, ExpiredBans
  <2>9. CASE SweepDelete
    BY <2>9, ExpiryTypes DEF SweepDelete, TypeOK
  <2>10. CASE BootInit
    BY <2>10 DEF BootInit, TypeOK
  <2>11. CASE BootRestore
    <3>1. PICK restored \in SUBSET ActiveBans :
            /\ fw' = [t \in Targets |-> IF t \in restored
                                       THEN KernelAdd(t, Never) ELSE fw[t]]
            /\ unrenewed' = (unrenewed \ restored) \cup
                               {t \in restored : KernelAdd(t, Never) < Never}
      BY <2>11, RestoredBans
    <3>2. \A t \in Targets : KernelAdd(t, Never) \in Expiries /\ fw[t] \in Expiries
      BY ExpiryTypes DEF TypeOK, KernelAdd
    <3>3. fw' \in [Targets -> Expiries] /\ unrenewed' \in SUBSET Targets
      BY <3>1, <3>2 DEF TypeOK, ActiveBans
    <3>4. /\ phase' = "restored" /\ contested' = {}
          /\ UNCHANGED <<now, stops, bans, tables, bannedIps, watcher, client,
                         expired, lifted, unbanned>>
      BY <2>11 DEF BootRestore
    <3> QED
      BY <3>3, <3>4 DEF TypeOK
  <2>12. CASE BootPipeline
    BY <2>12 DEF BootPipeline, TypeOK, ActiveBans
  <2>13. CASE Stop
    <3>1. /\ watcher' \in [Watchers -> WatcherTasks]
          /\ client' \in [Clients -> ClientTasks]
      BY <2>13 DEF Stop, WatcherTasks, ClientTasks
    <3>2. stops' \in 0 .. MaxStops
      BY <2>13 DEF Stop, TypeOK
    <3> QED
      BY <2>13, <3>1, <3>2 DEF Stop, TypeOK
  <2>14. CASE Reboot
    <3>1. /\ watcher' \in [Watchers -> WatcherTasks]
          /\ client' \in [Clients -> ClientTasks]
      BY <2>14 DEF Reboot, WatcherTasks, ClientTasks
    <3>2. stops' \in 0 .. MaxStops
      BY <2>14 DEF Reboot, TypeOK
    <3>3. fw' \in [Targets -> Expiries]
      BY <2>14, ExpiryTypes DEF Reboot
    <3> QED
      BY <2>14, <3>1, <3>2, <3>3 DEF Reboot, TypeOK
  <2>15. ASSUME NEW t \in Targets, OfflineBan(t)
         PROVE  TypeOK'
    <3>1. fw' \in [Targets -> Expiries] /\ unrenewed' \in SUBSET Targets
      BY <2>15, ExpiryTypes, NftAddType DEF OfflineBan
    <3>2. contested' \in SUBSET Targets /\ lifted' \in SUBSET Targets
      BY <2>15, OfflineHistory DEF TypeOK
    <3> QED
      BY <2>15, <3>1, <3>2, ExpiryTypes DEF OfflineBan, TypeOK
  <2>16. ASSUME NEW t \in Targets, OfflineUnban(t)
         PROVE  TypeOK'
    BY <2>16, ExpiryTypes DEF OfflineUnban, TypeOK
  <2>17. CASE UNCHANGED vars
    BY <2>17 DEF TypeOK, vars
  <2> QED
    BY <2>1, <2>2, <2>3, <2>4, <2>5, <2>6, <2>7, <2>8, <2>9, <2>10, <2>11,
       <2>12, <2>13, <2>14, <2>15, <2>16, <2>17
    DEF Next, WatcherStep, ClientStep, Sweep, Boot, Offline
<1> QED
  BY <1>1, <1>2, PTL DEF Spec
-----------------------------------------------------------------------------
(* Which bans and unbans are under way, step by step.                      *)

\* Steps that leave the tasks alone leave the bans and unbans in flight alone.
LEMMA SameTasks ==
    ASSUME UNCHANGED <<watcher, client>>
    PROVE  \A s \in Targets : /\ BanInFlight(s)' <=> BanInFlight(s)
                              /\ UnbanInFlight(s)' <=> UnbanInFlight(s)
BY DEF BanInFlight, UnbanInFlight

\* When every task is idle nothing is in flight.
LEMMA NoTasks ==
    ASSUME \A w \in Watchers : watcher[w] = Idle, \A c \in Clients : client[c] = Idle
    PROVE  \A s \in Targets : ~BanInFlight(s) /\ ~UnbanInFlight(s)
BY DEF BanInFlight, UnbanInFlight, Idle

\* A watcher that starts a ban adds one on its target.
LEMMA WatcherBlockTasks ==
    ASSUME TypeOK, NEW w \in Watchers, NEW t \in Targets, NEW permanent \in Verdicts,
           WatcherBlock(w, t, permanent)
    PROVE  /\ \A s \in Targets : /\ BanInFlight(s)' <=> BanInFlight(s) \/ s = t
                                 /\ UnbanInFlight(s)' <=> UnbanInFlight(s)
           /\ watcher'[w].target = t
           /\ watcher'[w].permanent = permanent
           /\ watcher'[w].at = now
           /\ watcher'[w] # Idle
           /\ \A v \in Watchers \ {w} : watcher'[v] = watcher[v]
<1>1. /\ watcher[w] = Idle /\ client' = client
      /\ watcher'[w] = [pc |-> "saving", target |-> t, permanent |-> permanent,
                        at |-> now]
      /\ \A v \in Watchers \ {w} : watcher'[v] = watcher[v]
  BY DEF WatcherBlock, TypeOK
<1>2. watcher'[w].target = t /\ watcher'[w] # Idle
  BY <1>1 DEF Idle
<1> QED
  BY <1>1, <1>2 DEF BanInFlight, UnbanInFlight

\* A watcher that saves ends at most a ban of its target.
LEMMA WatcherSaveTasks ==
    ASSUME TypeOK, NEW w \in Watchers, WatcherSave(w)
    PROVE  /\ \A s \in Targets :
                 /\ BanInFlight(s)' => BanInFlight(s)
                 /\ s # watcher[w].target => (BanInFlight(s)' <=> BanInFlight(s))
                 /\ UnbanInFlight(s)' <=> UnbanInFlight(s)
           /\ BanInFlight(watcher[w].target)
           /\ watcher'[w] = Idle
           /\ \A v \in Watchers \ {w} : watcher'[v] = watcher[v]
<1>1. /\ watcher[w] # Idle /\ client' = client /\ watcher'[w] = Idle
      /\ \A v \in Watchers \ {w} : watcher'[v] = watcher[v]
  BY DEF WatcherSave, TypeOK
<1> QED
  BY <1>1 DEF BanInFlight, UnbanInFlight

\* A client that saves a ban adds one on its target.
LEMMA ClientBanSaveTasks ==
    ASSUME TypeOK, NEW c \in Clients, NEW t \in Targets, ClientBanSave(c, t)
    PROVE  \A s \in Targets : /\ BanInFlight(s)' <=> BanInFlight(s) \/ s = t
                              /\ UnbanInFlight(s)' <=> UnbanInFlight(s)
<1>1. /\ client[c].pc = "idle" /\ watcher' = watcher
      /\ client'[c].pc = "blocking" /\ client'[c].target = t
      /\ \A d \in Clients \ {c} : client'[d] = client[d]
  BY DEF ClientBanSave, TypeOK, Idle
<1> QED
  BY <1>1 DEF BanInFlight, UnbanInFlight

\* A client that blocks ends at most a ban of its target.
LEMMA ClientBanBlockTasks ==
    ASSUME TypeOK, NEW c \in Clients, ClientBanBlock(c)
    PROVE  /\ \A s \in Targets :
                 /\ BanInFlight(s)' => BanInFlight(s)
                 /\ s # client[c].target => (BanInFlight(s)' <=> BanInFlight(s))
                 /\ UnbanInFlight(s)' <=> UnbanInFlight(s)
           /\ BanInFlight(client[c].target)
<1>1. /\ client[c].pc = "blocking" /\ watcher' = watcher
      /\ client'[c].pc = "idle"
      /\ \A d \in Clients \ {c} : client'[d] = client[d]
  BY DEF ClientBanBlock, TypeOK, Idle
<1> QED
  BY <1>1 DEF BanInFlight, UnbanInFlight

\* A client that removes a record adds an unban of its target.
LEMMA ClientUnbanRemoveTasks ==
    ASSUME TypeOK, NEW c \in Clients, NEW t \in Targets, ClientUnbanRemove(c, t)
    PROVE  \A s \in Targets : /\ BanInFlight(s)' <=> BanInFlight(s)
                              /\ UnbanInFlight(s)' <=> UnbanInFlight(s) \/ s = t
<1>1. /\ client[c].pc = "idle" /\ watcher' = watcher
      /\ client'[c].pc = "lifting" /\ client'[c].target = t
      /\ \A d \in Clients \ {c} : client'[d] = client[d]
  BY DEF ClientUnbanRemove, TypeOK, Idle
<1> QED
  BY <1>1 DEF BanInFlight, UnbanInFlight

\* A client that lifts ends at most an unban of its target.
LEMMA ClientUnbanLiftTasks ==
    ASSUME TypeOK, NEW c \in Clients, ClientUnbanLift(c)
    PROVE  /\ \A s \in Targets : /\ BanInFlight(s)' <=> BanInFlight(s)
                                 /\ UnbanInFlight(s)' => UnbanInFlight(s)
           /\ UnbanInFlight(client[c].target)
<1>1. /\ client[c].pc = "lifting" /\ watcher' = watcher
      /\ client'[c].pc = "idle"
      /\ \A d \in Clients \ {c} : client'[d] = client[d]
  BY DEF ClientUnbanLift, TypeOK, Idle
<1> QED
  BY <1>1 DEF BanInFlight, UnbanInFlight
-----------------------------------------------------------------------------
(* An unban that overlapped no ban holds: no assumption is needed.         *)

\* Tasks live only while the daemon is up.
TasksOnlyWhenUp ==
    phase # "up" => /\ \A w \in Watchers : watcher[w] = Idle
                    /\ \A c \in Clients : client[c] = Idle

\* A daemon that got past init_tables has its sets; without them no element.
TablesHold ==
    /\ phase # "down" => tables
    /\ ~tables => \A t \in Targets : fw[t] = Absent

\* An unban under way that is not contested has removed the record for good.
UnbansSettle ==
    \A t \in Targets \ contested :
        UnbanInFlight(t) => bans[t] = Absent /\ ~BanInFlight(t)

\* What UnbanHolds says, and that no ban is coming.
LiftedClean ==
    \A t \in lifted : bans[t] = Absent /\ fw[t] = Absent /\ ~BanInFlight(t)

UnbanInv == TypeOK /\ TasksOnlyWhenUp /\ TablesHold /\ UnbansSettle /\ LiftedClean

\* No unban was made at the start.
LEMMA UnbanInvInit == Init => UnbanInv
<1> SUFFICES ASSUME Init PROVE UnbanInv
  OBVIOUS
<1>1. TypeOK
  BY InitType
<1> QED
  BY <1>1, NoTasks
  DEF Init, UnbanInv, TasksOnlyWhenUp, TablesHold, UnbansSettle, LiftedClean

\* Every step keeps what an unban left.
LEMMA UnbanInvNext ==
    ASSUME UnbanInv, TypeOK', [Next]_vars
    PROVE  UnbanInv'
<1> USE DEF UnbanInv
<1>1. ASSUME NEW w \in Watchers, NEW t \in Targets, NEW permanent \in Verdicts,
             WatcherBlock(w, t, permanent)
      PROVE  UnbanInv'
  <2>1. \A s \in Targets : /\ BanInFlight(s)' <=> BanInFlight(s) \/ s = t
                           /\ UnbanInFlight(s)' <=> UnbanInFlight(s)
    BY <1>1, WatcherBlockTasks
  <2>2. /\ phase = "up" /\ phase' = "up" /\ bans' = bans /\ tables' = tables
        /\ lifted' = lifted \ {t} /\ contested \ {t} \subseteq contested'
        /\ UnbanInFlight(t) => t \in contested'
    BY <1>1, BanHistory DEF WatcherBlock
  <2>3. \A s \in Targets \ {t} : fw'[s] = fw[s]
    BY <1>1 DEF WatcherBlock, NftAdd, TypeOK
  <2>4. TasksOnlyWhenUp' /\ TablesHold'
    BY <2>2 DEF TasksOnlyWhenUp, TablesHold
  <2>5. UnbansSettle'
    BY <2>1, <2>2 DEF UnbansSettle
  <2>6. LiftedClean'
    BY <2>1, <2>2, <2>3 DEF LiftedClean, TypeOK
  <2> QED
    BY <2>4, <2>5, <2>6
<1>2. ASSUME NEW w \in Watchers, WatcherSave(w)
      PROVE  UnbanInv'
  <2> DEFINE t == watcher[w].target
  <2>1. /\ \A s \in Targets : /\ BanInFlight(s)' => BanInFlight(s)
                              /\ UnbanInFlight(s)' <=> UnbanInFlight(s)
        /\ BanInFlight(t)
    BY <1>2, WatcherSaveTasks
  <2>2. UNCHANGED <<phase, tables, fw, contested, lifted, client>>
    BY <1>2 DEF WatcherSave
  <2>3. \A s \in Targets \ {t} : bans'[s] = bans[s]
    BY <1>2 DEF WatcherSave, TypeOK
  <2>4. phase = "up"
    BY <1>2 DEF TasksOnlyWhenUp, WatcherSave
  <2>5. TasksOnlyWhenUp' /\ TablesHold'
    BY <2>2, <2>4 DEF TasksOnlyWhenUp, TablesHold
  <2>6. UnbansSettle'
    BY <2>1, <2>2, <2>3 DEF UnbansSettle
  <2>7. LiftedClean'
    BY <2>1, <2>2, <2>3 DEF LiftedClean, TypeOK
  <2> QED
    BY <2>5, <2>6, <2>7
<1>3. ASSUME NEW c \in Clients, NEW t \in Targets, ClientBanSave(c, t)
      PROVE  UnbanInv'
  <2>1. \A s \in Targets : /\ BanInFlight(s)' <=> BanInFlight(s) \/ s = t
                           /\ UnbanInFlight(s)' <=> UnbanInFlight(s)
    BY <1>3, ClientBanSaveTasks
  <2>2. /\ phase = "up" /\ phase' = "up" /\ fw' = fw /\ tables' = tables
        /\ lifted' = lifted \ {t} /\ contested \ {t} \subseteq contested'
        /\ UnbanInFlight(t) => t \in contested'
    BY <1>3, BanHistory DEF ClientBanSave
  <2>3. \A s \in Targets \ {t} : bans'[s] = bans[s]
    BY <1>3 DEF ClientBanSave, TypeOK
  <2>4. TasksOnlyWhenUp' /\ TablesHold'
    BY <2>2 DEF TasksOnlyWhenUp, TablesHold
  <2>5. UnbansSettle'
    BY <2>1, <2>2, <2>3 DEF UnbansSettle
  <2>6. LiftedClean'
    BY <2>1, <2>2, <2>3 DEF LiftedClean, TypeOK
  <2> QED
    BY <2>4, <2>5, <2>6
<1>4. ASSUME NEW c \in Clients, ClientBanBlock(c)
      PROVE  UnbanInv'
  <2> DEFINE t == client[c].target
  <2>1. /\ \A s \in Targets : /\ BanInFlight(s)' => BanInFlight(s)
                              /\ UnbanInFlight(s)' <=> UnbanInFlight(s)
        /\ BanInFlight(t)
    BY <1>4, ClientBanBlockTasks
  <2>2. UNCHANGED <<phase, tables, bans, contested, lifted>>
    BY <1>4 DEF ClientBanBlock
  <2>3. \A s \in Targets \ {t} : fw'[s] = fw[s]
    BY <1>4 DEF ClientBanBlock, NftAdd, TypeOK
  <2>4. phase = "up"
    BY <1>4 DEF TasksOnlyWhenUp, ClientBanBlock, Idle
  <2>5. TasksOnlyWhenUp' /\ TablesHold'
    BY <2>2, <2>4 DEF TasksOnlyWhenUp, TablesHold
  <2>6. UnbansSettle'
    BY <2>1, <2>2 DEF UnbansSettle
  <2>7. LiftedClean'
    BY <2>1, <2>2, <2>3 DEF LiftedClean, TypeOK
  <2> QED
    BY <2>5, <2>6, <2>7
<1>5. ASSUME NEW c \in Clients, NEW t \in Targets, ClientUnbanRemove(c, t)
      PROVE  UnbanInv'
  <2>1. \A s \in Targets : /\ BanInFlight(s)' <=> BanInFlight(s)
                           /\ UnbanInFlight(s)' <=> UnbanInFlight(s) \/ s = t
    BY <1>5, ClientUnbanRemoveTasks
  <2>2. /\ phase = "up" /\ phase' = "up" /\ fw' = fw /\ tables' = tables
        /\ lifted' = lifted
        /\ contested' = IF BanInFlight(t) THEN contested \cup {t}
                                          ELSE contested \ {t}
    BY <1>5 DEF ClientUnbanRemove, UnbanStarts
  <2>3. bans'[t] = Absent /\ \A s \in Targets \ {t} : bans'[s] = bans[s]
    BY <1>5 DEF ClientUnbanRemove, TypeOK
  <2>4. TasksOnlyWhenUp' /\ TablesHold'
    BY <2>2 DEF TasksOnlyWhenUp, TablesHold
  <2>5. UnbansSettle'
    BY <2>1, <2>2, <2>3 DEF UnbansSettle
  <2>6. LiftedClean'
    BY <2>1, <2>2, <2>3 DEF LiftedClean, TypeOK
  <2> QED
    BY <2>4, <2>5, <2>6
<1>6. ASSUME NEW c \in Clients, ClientUnbanLift(c)
      PROVE  UnbanInv'
  <2> DEFINE t == client[c].target
  <2>1. /\ \A s \in Targets : /\ BanInFlight(s)' <=> BanInFlight(s)
                              /\ UnbanInFlight(s)' => UnbanInFlight(s)
        /\ UnbanInFlight(t) /\ t \in Targets
    BY <1>6, ClientUnbanLiftTasks, TaskTypes DEF ClientUnbanLift
  <2>2. UNCHANGED <<phase, tables, bans, contested>>
    BY <1>6 DEF ClientUnbanLift
  <2>3. phase = "up" /\ tables
    BY <1>6 DEF TasksOnlyWhenUp, TablesHold, ClientUnbanLift, Idle
  <2>4. PICK ok \in Outcomes("nft") :
          /\ fw' = IF ok /\ tables THEN [fw EXCEPT ![t] = Absent] ELSE fw
          /\ lifted' = IF ok /\ t \notin contested THEN lifted \cup {t} ELSE lifted
    BY <1>6 DEF ClientUnbanLift
  <2>5. /\ \A s \in Targets : s \in lifted => fw'[s] = fw[s]
        /\ t \in lifted' \ lifted => /\ t \notin contested
                                    /\ fw'[t] = Absent
    BY <2>1, <2>3, <2>4 DEF TypeOK, LiftedClean
  <2>6. TasksOnlyWhenUp' /\ TablesHold'
    BY <2>2, <2>3 DEF TasksOnlyWhenUp, TablesHold
  <2>7. UnbansSettle'
    BY <2>1, <2>2 DEF UnbansSettle
  <2>8. (bans[t] = Absent /\ ~BanInFlight(t)) \/ t \in contested
    BY <2>1 DEF UnbansSettle
  <2>9. lifted' \subseteq lifted \cup {t}
    BY <2>4
  <2>10. LiftedClean'
    BY <2>1, <2>2, <2>5, <2>8, <2>9 DEF LiftedClean, TypeOK
  <2> QED
    BY <2>6, <2>7, <2>10
<1>7. ASSUME UNCHANGED <<phase, tables, bans, fw, watcher, client, contested, lifted>>
      PROVE  UnbanInv'
  <2>1. \A s \in Targets : /\ BanInFlight(s)' <=> BanInFlight(s)
                           /\ UnbanInFlight(s)' <=> UnbanInFlight(s)
    BY <1>7, SameTasks
  <2> QED
    BY <1>7, <2>1
    DEF TasksOnlyWhenUp, TablesHold, UnbansSettle, LiftedClean, TypeOK
<1>8. CASE SweepDelete
  <2>1. UNCHANGED <<phase, tables, fw, watcher, client, contested, lifted>>
    BY <1>8 DEF SweepDelete
  <2>2. \A s \in Targets : bans'[s] = bans[s] \/ bans'[s] = Absent
    BY <1>8 DEF SweepDelete, TypeOK
  <2>3. \A s \in Targets : /\ BanInFlight(s)' <=> BanInFlight(s)
                           /\ UnbanInFlight(s)' <=> UnbanInFlight(s)
    BY <2>1, SameTasks
  <2> QED
    BY <2>1, <2>2, <2>3
    DEF TasksOnlyWhenUp, TablesHold, UnbansSettle, LiftedClean, TypeOK
<1>9. ASSUME phase # "up", TasksOnlyWhenUp', TablesHold', 
             \A s \in lifted' : bans'[s] = Absent /\ fw'[s] = Absent,
             UNCHANGED <<watcher, client>>
      PROVE  UnbanInv'
  <2>1. \A s \in Targets : ~BanInFlight(s)' /\ ~UnbanInFlight(s)'
    BY <1>9, NoTasks, SameTasks DEF TasksOnlyWhenUp
  <2> QED
    BY <1>9, <2>1 DEF UnbansSettle, LiftedClean, TypeOK
<1>10. CASE BootInit
  <2>1. TasksOnlyWhenUp' /\ TablesHold'
    BY <1>10 DEF BootInit, TasksOnlyWhenUp, TablesHold
  <2> QED
    BY <1>9, <1>10, <2>1 DEF BootInit, LiftedClean
<1>11. CASE BootRestore
  <2>1. /\ phase = "initialized" /\ phase' = "restored"
        /\ UNCHANGED <<tables, bans, watcher, client, lifted>>
    BY <1>11 DEF BootRestore
  <2>2. TasksOnlyWhenUp' /\ TablesHold'
    BY <2>1 DEF TasksOnlyWhenUp, TablesHold
  <2>3. \A s \in Targets : bans[s] = Absent => fw'[s] = fw[s]
    BY <1>11, RestoredBans DEF ActiveBans, Absent, TypeOK
  <2>4. \A s \in lifted' : bans'[s] = Absent /\ fw'[s] = Absent
    BY <2>1, <2>3 DEF LiftedClean, TypeOK
  <2> QED
    BY <1>9, <2>1, <2>2, <2>4
<1>12. CASE BootPipeline
  <2>1. TasksOnlyWhenUp' /\ TablesHold'
    BY <1>12 DEF BootPipeline, TasksOnlyWhenUp, TablesHold
  <2> QED
    BY <1>9, <1>12, <2>1 DEF BootPipeline, LiftedClean
<1>13. ASSUME Stop \/ Reboot
       PROVE  UnbanInv'
  <2>1. /\ phase' = "down" /\ UNCHANGED <<bans, contested, lifted>>
        /\ \A w \in Watchers : watcher'[w] = Idle
        /\ \A c \in Clients : client'[c] = Idle
    BY <1>13 DEF Stop, Reboot
  <2>2. \A s \in Targets : ~BanInFlight(s)' /\ ~UnbanInFlight(s)'
    BY <2>1 DEF BanInFlight, UnbanInFlight, Idle
  <2>3. \A s \in Targets : fw'[s] = fw[s] \/ fw'[s] = Absent
    BY <1>13 DEF Stop, Reboot
  <2>4. TablesHold'
    BY <1>13, <2>1 DEF Stop, Reboot, TablesHold
  <2> QED
    BY <2>1, <2>2, <2>3, <2>4 DEF TasksOnlyWhenUp, UnbansSettle, LiftedClean, TypeOK
<1>14. ASSUME NEW t \in Targets, OfflineBan(t)
       PROVE  UnbanInv'
  <2>1. /\ phase = "down" /\ lifted' = lifted \ {t}
        /\ UNCHANGED <<phase, tables, watcher, client>>
    BY <1>14 DEF OfflineBan, BanStarts
  <2>2. \A s \in Targets \ {t} : bans'[s] = bans[s] /\ fw'[s] = fw[s]
    BY <1>14 DEF OfflineBan, NftAdd, TypeOK
  <2>3. ~tables => fw' = fw
    BY <1>14 DEF OfflineBan, NftAdd
  <2>4. TasksOnlyWhenUp' /\ TablesHold'
    BY <2>1, <2>3 DEF TasksOnlyWhenUp, TablesHold
  <2>5. \A s \in lifted' : bans'[s] = Absent /\ fw'[s] = Absent
    BY <2>1, <2>2 DEF LiftedClean, TypeOK
  <2> QED
    BY <1>9, <2>1, <2>4, <2>5
<1>15. ASSUME NEW t \in Targets, OfflineUnban(t)
       PROVE  UnbanInv'
  <2>1. phase = "down" /\ UNCHANGED <<phase, tables, watcher, client>>
    BY <1>15 DEF OfflineUnban
  <2>2. PICK ok \in Outcomes("nft") :
          /\ fw' = IF ok /\ tables THEN [fw EXCEPT ![t] = Absent] ELSE fw
          /\ lifted' = IF ok THEN lifted \cup {t} ELSE lifted
    BY <1>15 DEF OfflineUnban
  <2>3. bans'[t] = Absent /\ \A s \in Targets \ {t} : bans'[s] = bans[s]
    BY <1>15 DEF OfflineUnban, TypeOK
  <2>4. TasksOnlyWhenUp' /\ TablesHold'
    BY <2>1, <2>2 DEF TasksOnlyWhenUp, TablesHold, TypeOK
  <2>5. \A s \in lifted' : bans'[s] = Absent /\ fw'[s] = Absent
    BY <2>2, <2>3 DEF LiftedClean, TablesHold, TypeOK
  <2> QED
    BY <1>9, <2>1, <2>4, <2>5
<1> QED
  BY <1>1, <1>2, <1>3, <1>4, <1>5, <1>6, <1>7, <1>8, <1>10, <1>11, <1>12, <1>13,
     <1>14, <1>15
  DEF Next, WatcherStep, ClientStep, Sweep, Boot, Offline, Tick, SweepScan, vars

\* An unban that overlapped no ban of its target leaves no record and no
\* element until the next ban: through sweeps, crashes, reboots and restores,
\* failing calls included, and for any number of watchers and connections
\* (actions.rs:43-53).
THEOREM UnbanIsFinal == Spec => []UnbanHolds
<1>1. UnbanInv => UnbanHolds
  BY DEF UnbanInv, LiftedClean, UnbanHolds
<1>2. Init => UnbanInv
  BY UnbanInvInit
<1>3. UnbanInv /\ TypeOK' /\ [Next]_vars => UnbanInv'
  BY UnbanInvNext
<1> QED
  BY <1>1, <1>2, <1>3, TypeCorrect, PTL DEF Spec
-----------------------------------------------------------------------------
(* A recorded ban is blocked, when calls do not fail: whatever the kernel  *)
(* does to an element that is added again, and whatever kinds of verdict   *)
(* the watchers mix.                                                       *)

ReliableCalls == Faults = {}

\* The targets that the property excepts.
Excepted == contested \cup unrenewed

\* Between its nft call and its save a watcher has its ban in the kernel, and
\* the clock is at most Skew ahead.
WatchersCovered ==
    \A w \in Watchers :
        watcher[w] # Idle =>
            /\ watcher[w].at <= now
            /\ now <= watcher[w].at + Skew
            /\ watcher[w].target \notin Excepted =>
                  fw[watcher[w].target] >=
                      ExpiryOf(watcher[w].permanent, watcher[w].at)

\* From the restore on, an active record is blocked or about to be.
RecordsBlocked ==
    phase \in {"restored", "up"} =>
        \A t \in Targets \ Excepted : BlockedAsRecorded(t) \/ BanInFlight(t)

BlockInv == UnbanInv /\ WatchersCovered /\ RecordsBlocked
\* A later verdict of the same kind expires later, by at most the difference.
LEMMA ExpiryShift ==
    ASSUME NEW permanent \in BOOLEAN, NEW at \in Nat, NEW later \in Nat,
           at <= later, later <= at + Skew
    PROVE  /\ ExpiryOf(permanent, at) <= ExpiryOf(permanent, later)
           /\ ExpiryOf(permanent, later) <= ExpiryOf(permanent, at) + Skew
BY ConstantsAssumption DEF ExpiryOf, Never

\* Expiries are naturals that None bounds.
LEMMA ExpiryBound ==
    /\ \A e \in Expiries : e \in Nat /\ e <= Never
    /\ Never \in Nat /\ Skew \in Nat /\ Never + Skew >= Never
BY ConstantsAssumption DEF Expiries, Absent, Never

\* Calls that do not fail take effect, or find an element that the kernel leaves.
LEMMA ReliableAdd ==
    ASSUME TypeOK, ReliableCalls, tables,
           NEW t \in Targets, NEW expiry \in Expiries, NftAdd(t, expiry)
    PROVE  /\ \A s \in Targets \ {t} : /\ fw'[s] = fw[s]
                                       /\ s \in unrenewed' <=> s \in unrenewed
           /\ t \in unrenewed' \/ fw'[t] >= expiry
<1>1. /\ fw' = [fw EXCEPT ![t] = KernelAdd(t, expiry)]
      /\ unrenewed' = IF KernelAdd(t, expiry) < expiry
                      THEN unrenewed \cup {t} ELSE unrenewed \ {t}
  BY DEF ReliableCalls, Outcomes, NftAdd
<1>2. fw'[t] = KernelAdd(t, expiry) /\ \A s \in Targets \ {t} : fw'[s] = fw[s]
  BY <1>1 DEF TypeOK
<1>3. KernelAdd(t, expiry) \in Nat /\ expiry \in Nat
  BY ExpiryBound DEF KernelAdd, TypeOK
<1> QED
  BY <1>1, <1>2, <1>3

\* A restore that does not fail blocks the active records for good, save the
\* elements that the kernel leaves.
LEMMA RestoredIsNever ==
    ASSUME TypeOK, ReliableCalls, BootRestore
    PROVE  \A s \in Targets : bans[s] > now =>
              s \in unrenewed' \/ (fw'[s] = Never /\ fw'[s] >= Never)
<1>1. PICK restored \in SUBSET ActiveBans :
        /\ fw' = [t \in Targets |-> IF t \in restored
                                   THEN KernelAdd(t, Never) ELSE fw[t]]
        /\ unrenewed' = (unrenewed \ restored) \cup
                           {t \in restored : KernelAdd(t, Never) < Never}
        /\ restored = ActiveBans
  BY RestoredBans DEF ReliableCalls
<1>2. \A s \in Targets : /\ KernelAdd(s, Never) \in Nat /\ Never \in Nat
                         /\ KernelAdd(s, Never) <= Never
  BY ExpiryBound DEF KernelAdd, TypeOK
<1> QED
  BY <1>1, <1>2 DEF ActiveBans

\* Every step keeps the kernel at the store's bans.
LEMMA BlockInvNext ==
    ASSUME ReliableCalls, BlockInv, UnbanInv', TypeOK', [Next]_vars
    PROVE  BlockInv'
<1> USE DEF BlockInv, UnbanInv, Excepted
<1> SUFFICES WatchersCovered' /\ RecordsBlocked'
  OBVIOUS
<1>1. ASSUME NEW w \in Watchers, NEW t \in Targets, NEW permanent \in Verdicts,
             WatcherBlock(w, t, permanent)
      PROVE  WatchersCovered' /\ RecordsBlocked'
  <2>1. /\ \A s \in Targets : BanInFlight(s)' <=> BanInFlight(s) \/ s = t
        /\ watcher'[w].target = t
        /\ watcher'[w].permanent = permanent
        /\ watcher'[w].at = now
        /\ \A v \in Watchers \ {w} : watcher'[v] = watcher[v]
    BY <1>1, WatcherBlockTasks
  <2>2. /\ phase = "up" /\ phase' = "up" /\ bans' = bans /\ now' = now /\ tables
    BY <1>1 DEF WatcherBlock, TablesHold
  <2>3. ExpiryOf(permanent, now) \in Expiries
    BY ExpiryTypes, ConstantsAssumption DEF TypeOK
  <2>4. /\ t \in unrenewed' \/ fw'[t] >= ExpiryOf(permanent, now)
        /\ \A s \in Targets \ {t} : /\ fw'[s] = fw[s]
                                    /\ s \in unrenewed' <=> s \in unrenewed
    BY <1>1, <2>2, <2>3, ReliableAdd DEF WatcherBlock
  <2>9. /\ contested \ {t} \subseteq contested'
        /\ BanInFlight(t) /\ t \in contested => t \in contested'
    BY <1>1, BanHistory
  <2>10. OtherVerdictInFlight(t, permanent) => t \in contested'
    BY <1>1 DEF WatcherBlock, BanStarts
  <2>5. now \in Nat /\ now <= now + Skew
    BY ConstantsAssumption DEF TypeOK
  <2>6. ASSUME NEW v \in Watchers, watcher'[v] # Idle
        PROVE  /\ watcher'[v].at <= now'
               /\ now' <= watcher'[v].at + Skew
               /\ watcher'[v].target \notin Excepted' =>
                     fw'[watcher'[v].target] >=
                         ExpiryOf(watcher'[v].permanent, watcher'[v].at)
    <3>1. CASE v = w
      BY <3>1, <2>1, <2>2, <2>4, <2>5
    <3>2. CASE v # w
      <4>1. /\ watcher'[v] = watcher[v] /\ watcher[v] # Idle
            /\ watcher[v].at <= now /\ now <= watcher[v].at + Skew
            /\ watcher[v].permanent \in Verdicts
            /\ watcher[v].target \in Targets
            /\ watcher[v].at \in 1 .. MaxTime
        BY <3>2, <2>1, <2>6, TaskTypes DEF WatchersCovered
      <4>2. ExpiryOf(watcher[v].permanent, watcher[v].at)
                 <= ExpiryOf(watcher[v].permanent, now)
        BY <4>1, <2>5, ExpiryShift, ConstantsAssumption
      <4>6. /\ ExpiryOf(watcher[v].permanent, watcher[v].at) \in Nat
            /\ ExpiryOf(watcher[v].permanent, now) \in Nat
        BY <4>1, <2>5, ConstantsAssumption DEF ExpiryOf, Never
      <4>3. fw'[t] \in Nat
        BY ExpiryBound DEF TypeOK
      <4>4. CASE watcher[v].target = t
        <5>1. t \notin contested' => watcher[v].permanent = permanent
          BY <4>1, <4>4, <2>10 DEF OtherVerdictInFlight
        <5> QED
          BY <4>1, <4>2, <4>3, <4>4, <4>6, <5>1, <2>2, <2>4
      <4>5. CASE watcher[v].target # t
        BY <4>1, <4>5, <2>2, <2>4, <2>9 DEF WatchersCovered
      <4> QED
        BY <4>4, <4>5
    <3> QED
      BY <3>1, <3>2
  <2>7. WatchersCovered'
    BY <2>6 DEF WatchersCovered
  <2>8. RecordsBlocked'
    BY <2>1, <2>2, <2>4, <2>9 DEF RecordsBlocked, BlockedAsRecorded
  <2> QED
    BY <2>7, <2>8
<1>2. ASSUME NEW w \in Watchers, WatcherSave(w)
      PROVE  WatchersCovered' /\ RecordsBlocked'
  <2> DEFINE t == watcher[w].target
  <2>1. /\ \A s \in Targets : s # t => (BanInFlight(s)' <=> BanInFlight(s))
        /\ watcher'[w] = Idle
        /\ \A v \in Watchers \ {w} : watcher'[v] = watcher[v]
    BY <1>2, WatcherSaveTasks
  <2>2. UNCHANGED <<now, phase, fw, contested, unrenewed>>
    BY <1>2 DEF WatcherSave
  <2>3. /\ watcher[w] # Idle
        /\ t \in Targets
        /\ watcher[w].permanent \in BOOLEAN
        /\ watcher[w].at \in Nat
        /\ now \in Nat
    BY <1>2, TaskTypes, ConstantsAssumption DEF WatcherSave, TypeOK
  <2>4. bans' = [bans EXCEPT ![t] = ExpiryOf(watcher[w].permanent, now)]
    BY <1>2 DEF WatcherSave, Outcomes, ReliableCalls
  <2>5. /\ bans'[t] = ExpiryOf(watcher[w].permanent, now)
        /\ \A s \in Targets \ {t} : bans'[s] = bans[s]
    BY <2>3, <2>4 DEF TypeOK
  <2>6. WatchersCovered'
    BY <2>1, <2>2 DEF WatchersCovered
  <2>7. ExpiryOf(watcher[w].permanent, now) <=
           ExpiryOf(watcher[w].permanent, watcher[w].at) + Skew
    BY <2>3, ExpiryShift DEF WatchersCovered
  <2>8. t \notin Excepted => fw[t] + Skew >= bans'[t]
    <3>1. t \notin Excepted => fw[t] >= ExpiryOf(watcher[w].permanent, watcher[w].at)
      BY <2>3 DEF WatchersCovered
    <3>2. fw[t] \in Nat
      BY <2>3, ExpiryBound DEF TypeOK
    <3>3. /\ ExpiryOf(watcher[w].permanent, watcher[w].at) \in Nat
          /\ ExpiryOf(watcher[w].permanent, now) \in Nat
      BY <2>3, ConstantsAssumption DEF ExpiryOf, Never
    <3> QED
      BY <3>1, <3>2, <3>3, <2>5, <2>7, ExpiryBound
  <2>9. RecordsBlocked'
    BY <2>1, <2>2, <2>5, <2>8 DEF RecordsBlocked, BlockedAsRecorded
  <2> QED
    BY <2>6, <2>9
<1>3. ASSUME NEW c \in Clients, NEW t \in Targets, ClientBanSave(c, t)
      PROVE  WatchersCovered' /\ RecordsBlocked'
  <2>1. \A s \in Targets : BanInFlight(s)' <=> BanInFlight(s) \/ s = t
    BY <1>3, ClientBanSaveTasks
  <2>2. /\ UNCHANGED <<now, phase, fw, watcher, unrenewed>>
        /\ contested \ {t} \subseteq contested'
        /\ BanInFlight(t) /\ t \in contested => t \in contested'
    BY <1>3, BanHistory DEF ClientBanSave
  <2>6. \A w \in Watchers : watcher[w] # Idle /\ watcher[w].target = t => BanInFlight(t)
    BY DEF BanInFlight
  <2>3. \A s \in Targets \ {t} : bans'[s] = bans[s]
    BY <1>3 DEF ClientBanSave, TypeOK
  <2>4. WatchersCovered'
    BY <2>2, <2>6 DEF WatchersCovered
  <2>5. RecordsBlocked'
    BY <2>1, <2>2, <2>3 DEF RecordsBlocked, BlockedAsRecorded
  <2> QED
    BY <2>4, <2>5
<1>4. ASSUME NEW c \in Clients, ClientBanBlock(c)
      PROVE  WatchersCovered' /\ RecordsBlocked'
  <2> DEFINE t == client[c].target
  <2>1. \A s \in Targets : s # t => (BanInFlight(s)' <=> BanInFlight(s))
    BY <1>4, ClientBanBlockTasks
  <2>2. UNCHANGED <<now, phase, bans, watcher, contested>> /\ t \in Targets
    BY <1>4, TaskTypes DEF ClientBanBlock
  <2>3. tables
    BY <1>4 DEF ClientBanBlock, TasksOnlyWhenUp, TablesHold, Idle
  <2>4. /\ t \in unrenewed' \/ fw'[t] >= Never
        /\ \A s \in Targets \ {t} : /\ fw'[s] = fw[s]
                                    /\ s \in unrenewed' <=> s \in unrenewed
    BY <1>4, <2>2, <2>3, ExpiryTypes, ReliableAdd DEF ClientBanBlock
  <2>8. fw'[t] \in Nat
    BY <2>2, ExpiryBound DEF TypeOK
  <2>5. \A s \in Targets : bans[s] <= Never + Skew
    BY ExpiryBound DEF TypeOK
  <2>6. WatchersCovered'
    <3> SUFFICES ASSUME NEW v \in Watchers, watcher[v] # Idle,
                        watcher[v].target \notin Excepted'
                 PROVE  fw'[watcher[v].target] >=
                            ExpiryOf(watcher[v].permanent, watcher[v].at)
      BY <2>2 DEF WatchersCovered
    <3>1. /\ watcher[v].target \in Targets
          /\ ExpiryOf(watcher[v].permanent, watcher[v].at) \in Expiries
      BY TaskTypes, ExpiryTypes, ConstantsAssumption
    <3>2. CASE watcher[v].target = t
      BY <3>1, <3>2, <2>4, <2>8, ExpiryBound
    <3>3. CASE watcher[v].target # t
      BY <3>1, <3>3, <2>2, <2>4 DEF WatchersCovered
    <3> QED
      BY <3>2, <3>3
  <2>9. t \in unrenewed' \/ fw'[t] + Skew >= bans[t]
    BY <2>2, <2>4, <2>5, <2>8, ExpiryBound DEF TypeOK
  <2>7. RecordsBlocked'
    BY <2>1, <2>2, <2>4, <2>9 DEF RecordsBlocked, BlockedAsRecorded
  <2> QED
    BY <2>6, <2>7
<1>5. ASSUME NEW c \in Clients, NEW t \in Targets, ClientUnbanRemove(c, t)
      PROVE  WatchersCovered' /\ RecordsBlocked'
  <2>1. \A s \in Targets : BanInFlight(s)' <=> BanInFlight(s)
    BY <1>5, ClientUnbanRemoveTasks
  <2>2. /\ UNCHANGED <<now, phase, fw, watcher, unrenewed>>
        /\ contested \ {t} \subseteq contested'
        /\ BanInFlight(t) => t \in contested'
    BY <1>5 DEF ClientUnbanRemove, UnbanStarts
  <2>3. bans'[t] = Absent /\ \A s \in Targets \ {t} : bans'[s] = bans[s]
    BY <1>5 DEF ClientUnbanRemove, TypeOK
  <2>4. \A w \in Watchers : watcher[w] # Idle /\ watcher[w].target = t => t \in contested'
    BY <2>2 DEF BanInFlight
  <2>5. WatchersCovered'
    BY <2>2, <2>4 DEF WatchersCovered
  <2>6. now' \in Nat /\ ~(bans'[t] > now')
    BY <2>2, <2>3 DEF Absent, TypeOK
  <2>7. RecordsBlocked'
    BY <2>1, <2>2, <2>3, <2>6 DEF RecordsBlocked, BlockedAsRecorded
  <2> QED
    BY <2>5, <2>7
<1>6. ASSUME NEW c \in Clients, ClientUnbanLift(c)
      PROVE  WatchersCovered' /\ RecordsBlocked'
  <2> DEFINE t == client[c].target
  <2>1. /\ \A s \in Targets : BanInFlight(s)' <=> BanInFlight(s)
        /\ UnbanInFlight(t) /\ t \in Targets
    BY <1>6, ClientUnbanLiftTasks, TaskTypes DEF ClientUnbanLift
  <2>2. UNCHANGED <<now, phase, bans, contested, watcher, unrenewed>>
    BY <1>6 DEF ClientUnbanLift
  <2>3. \A s \in Targets \ {t} : fw'[s] = fw[s]
    BY <1>6, <2>1 DEF ClientUnbanLift, TypeOK
  <2>4. t \notin contested => bans[t] = Absent /\ ~BanInFlight(t)
    BY <2>1 DEF UnbansSettle
  <2>5. \A w \in Watchers : watcher[w] # Idle /\ watcher[w].target = t => t \in contested
    BY <2>4 DEF BanInFlight
  <2>6. WatchersCovered'
    BY <2>2, <2>3, <2>5, TaskTypes DEF WatchersCovered
  <2>7. t \notin contested => ~(bans[t] > now)
    BY <2>4 DEF Absent, TypeOK
  <2>8. RecordsBlocked'
    BY <2>1, <2>2, <2>3, <2>7 DEF RecordsBlocked, BlockedAsRecorded
  <2> QED
    BY <2>6, <2>8
<1>7. ASSUME UNCHANGED <<now, phase, bans, fw, watcher, client, contested, unrenewed>>
      PROVE  WatchersCovered' /\ RecordsBlocked'
  <2>1. \A s \in Targets : BanInFlight(s)' <=> BanInFlight(s)
    BY <1>7, SameTasks
  <2> QED
    BY <1>7, <2>1 DEF WatchersCovered, RecordsBlocked, BlockedAsRecorded
<1>8. CASE Tick
  <2>1. /\ UNCHANGED <<phase, bans, fw, watcher, client, contested, unrenewed>>
        /\ now' = now + 1
        /\ \A w \in Watchers : watcher[w] # Idle => now < watcher[w].at + Skew
    BY <1>8 DEF Tick
  <2>2. \A s \in Targets : BanInFlight(s)' <=> BanInFlight(s)
    BY <2>1, SameTasks
  <2>3. \A w \in Watchers : watcher[w] # Idle => watcher[w].at \in Nat
    BY TaskTypes
  <2>4. WatchersCovered'
    BY <2>1, <2>3, ConstantsAssumption DEF WatchersCovered, TypeOK
  <2>5. \A s \in Targets : bans[s] > now + 1 => bans[s] > now
    BY ExpiryBound DEF TypeOK
  <2>6. RecordsBlocked'
    BY <2>1, <2>2, <2>5 DEF RecordsBlocked, BlockedAsRecorded
  <2> QED
    BY <2>4, <2>6
<1>9. CASE SweepDelete
  <2>1. UNCHANGED <<now, phase, fw, watcher, client, contested, unrenewed>>
    BY <1>9 DEF SweepDelete
  <2>2. \A s \in Targets : BanInFlight(s)' <=> BanInFlight(s)
    BY <2>1, SameTasks
  <2>3. \A s \in Targets : bans'[s] = bans[s] \/ ~(bans'[s] > now')
    BY <1>9 DEF SweepDelete, TypeOK, Absent
  <2> QED
    BY <2>1, <2>2, <2>3 DEF WatchersCovered, RecordsBlocked, BlockedAsRecorded
<1>10. ASSUME phase' \in {"down", "initialized"}
       PROVE  WatchersCovered' /\ RecordsBlocked'
  BY <1>10 DEF WatchersCovered, RecordsBlocked, TasksOnlyWhenUp
<1>11. CASE BootRestore
  <2>1. phase' = "restored" /\ UNCHANGED <<now, bans>>
    BY <1>11 DEF BootRestore
  <2>2. \A s \in Targets : bans[s] > now => s \in unrenewed' \/ fw'[s] >= Never
    BY <1>11, RestoredIsNever
  <2>3. \A s \in Targets : bans[s] <= Never + Skew
    BY ExpiryBound DEF TypeOK
  <2>5. \A s \in Targets : fw'[s] \in Nat
    BY ExpiryBound DEF TypeOK
  <2>6. \A s \in Targets : bans[s] > now => s \in unrenewed' \/ fw'[s] + Skew >= bans[s]
    BY <2>2, <2>3, <2>5, ExpiryBound DEF TypeOK
  <2>4. RecordsBlocked'
    BY <2>1, <2>6 DEF RecordsBlocked, BlockedAsRecorded
  <2> QED
    BY <2>1, <2>4 DEF WatchersCovered, TasksOnlyWhenUp
<1>12. CASE BootPipeline
  <2>1. /\ phase = "restored"
        /\ UNCHANGED <<now, bans, fw, watcher, client, contested, unrenewed>>
    BY <1>12 DEF BootPipeline
  <2>2. \A s \in Targets : BanInFlight(s)' <=> BanInFlight(s)
    BY <2>1, SameTasks
  <2> QED
    BY <2>1, <2>2 DEF WatchersCovered, RecordsBlocked, BlockedAsRecorded
<1>13. CASE Sweep
  BY <1>7, <1>9, <1>13 DEF Sweep, SweepScan
<1>14. CASE Boot
  BY <1>10, <1>11, <1>12, <1>14 DEF Boot, BootInit
<1>15. CASE Stop \/ Reboot
  BY <1>10, <1>15 DEF Stop, Reboot
<1>16. CASE Offline
  BY <1>10, <1>16 DEF Offline, OfflineBan, OfflineUnban
<1>17. CASE \E w \in Watchers : WatcherStep(w)
  BY <1>1, <1>2, <1>17 DEF WatcherStep
<1>18. CASE \E c \in Clients : ClientStep(c)
  BY <1>3, <1>4, <1>5, <1>6, <1>18 DEF ClientStep
<1>19. CASE UNCHANGED vars
  BY <1>7, <1>19 DEF vars
<1> QED
  BY <1>8, <1>13, <1>14, <1>15, <1>16, <1>17, <1>18, <1>19 DEF Next

\* For any number of targets, watchers, connections and stops, any mix of
\* verdicts and either kind of kernel, when calls do not fail: while the daemon
\* is up an active record is enforced by the kernel, with the exceptions that
\* RecordedBanIsBlocked names (watcher.rs:79-95, actions.rs:37-50,
\* daemon.rs:49-59).
THEOREM RecordsAreEnforced ==
    ASSUME ReliableCalls
    PROVE  Spec => []RecordedBanIsBlocked
<1>1. Init => WatchersCovered /\ RecordsBlocked
  BY DEF Init, WatchersCovered, RecordsBlocked
<1>2. Init => BlockInv
  BY <1>1, UnbanInvInit DEF BlockInv
<1>3. BlockInv /\ TypeOK' /\ [Next]_vars => BlockInv'
  BY BlockInvNext, UnbanInvNext DEF BlockInv
<1>4. BlockInv => RecordedBanIsBlocked
  BY DEF BlockInv, RecordsBlocked, RecordedBanIsBlocked, Quiet, Excepted
<1> QED
  BY <1>2, <1>3, <1>4, TypeCorrect, PTL DEF Spec
-----------------------------------------------------------------------------
(* The snapshot: what it hides is blocked, but for what was unbanned since. *)

\* Between the restore and the snapshot nothing else writes; an unban under
\* way is of this daemon.
SnapshotInv ==
    /\ UnbanInv
    /\ \A t \in Targets : UnbanInFlight(t) => t \in unbanned
    /\ phase = "restored" => \A t \in ActiveBans \ unrenewed : fw[t] = Never
    /\ SnapshotIsBlocked

\* An add that does not fail leaves a permanent element, or one it did not renew.
LEMMA PermanentAdd ==
    ASSUME TypeOK, ReliableCalls, tables, NEW t \in Targets, NftAdd(t, Never)
    PROVE  /\ \A s \in Targets \ {t} : /\ fw'[s] = fw[s]
                                       /\ s \in unrenewed' <=> s \in unrenewed
           /\ t \in unrenewed' \/ fw'[t] = Never
<1>1. fw'[t] \in Expiries
  BY ExpiryTypes, NftAddType
<1>2. /\ \A s \in Targets \ {t} : fw'[s] = fw[s] /\ (s \in unrenewed' <=> s \in unrenewed)
      /\ t \in unrenewed' \/ fw'[t] >= Never
  BY ReliableAdd, ExpiryTypes
<1>3. fw'[t] >= Never => fw'[t] = Never
  BY <1>1, ExpiryBound
<1> QED
  BY <1>2, <1>3

\* Every step keeps the snapshot's targets blocked for good.
LEMMA SnapshotInvNext ==
    ASSUME ReliableCalls, SnapshotInv, UnbanInv', TypeOK', [Next]_vars
    PROVE  SnapshotInv'
<1> USE DEF SnapshotInv, UnbanInv
<1>1. ASSUME NEW w \in Watchers, NEW t \in Targets, NEW permanent \in Verdicts,
             WatcherBlock(w, t, permanent)
      PROVE  SnapshotInv'
  <2>1. \A s \in Targets : UnbanInFlight(s)' <=> UnbanInFlight(s)
    BY <1>1, WatcherBlockTasks
  <2>2. /\ phase = "up" /\ phase' = "up" /\ t \notin bannedIps
        /\ UNCHANGED <<bannedIps, unbanned>>
    BY <1>1 DEF WatcherBlock
  <2>3. \A s \in Targets \ {t} : fw'[s] = fw[s] /\ (s \in unrenewed' <=> s \in unrenewed)
    BY <1>1 DEF WatcherBlock, NftAdd, TypeOK
  <2> QED
    BY <2>1, <2>2, <2>3 DEF SnapshotIsBlocked, TypeOK
<1>2. ASSUME NEW w \in Watchers, WatcherSave(w)
      PROVE  SnapshotInv'
  <2>1. \A s \in Targets : UnbanInFlight(s)' <=> UnbanInFlight(s)
    BY <1>2, WatcherSaveTasks
  <2>2. phase = "up" /\ UNCHANGED <<phase, fw, bannedIps, unrenewed, unbanned>>
    BY <1>2 DEF WatcherSave, TasksOnlyWhenUp
  <2> QED
    BY <2>1, <2>2 DEF SnapshotIsBlocked
<1>3. ASSUME NEW c \in Clients, NEW t \in Targets, ClientBanSave(c, t)
      PROVE  SnapshotInv'
  <2>1. \A s \in Targets : UnbanInFlight(s)' <=> UnbanInFlight(s)
    BY <1>3, ClientBanSaveTasks
  <2>2. phase = "up" /\ UNCHANGED <<phase, fw, bannedIps, unrenewed, unbanned>>
    BY <1>3 DEF ClientBanSave
  <2> QED
    BY <2>1, <2>2 DEF SnapshotIsBlocked
<1>4. ASSUME NEW c \in Clients, ClientBanBlock(c)
      PROVE  SnapshotInv'
  <2>1. \A s \in Targets : UnbanInFlight(s)' <=> UnbanInFlight(s)
    BY <1>4, ClientBanBlockTasks
  <2>2. phase = "up" /\ UNCHANGED <<phase, bannedIps, unbanned>>
    BY <1>4 DEF ClientBanBlock, TasksOnlyWhenUp, Idle
  <2>3. client[c].target \in Targets /\ tables /\ NftAdd(client[c].target, Never)
    BY <1>4, <2>2, TaskTypes DEF ClientBanBlock, TablesHold
  <2>4. \A s \in Targets : \/ fw'[s] = fw[s] /\ (s \in unrenewed' <=> s \in unrenewed)
                           \/ s \in unrenewed' \/ fw'[s] = Never
    BY <2>3, PermanentAdd
  <2> QED
    BY <2>1, <2>2, <2>4 DEF SnapshotIsBlocked, TypeOK
<1>5. ASSUME NEW c \in Clients, NEW t \in Targets, ClientUnbanRemove(c, t)
      PROVE  SnapshotInv'
  <2>1. \A s \in Targets : UnbanInFlight(s)' <=> UnbanInFlight(s) \/ s = t
    BY <1>5, ClientUnbanRemoveTasks
  <2>2. /\ phase = "up" /\ UNCHANGED <<phase, fw, bannedIps, unrenewed>>
        /\ unbanned' = unbanned \cup {t}
    BY <1>5 DEF ClientUnbanRemove, UnbanStarts
  <2> QED
    BY <2>1, <2>2 DEF SnapshotIsBlocked
<1>6. ASSUME NEW c \in Clients, ClientUnbanLift(c)
      PROVE  SnapshotInv'
  <2> DEFINE t == client[c].target
  <2>1. /\ \A s \in Targets : UnbanInFlight(s)' => UnbanInFlight(s)
        /\ t \in Targets /\ t \in unbanned
    BY <1>6, ClientUnbanLiftTasks, TaskTypes DEF ClientUnbanLift
  <2>2. phase = "up" /\ UNCHANGED <<phase, bannedIps, unrenewed, unbanned>>
    BY <1>6 DEF ClientUnbanLift, TasksOnlyWhenUp, Idle
  <2>3. \A s \in Targets \ {t} : fw'[s] = fw[s]
    BY <1>6, <2>1 DEF ClientUnbanLift, TypeOK
  <2> QED
    BY <2>1, <2>2, <2>3 DEF SnapshotIsBlocked, TypeOK
<1>7. CASE Tick \/ Sweep \/ UNCHANGED vars
  <2>1. UNCHANGED <<phase, fw, bannedIps, watcher, client, unrenewed, unbanned>>
    BY <1>7 DEF Tick, Sweep, SweepScan, SweepDelete, vars
  <2>2. \A s \in Targets : UnbanInFlight(s)' <=> UnbanInFlight(s)
    BY <2>1, SameTasks
  <2>3. phase = "restored" => ActiveBans' \subseteq ActiveBans
    BY <1>7 DEF Tick, Sweep, SweepScan, SweepDelete, vars, ActiveBans, TypeOK,
                Expiries, Absent
  <2> QED
    BY <2>1, <2>2, <2>3 DEF SnapshotIsBlocked
<1>8. CASE Boot
  <2>1. UNCHANGED <<now, bans, watcher, client, unbanned>>
    BY <1>8 DEF Boot, BootInit, BootRestore, BootPipeline
  <2>2. \A s \in Targets : UnbanInFlight(s)' <=> UnbanInFlight(s)
    BY <2>1, SameTasks
  <2>3. CASE BootInit
    BY <2>1, <2>2, <2>3 DEF BootInit, SnapshotIsBlocked
  <2>4. CASE BootRestore
    <3>1. \A t \in ActiveBans : t \in unrenewed' \/ fw'[t] = Never
      BY <2>4, RestoredIsNever DEF ActiveBans
    <3>2. ActiveBans' = ActiveBans
      BY <2>1 DEF ActiveBans
    <3> QED
      BY <2>1, <2>2, <2>4, <3>1, <3>2 DEF BootRestore, SnapshotIsBlocked
  <2>5. CASE BootPipeline
    <3>1. bannedIps' = ActiveBans
      BY <2>5 DEF BootPipeline, Outcomes, ReliableCalls
    <3> QED
      BY <2>1, <2>2, <2>5, <3>1 DEF BootPipeline, SnapshotIsBlocked
  <2> QED
    BY <1>8, <2>3, <2>4, <2>5 DEF Boot
<1>9. CASE Stop \/ Reboot
  <2>1. /\ phase' = "down"
        /\ \A c \in Clients : client'[c] = Idle
    BY <1>9 DEF Stop, Reboot
  <2>2. \A s \in Targets : ~UnbanInFlight(s)'
    BY <2>1 DEF UnbanInFlight, Idle
  <2> QED
    BY <2>1, <2>2 DEF SnapshotIsBlocked
<1>10. CASE Offline
  <2>1. phase' = "down" /\ UNCHANGED <<watcher, client, unbanned>>
    BY <1>10 DEF Offline, OfflineBan, OfflineUnban
  <2>2. \A s \in Targets : UnbanInFlight(s)' <=> UnbanInFlight(s)
    BY <2>1, SameTasks
  <2> QED
    BY <2>1, <2>2 DEF SnapshotIsBlocked
<1> QED
  BY <1>1, <1>2, <1>3, <1>4, <1>5, <1>6, <1>7, <1>8, <1>9, <1>10
  DEF Next, WatcherStep, ClientStep

\* When calls do not fail, whatever the pipeline's snapshot hides from every
\* check (pipeline.rs:243-245) is in the kernel's set without a timeout, unless
\* an operator unbanned it since the start or the kernel left its old timeout:
\* through any verdicts, bans and unbans of others, sweeps, crashes and reboots.
THEOREM SnapshotIsEnforced ==
    ASSUME ReliableCalls
    PROVE  Spec => []SnapshotIsBlocked
<1>1. Init => SnapshotInv
  BY UnbanInvInit, NoTasks DEF Init, SnapshotInv, SnapshotIsBlocked
<1>2. SnapshotInv /\ TypeOK' /\ [Next]_vars => SnapshotInv'
  BY SnapshotInvNext, UnbanInvNext DEF SnapshotInv
<1>3. SnapshotInv => SnapshotIsBlocked
  BY DEF SnapshotInv
<1> QED
  BY <1>1, <1>2, <1>3, TypeCorrect, PTL DEF Spec
=============================================================================
