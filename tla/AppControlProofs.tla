-------------------------- MODULE AppControlProofs --------------------------
(***************************************************************************)
(* What holds of the Executive Services' tables for any number of          *)
(* applications, slots, tasks and restarts.  AppControlInvariant shows     *)
(* that IInv, TypeInv, ModuleInv and TaskInv are kept; here the tables are *)
(* counted (CountInv), the parts are put together (FullInv), and the       *)
(* theorems follow.                                                        *)
(***************************************************************************)
EXTENDS AppControlInvariant, FiniteSetTheorems, WellFoundedInduction

\* CFE_ES_RunAppTableScan works through its list in the order of the table.
LEMMA NextOfList ==
  ASSUME NEW todo \in SUBSET AppId, todo # {}
  PROVE  NextOf(todo) \in todo
<1> DEFINE S == {AppOf(a) : a \in todo}
<1>1. S \subseteq Nat /\ S # {}
  BY SlotsInTable DEF AppSlot
<1>2. \E x \in S : \A y \in S : ~ (<<y, x>> \in OpToRel(<, Nat))
  <2> HIDE DEF S
  <2> QED BY ZenonT(60), <1>1, NatLessThanWellFounded, WFMin
<1>3. PICK x \in S : \A y \in S : ~ (<<y, x>> \in OpToRel(<, Nat))
  BY ZenonT(60), <1>2
<1>4. \A y \in S : x <= y
  <2> SUFFICES ASSUME NEW y \in S, ~ (x <= y)
               PROVE  FALSE
    OBVIOUS
  <2>1. x \in Nat /\ y \in Nat /\ y < x
    BY <1>1
  <2>2. <<y, x>> \in OpToRel(<, Nat)
    BY Zenon, <2>1 DEF OpToRel
  <2> QED BY ZenonT(60), <1>3, <2>2
<1>5. \E a \in todo : \A b \in todo : AppOf(a) <= AppOf(b)
  BY Zenon, <1>4
<1> QED BY Zenon, <1>5 DEF NextOf

\* So the list of the scan, which holds registered applications only, has a
\* next one.
LEMMA ListHasNext == IInv => NextOnList
<1> SUFFICES ASSUME IInv, bg.pc = "process"
             PROVE  NextOf(bg.todo) \in bg.todo
  BY Zenon DEF NextOnList
<1>1. bg.todo \in SUBSET AppId /\ bg.todo # {}
  BY Zenon DEF IInv, AppInv, AppTypes, TableScan, ListMatches
<1> QED BY Zenon, <1>1, NextOfList

\* With it every step keeps the invariant of the two tables.
LEMMA TablesHold == Spec => []IInv
<1>1. IInv /\ [Next]_vars => IInv'
  BY Zenon, ListHasNext, StepInv
<1> QED BY <1>1, InitInv, PTL DEF Spec


-----------------------------------------------------------------------------
(***************************************************************************)
(* Counts                                                                  *)
(***************************************************************************)
RegisteredApps == {s \in AppSlot : AppTable[s].id \in AppId}

CountInv ==
    /\ RegisteredTasks = Cardinality(Registered) + Cardinality(Overwritten)
    /\ RegisteredExternalApps = Cardinality(RegisteredApps)

\* The tables and the IDs are finite.
LEMMA TablesFinite ==
  ASSUME LastTaskId \in 0..LastTask, ListsIssued
  PROVE  /\ IsFiniteSet(Registered) /\ IsFiniteSet(RegisteredApps) /\ IsFiniteSet(Overwritten)
         /\ Cardinality(Registered) \in Nat /\ Cardinality(RegisteredApps) \in Nat
         /\ Cardinality(Overwritten) \in Nat
<1>1. IsFiniteSet(TaskSlot) /\ IsFiniteSet(AppSlot) /\ IsFiniteSet(TaskId)
  BY FS_Interval, AppAssumption DEF TaskSlot, AppSlot, TaskId
<1>2. Registered \subseteq TaskSlot /\ RegisteredApps \subseteq AppSlot /\ Overwritten \subseteq TaskId
  BY Zenon, IssuedIds DEF Registered, RegisteredApps, ListsIssued
<1>3. IsFiniteSet(Registered) /\ IsFiniteSet(RegisteredApps) /\ IsFiniteSet(Overwritten)
  BY Zenon, <1>1, <1>2, FS_Subset
<1> QED BY Zenon, <1>3, FS_CardinalityType

\* Neither count may change by itself.
LEMMA SameCounts ==
  ASSUME CountInv, UNCHANGED <<RegisteredTasks, RegisteredExternalApps, Overwritten>>,
         Registered' = Registered, RegisteredApps' = RegisteredApps
  PROVE  CountInv'
  BY Zenon DEF CountInv

\* CFE_ES_StartAppTask counts the task, and so do the records: a new one, or
\* one more that was overwritten.
LEMMA RegisterCounts ==
  ASSUME TaskInv, TaskTypes, CountInv, NEW t \in TaskId, NEW a, RegisterTask(t, a),
         UNCHANGED RegisteredExternalApps, RegisteredApps' = RegisteredApps
  PROVE  CountInv'
<1> DEFINE x == TaskOf(t)
           u == TaskTable[x].id
<1>1. x \in TaskSlot /\ LastTaskId \in 0..LastTask /\ ListsIssued
  BY Zenon, SlotsInTable DEF TaskInv
<1>2. TaskTable' = [TaskTable EXCEPT ![x] = [id |-> t, app |-> a]]
  BY Zenon DEF RegisterTask
<1>3. Overwritten' = Overwritten \cup ({u} \cap TaskId)
  BY Zenon DEF RegisterTask
<1>4. RegisteredTasks' = RegisteredTasks + 1
  BY Zenon DEF RegisterTask
<1>5. u \in TaskId => u \notin Overwritten
  BY Zenon, <1>1 DEF TaskInv, OverwrittenGone
<1> HIDE DEF x
<1>6. Registered' = Registered \cup {x}
  <2>1. TaskTable'[x].id = t /\ \A s \in TaskSlot : s # x => TaskTable'[s] = TaskTable[s]
    BY Zenon, <1>1, <1>2 DEF TaskTypes
  <2> QED BY Zenon, <1>1, <2>1 DEF Registered
<1>7. x \in Registered <=> u \in TaskId
  BY Zenon, <1>1 DEF Registered
<1> HIDE DEF u
<1>8. CASE u \in TaskId
  <2>1. Registered' = Registered
    BY Zenon, <1>6, <1>7, <1>8
  <2>2. Overwritten' = Overwritten \cup {u}
    BY Zenon, <1>3, <1>8
  <2>3. Cardinality(Overwritten') = Cardinality(Overwritten) + 1
    BY Zenon, <1>1, <1>5, <1>8, <2>2, TablesFinite, FS_AddElement
  <2> QED BY <1>1, <1>4, <2>1, <2>3, TablesFinite DEF CountInv
<1>9. CASE u \notin TaskId
  <2>1. Overwritten' = Overwritten
    BY Zenon, <1>3, <1>9
  <2>2. Cardinality(Registered') = Cardinality(Registered) + 1
    BY ZenonT(60), <1>1, <1>6, <1>7, <1>9, TablesFinite, FS_AddElement
  <2> QED BY SMTT(60), <1>1, <1>4, <2>1, <2>2, TablesFinite DEF CountInv
<1> QED BY Zenon, <1>8, <1>9

\* CFE_ES_DeleteChildTask and ExitChildTask take one record and count it.
LEMMA DeleteCounts ==
  ASSUME TaskInv, TaskTypes, TasksKnown, CountInv,
         \/ \E t \in TaskId : DeleteChildTask(t)
         \/ \E x \in TaskSlot : ExitChildTask(x)
  PROVE  CountInv'
<1>1. PICK x \in TaskSlot : TaskTable[x].id \in TaskId
                         /\ TaskTable' = [TaskTable EXCEPT ![x] = NoRecord]
  <2>1. ASSUME NEW t \in TaskId, DeleteChildTask(t)
        PROVE  /\ TaskOf(t) \in TaskSlot /\ TaskTable[TaskOf(t)].id \in TaskId
               /\ TaskTable' = [TaskTable EXCEPT ![TaskOf(t)] = NoRecord]
    BY Zenon, <2>1, SlotsInTable DEF DeleteChildTask
  <2>2. ASSUME NEW x \in TaskSlot, ExitChildTask(x)
        PROVE  TaskTable[x].id \in TaskId /\ TaskTable' = [TaskTable EXCEPT ![x] = NoRecord]
    BY Zenon, <2>2 DEF ExitChildTask, AppContext, TaskContext, TasksKnown, ThreadsKnown, ThreadKnown
  <2> QED BY Zenon, <2>1, <2>2
<1>2. /\ UNCHANGED <<AppTable, RegisteredExternalApps, Overwritten>>
      /\ RegisteredTasks' = RegisteredTasks - 1
  BY Zenon DEF DeleteChildTask, ExitChildTask, history
<1>3. Registered' = Registered \ {x} /\ x \in Registered
  <2>1. TaskTable'[x].id \notin TaskId /\ \A s \in TaskSlot : s # x => TaskTable'[s] = TaskTable[s]
    BY Zenon, <1>1, PseudoIds DEF TaskTypes, NoRecord
  <2> QED BY Zenon, <1>1, <2>1 DEF Registered
<1>4. RegisteredApps' = RegisteredApps
  BY Zenon, <1>2 DEF RegisteredApps
<1>5. LastTaskId \in 0..LastTask /\ ListsIssued
  BY Zenon DEF TaskInv
<1>6. Cardinality(Registered') = Cardinality(Registered) - 1
  BY Zenon, <1>3, <1>5, TablesFinite, FS_RemoveElement
<1> QED BY SMTT(60), <1>2, <1>4, <1>5, <1>6, TablesFinite DEF CountInv

\* The first locked section of CFE_ES_CleanUpApp counts every record it takes:
\* none of them is RESERVED already, since no other clean-up is under way.
LEMMA CollectCounts ==
  ASSUME AppInv, NextOnList, TaskInv, TaskTypes, CountInv, Collect
  PROVE  CountInv'
<1>1. PICK a \in bg.todo : Collects(a)
  BY Zenon, CollectCollects
<1>2. /\ RegisteredTasks' = RegisteredTasks - Cardinality(Owned(a)) /\ Overwritten' = Overwritten
      /\ RegisteredExternalApps' = RegisteredExternalApps - 1 /\ bg.pc = "process"
  BY Zenon, <1>1 DEF Collects, Collect, history
<1>3. Owned(a) \subseteq Registered
  <2>1. \A s \in TaskSlot : TaskTable[s].id # RESERVED
    BY Zenon, <1>2 DEF TaskInv, ReservedListed, Cleaning
  <2> QED BY Zenon, <2>1 DEF TaskTypes, TaskRecord, Owned, Registered, TaskRecordIsUsed
<1>4. Registered' = Registered \ Owned(a)
  <2>1. ASSUME NEW s \in Owned(a)
        PROVE  s \in TaskSlot /\ TaskTable'[s].id \notin TaskId
    <3>1. s \in TaskSlot /\ TaskTable'[s] = [TaskTable[s] EXCEPT !.id = RESERVED]
      BY Zenon, <1>1 DEF Collects, Owned
    <3>2. TaskTable[s] \in TaskRecord
      BY Zenon, <3>1 DEF TaskTypes
    <3>3. TaskTable'[s].id = RESERVED
      BY Zenon, <3>1, <3>2 DEF TaskRecord
    <3> QED BY Zenon, <3>1, <3>3, PseudoIds
  <2>2. \A s \in TaskSlot \ Owned(a) : TaskTable'[s] = TaskTable[s]
    BY Zenon, <1>1 DEF Collects
  <2>3. \A s : s \in Registered' <=> s \in Registered \ Owned(a)
    BY Zenon, <2>1, <2>2 DEF Registered
  <2> QED BY Zenon, <2>3
<1>5. /\ AppOf(a) \in RegisteredApps
      /\ RegisteredApps' = RegisteredApps \ {AppOf(a)}
  <2>1. a \in AppId /\ AppTable[AppOf(a)].id = a /\ AppOf(a) \in AppSlot
    BY Zenon, SlotsInTable DEF AppInv, AppTypes, TableScan, ListMatches
  <2>2. /\ AppTable'[AppOf(a)].id = RESERVED
        /\ \A s \in AppSlot : s # AppOf(a) => AppTable'[s] = AppTable[s]
    BY ZenonT(60), <1>1, <2>1 DEF Collects, AppRecord, AppInv, AppTypes
  <2> QED BY Zenon, <2>1, <2>2, PseudoIds DEF RegisteredApps
<1>6. LastTaskId \in 0..LastTask /\ ListsIssued
  BY Zenon DEF TaskInv
<1>7. Registered \cap Owned(a) = Owned(a)
  BY Zenon, <1>3
<1>8. Cardinality(Registered') = Cardinality(Registered) - Cardinality(Owned(a))
  BY ZenonT(60), <1>4, <1>6, <1>7, TablesFinite, FS_Difference
<1>9. Cardinality(Owned(a)) \in Nat
  BY Zenon, <1>3, <1>6, TablesFinite, FS_Subset, FS_CardinalityType
<1>10. Cardinality(RegisteredApps') = Cardinality(RegisteredApps) - 1
  BY Zenon, <1>5, <1>6, TablesFinite, FS_RemoveElement
<1> QED BY SMTT(60), <1>2, <1>6, <1>8, <1>9, <1>10, TablesFinite DEF CountInv

\* One record of the application table changes, and not whether it is
\* registered.
LEMMA OneApp ==
  ASSUME AppTypes, NEW k, NEW r, AppTable' = [AppTable EXCEPT ![k] = r],
         k \in AppSlot => (r.id \in AppId <=> AppTable[k].id \in AppId)
  PROVE  RegisteredApps' = RegisteredApps
<1>1. \A s : s \in RegisteredApps' <=> s \in RegisteredApps
  BY Zenon DEF RegisteredApps, AppTypes
<1> QED BY Zenon, <1>1

\* CFE_ES_AppCreate counts the application when it registers it.
LEMMA CreateCounts ==
  ASSUME IInv, TaskInv, CountInv, NEW p \in Creator, AppCreate(p)
  PROVE  CountInv'
<1> DEFINE k == AppOf(create[p].id)
<1>1. AppInv /\ AppTypes /\ AppTable \in [AppSlot -> AppRecord] /\ TaskTypes /\ TasksKnown
  BY Zenon DEF IInv, AppInv, AppTypes
<1>2. create[p].id \in AppId /\ k \in AppSlot /\ AppTable[k].id = RESERVED
  <2>1. create[p].pc # "idle"
    BY Zenon DEF AppCreate, LoadModule, StartMainTask, RegisterMainTask, Finalize, Abandon
  <2> QED BY Zenon, <1>1, <2>1, SlotsInTable DEF AppInv, CreatorsReserve, Reserves
<1>3. CASE LoadModule(p) \/ StartMainTask(p)
  <2>1. UNCHANGED <<RegisteredTasks, RegisteredExternalApps, Overwritten, AppTable, TaskTable>>
    BY Zenon, <1>3 DEF LoadModule, StartMainTask, esVars, history
  <2> QED BY Zenon, <2>1, SameCounts DEF Registered, RegisteredApps
<1>4. CASE RegisterMainTask(p)
  <2> DEFINE r == [AppTable[k] EXCEPT !.main = create[p].task]
  <2>1. AppTable' = [AppTable EXCEPT ![k] = r] /\ UNCHANGED RegisteredExternalApps
    BY Zenon, <1>4 DEF RegisterMainTask
  <2>2. r.id = AppTable[k].id
    BY Zenon, <1>1, <1>2 DEF AppRecord
  <2> HIDE DEF k, r
  <2>3. RegisteredApps' = RegisteredApps
    BY Zenon, <1>1, <2>1, <2>2, OneApp
  <2>4. create[p].task \in TaskId /\ RegisterTask(create[p].task, create[p].id)
    BY Zenon, <1>1, <1>4 DEF RegisterMainTask, TasksKnown, MainsKnown
  <2> QED BY Zenon, <1>1, <2>1, <2>3, <2>4, RegisterCounts
<1>5. CASE Finalize(p)
  <2>1. /\ AppTable' = [AppTable EXCEPT ![k].id = create[p].id]
        /\ UNCHANGED <<TaskTable, RegisteredTasks, Overwritten>>
        /\ RegisteredExternalApps' = RegisteredExternalApps + 1
    BY Zenon, <1>5 DEF Finalize, history
  <2>2. AppTable'[k].id \in AppId /\ \A s \in AppSlot : s # k => AppTable'[s] = AppTable[s]
    BY Zenon, <1>1, <1>2, <2>1 DEF AppRecord
  <2> HIDE DEF k
  <2>3. RegisteredApps' = RegisteredApps \cup {k} /\ k \notin RegisteredApps
    BY Zenon, <1>2, <2>2, PseudoIds DEF RegisteredApps
  <2>4. LastTaskId \in 0..LastTask /\ ListsIssued
    BY Zenon DEF TaskInv
  <2>5. Cardinality(RegisteredApps') = Cardinality(RegisteredApps) + 1
    BY Zenon, <2>3, <2>4, TablesFinite, FS_AddElement
  <2>6. Registered' = Registered
    BY Zenon, <2>1 DEF Registered
  <2> QED BY Zenon, <2>1, <2>5, <2>6 DEF CountInv
<1>6. CASE Abandon(p)
  <2>1. /\ AppTable' = [AppTable EXCEPT ![k] = AppRecordSetFree(k)]
        /\ UNCHANGED <<TaskTable, RegisteredTasks, RegisteredExternalApps, Overwritten>>
    BY Zenon, <1>6 DEF Abandon, history
  <2>2. AppRecordSetFree(k).id = FREE
    BY Zenon DEF AppRecordSetFree, NoApp
  <2> HIDE DEF k
  <2>3. RegisteredApps' = RegisteredApps
    BY ZenonT(60), <1>1, <1>2, <2>1, <2>2, PseudoIds, OneApp
  <2> QED BY Zenon, <2>1, <2>3, SameCounts DEF Registered
<1> QED BY Zenon, <1>3, <1>4, <1>5, <1>6 DEF AppCreate

\* The steps that register and remove neither a task nor an application.
LEMMA QuietCounts ==
  ASSUME IInv, CountInv,
         \/ \E n \in Names : StartAppCmd(n)
         \/ \E a \in 1..LastAppId, req \in {"SYS_DELETE", "SYS_RESTART"} : ControlApp(a, req)
         \/ \E x \in TaskSlot : RunLoop(x) \/ ExitApp(x)
         \/ \E e \in Elapsed : Scan(e)
         \/ FreeRecords \/ Restart
  PROVE  CountInv'
<1>1. AppInv /\ AppTypes /\ AppTable \in [AppSlot -> AppRecord] /\ TaskTypes
  BY Zenon DEF IInv, AppInv, AppTypes
<1>2. UNCHANGED <<RegisteredTasks, RegisteredExternalApps, Overwritten>>
  BY Zenon DEF StartAppCmd, Reserve, ControlApp, RunLoop, ExitApp, Scan, FreeRecords, Restart,
     history
<1>3. Registered' = Registered
  <2>1. CASE UNCHANGED TaskTable
    BY Zenon, <2>1 DEF Registered
  <2>2. CASE FreeRecords
    <3>1. NoRecord.id \notin TaskId
      BY Zenon, PseudoIds DEF NoRecord
    <3>2. \A s \in TaskSlot : TaskTable'[s] = TaskTable[s]
                           \/ (TaskTable'[s] = NoRecord /\ TaskTable[s].id = RESERVED)
      BY Zenon, <2>2 DEF FreeRecords
    <3>3. \A s \in TaskSlot : TaskTable'[s].id \in TaskId <=> TaskTable[s].id \in TaskId
      BY Zenon, <3>1, <3>2, PseudoIds
    <3> QED BY Zenon, <3>3 DEF Registered
  <2> QED BY Zenon, <2>1, <2>2 DEF StartAppCmd, Reserve, ControlApp, RunLoop, ExitApp, Scan, Restart
<1>4. CASE \A s \in AppSlot : AppTable'[s].id = AppTable[s].id
  <2>1. RegisteredApps' = RegisteredApps
    BY Zenon, <1>4 DEF RegisteredApps
  <2> QED BY Zenon, <1>2, <1>3, <2>1, SameCounts
<1>5. ASSUME NEW x \in TaskSlot, RunLoop(x) \/ ExitApp(x)
      PROVE  \A s \in AppSlot : AppTable'[s].id = AppTable[s].id
  <2>1. CASE RunLoop(x)
    BY SMTT(60), <1>1, <2>1 DEF RunLoop, AppRecord
  <2>2. CASE ExitApp(x)
    BY Zenon, <1>1, <2>2 DEF ExitApp, AppRecord
  <2> QED BY ZenonT(60), <1>5, <2>1, <2>2
<1>6. ASSUME NEW a, NEW req, ControlApp(a, req)
      PROVE  \A s \in AppSlot : AppTable'[s].id = AppTable[s].id
  BY <1>1, <1>6 DEF ControlApp, AppRecord
<1>7. ASSUME NEW e \in Elapsed, Scan(e)
      PROVE  \A s \in AppSlot : AppTable'[s].id = AppTable[s].id
  <2>1. \A s \in AppSlot : AppTable'[s] = ScanRecord(s, e)
    BY ZenonT(60), <1>7 DEF Scan
  <2> QED BY Zenon, <1>1, <2>1, ScanRecordEffect
<1>8. CASE FreeRecords
  <2> DEFINE k == AppOf(bg.app)
  <2>1. AppTable' = [AppTable EXCEPT ![k] =
            IF AppTable[k].id = RESERVED THEN AppRecordSetFree(k) ELSE AppTable[k]]
    BY Zenon, <1>8 DEF FreeRecords
  <2>2. AppRecordSetFree(k).id = FREE
    BY Zenon DEF AppRecordSetFree, NoApp
  <2> HIDE DEF k
  <2>3. RegisteredApps' = RegisteredApps
    <3>1. CASE AppTable[k].id = RESERVED
      BY ZenonT(60), <1>1, <2>1, <2>2, <3>1, PseudoIds, OneApp
    <3>2. CASE AppTable[k].id # RESERVED
      BY ZenonT(60), <1>1, <2>1, <3>2, OneApp
    <3> QED BY Zenon, <3>1, <3>2
  <2> QED BY Zenon, <1>2, <1>3, <2>3, SameCounts
<1>9. ASSUME NEW p, NEW n, Reserve(p, n)
      PROVE  CountInv'
  <2>1. LastAppId \in Nat
    BY <1>1 DEF AppTypes
  <2>2. PICK a \in AppId : Reserved(p, n, a)
    BY Zenon, <1>9, <2>1, ReserveEffect
  <2> DEFINE r == [NoApp EXCEPT !.id = RESERVED, !.name = n]
  <2>3. AppTable' = [AppTable EXCEPT ![AppOf(a)] = r] /\ AppTable[AppOf(a)].id = FREE
    BY Zenon, <2>2 DEF Reserved
  <2>4. r.id = RESERVED
    BY Zenon DEF NoApp
  <2> HIDE DEF r
  <2>5. RegisteredApps' = RegisteredApps
    BY ZenonT(60), <1>1, <2>3, <2>4, PseudoIds, OneApp
  <2> QED BY ZenonT(60), <1>2, <1>3, <2>5, SameCounts
<1>10. ASSUME Restart \/ \E n \in Names : StartAppCmd(n)
       PROVE  \E p, n : Reserve(p, n)
  BY Zenon, <1>10 DEF Restart, StartAppCmd
<1> QED BY ZenonT(60), <1>4, <1>5, <1>6, <1>7, <1>8, <1>9, <1>10

\* Every step keeps the counts.
LEMMA CountStep ==
  ASSUME IInv, NextOnList, TaskInv, CountInv, [Next]_vars
  PROVE  CountInv'
<1>1. AppInv /\ TaskTypes /\ TasksKnown
  BY Zenon DEF IInv
<1>2. CASE UNCHANGED <<RegisteredTasks, RegisteredExternalApps, Overwritten, AppTable, TaskTable>>
  BY Zenon, <1>2, SameCounts DEF Registered, RegisteredApps
<1>3. ASSUME NEW x \in TaskSlot, RegisterChildTask(x)
      PROVE  CountInv'
  <2>1. /\ OSTask[x].new \in TaskId /\ RegisterTask(OSTask[x].new, OSTask[x].app)
        /\ UNCHANGED <<AppTable, RegisteredExternalApps>>
    BY Zenon, <1>1, <1>3 DEF RegisterChildTask, TasksKnown, ThreadsKnown, ThreadKnown
  <2>2. RegisteredApps' = RegisteredApps
    BY Zenon, <2>1 DEF RegisteredApps
  <2> QED BY Zenon, <1>1, <2>1, <2>2, RegisterCounts
<1>4. ASSUME NEW x \in TaskSlot, AppTask(x)
      PROVE  \/ RegisterChildTask(x) \/ RunLoop(x) \/ ExitApp(x) \/ ExitChildTask(x)
             \/ UNCHANGED <<RegisteredTasks, RegisteredExternalApps, Overwritten, AppTable, TaskTable>>
  BY Zenon, <1>4 DEF AppTask, EnterFunction, PollTimeout, ExitWithoutContext, CreateChildTask,
     StartChildTask, ExitChildEnd, TaskExit, esVars, history
<1>5. KillChild \/ Reap \/ KillMain \/ ModuleUnload \/ RestartRefused \/ UNCHANGED vars =>
        UNCHANGED <<RegisteredTasks, RegisteredExternalApps, Overwritten, AppTable, TaskTable>>
  BY Zenon DEF KillChild, Reap, KillMain, ModuleUnload, RestartRefused, vars, esVars, history
<1>6. "es" \in Creator /\ "bg" \in Creator
  BY Zenon DEF Creator
<1>7. ASSUME NEW x \in TaskSlot, AppTask(x)
      PROVE  CountInv'
  BY ZenonT(60), <1>1, <1>2, <1>3, <1>4, <1>7, QuietCounts, DeleteCounts
<1>8. Background => CountInv'
  BY ZenonT(60), <1>1, <1>2, <1>5, <1>6, CreateCounts, CollectCounts, QuietCounts DEF Background
<1> QED BY ZenonT(60), <1>1, <1>2, <1>5, <1>6, <1>7, <1>8, CreateCounts, QuietCounts, DeleteCounts
        DEF Next
-----------------------------------------------------------------------------
\* The tables, the lists and the counts are empty when the ES starts.
LEMMA CountInit == Init => TypeInv /\ CountInv
<1> SUFFICES ASSUME Init
             PROVE  TypeInv /\ CountInv
  OBVIOUS
<1>1. /\ NoApp.id = FREE /\ NoApp.timer = 0 /\ NotCreating.pc = "idle"
      /\ Idle.pc = "scan" /\ Idle.left = {} /\ NoRecord.id = FREE
  BY Zenon DEF NoApp, NotCreating, Idle, NoRecord
<1>2. 0 \in 0..KillTimer
  BY AppAssumption
<1>3. TableTyped
  BY Zenon, <1>1, <1>2 DEF Init, TableTyped, RecordTyped
<1>4. NamesTyped /\ ListsTyped
  BY Zenon, <1>1 DEF Init, NamesTyped, ListsTyped, Cleaning
<1>5. Registered = {} /\ RegisteredApps = {}
  BY Zenon, <1>1, PseudoIds DEF Init, Registered, RegisteredApps
<1>6. CountInv
  BY <1>5, FS_EmptySet DEF Init, CountInv
<1> QED BY Zenon, <1>3, <1>4, <1>6 DEF TypeInv

\* The counts stay within the tables and the IDs that were issued: a task ID is
\* in one record, or was overwritten.
LEMMA CountBounds ==
  ASSUME IInv, TaskInv, CountInv
  PROVE  RegisteredExternalApps \in 0..MaxApps /\ RegisteredTasks \in 0..LastTask
<1>1. LastTaskId \in 0..LastTask /\ ListsIssued /\ Overwritten \subseteq TaskId
  BY Zenon, IssuedIds DEF TaskInv, ListsIssued
<1>2. /\ IsFiniteSet(AppSlot) /\ Cardinality(AppSlot) = MaxApps
      /\ IsFiniteSet(TaskId) /\ Cardinality(TaskId) = LastTask
  BY FS_Interval, AppAssumption DEF AppSlot, TaskId
<1>3. RegisteredApps \subseteq AppSlot
  BY Zenon DEF RegisteredApps
<1>4. Cardinality(RegisteredApps) <= MaxApps
  BY Zenon, <1>2, <1>3, FS_Subset
<1> DEFINE rest == TaskId \ Overwritten
           f == [s \in Registered |-> TaskTable[s].id]
<1>5. f \in Injection(Registered, rest)
  <2>1. \A s \in Registered : s \in TaskSlot /\ TaskTable[s].id \in TaskId
    BY Zenon DEF Registered
  <2>2. \A s \in Registered : TaskTable[s].id \in rest
    BY Zenon, <2>1 DEF TaskInv, OverwrittenGone
  <2>3. \A s, x \in Registered : TaskTable[s].id = TaskTable[x].id => s = x
    BY Zenon, <2>1 DEF TaskInv, RecordsPlaced
  <2> QED BY Zenon, <2>2, <2>3 DEF Injection, IsInjective
<1>6. IsFiniteSet(rest) /\ Cardinality(rest) = LastTask - Cardinality(Overwritten)
  <2>1. TaskId \cap Overwritten = Overwritten
    BY Zenon, <1>1
  <2> QED BY ZenonT(60), <1>2, <2>1, FS_Difference
<1>7. Cardinality(Registered) <= Cardinality(rest)
  <2> HIDE DEF f, rest
  <2> QED BY Zenon, <1>5, <1>6, FS_Injection
<1> HIDE DEF rest
<1> QED BY SMTT(60), <1>1, <1>4, <1>6, <1>7, TablesFinite, AppAssumption DEF CountInv

\* The invariants give every variable its type.
LEMMA TypesFollow ==
  ASSUME IInv, TaskInv, TypeInv, CountInv
  PROVE  TypeOK
<1>1. AppTypes /\ TaskTypes
  BY Zenon DEF IInv, AppInv
<1>2. AppTable \in [AppSlot ->
            [id : AppId \cup {FREE, RESERVED}, name : Names \cup {NoName},
             state : AppState, req : Request, timer : 0..KillTimer,
             main : TaskId \cup {FREE}]]
  <2>1. \A s \in AppSlot : AppTable[s] \in AppRecord /\ AppTable[s].timer \in 0..KillTimer
    BY Zenon, <1>1 DEF AppTypes, TypeInv, TableTyped, RecordTyped
  <2>2. \A s \in AppSlot : AppTable[s] \in
            [id : AppId \cup {FREE, RESERVED}, name : Names \cup {NoName},
             state : AppState, req : Request, timer : 0..KillTimer,
             main : TaskId \cup {FREE}]
    BY <2>1 DEF AppRecord
  <2> QED BY Zenon, <1>1, <2>2 DEF AppTypes
<1>3. bg \in [pc : {"scan", "process", "children", "main",
                     "unload", "free", "restart", "creating"},
               todo : SUBSET AppId, app : AppId \cup {FREE}, req : Request,
               name : Names \cup {NoName}, tasks : SUBSET TaskId,
               left : SUBSET TaskId]
  <2>1. bg.tasks \subseteq TaskId /\ bg.left \subseteq TaskId
    BY Zenon, IssuedIds DEF TaskInv, ListsIssued, TypeInv, ListsTyped
  <2> QED BY <1>1, <2>1 DEF AppTypes, TableScan
<1>4. TaskTable \in [TaskSlot ->
            [id : TaskId \cup {FREE, RESERVED}, app : AppId \cup {FREE}]]
  BY Zenon, <1>1 DEF TaskTypes, TaskRecord
<1>5. OSTask \in [TaskSlot ->
            [id : TaskId \cup {FREE}, creator : TaskId \cup {FREE},
             pc : {"none", "poll", "run", "create", "register", "stopped",
                   "exiting"},
             app : AppId \cup {FREE}, new : TaskId \cup {FREE}]]
  BY Zenon, <1>1 DEF TaskTypes, Thread
<1>6. create \in [Creator ->
            [pc : {"idle", "load", "task", "register", "finalize", "fail"},
             name : Names \cup {NoName}, id : AppId \cup {FREE},
             task : TaskId \cup {FREE}]]
  BY Zenon, <1>1 DEF AppTypes, Creation
<1>7. LastAppId \in 0..LastApp /\ LastTaskId \in 0..LastTask
  BY Zenon, <1>1 DEF AppTypes, TaskInv
<1>8. /\ Modules \subseteq AppId \X Names /\ Orphans \subseteq TaskId
      /\ Leaked \subseteq AppId /\ Overwritten \subseteq TaskId
  BY Zenon, IssuedIds DEF TypeInv, NamesTyped, ListsTyped, TaskInv, ListsIssued
<1> QED BY Zenon, <1>2, <1>3, <1>4, <1>5, <1>6, <1>7, <1>8, CountBounds DEF TypeOK

\* Everything that is known of the ES, and it is inductive.
FullInv == IInv /\ TaskInv /\ ModuleInv /\ TypeInv /\ CountInv

\* Each part of it is kept with the help of the ones before.
LEMMA FullStep == FullInv /\ [Next]_vars => FullInv'
<1> SUFFICES ASSUME FullInv, [Next]_vars
             PROVE  FullInv'
  OBVIOUS
<1>1. IInv /\ TaskInv /\ ModuleInv /\ TypeInv /\ CountInv /\ NextOnList
  BY Zenon, ListHasNext DEF FullInv
<1>2. TypeInv'
  BY ZenonT(60), <1>1, TableTypes, NameTypes, ListTypes DEF TypeInv
<1> QED BY ZenonT(60), <1>1, <1>2, StepInv, TaskStep, ModuleStep, CountStep DEF FullInv

\* Every reachable state satisfies it.
LEMMA FullHolds == Spec => []FullInv
<1>1. Init => FullInv
  BY Zenon, InitInv, TaskInit, ModuleInit, CountInit DEF FullInv
<1> QED BY <1>1, FullStep, PTL DEF Spec

-----------------------------------------------------------------------------
(***************************************************************************)
(* The theorems                                                            *)
(***************************************************************************)
\* A task that executes finds its record, however the creations, the exits, the
\* deletions and the two locked sections of CFE_ES_CleanUpApp interleave: only
\* a task the clean-up is about to delete, or one whose record was overwritten,
\* does not.
THEOREM TasksAreRegistered == Spec => []LiveRegistered
<1>1. FullInv => LiveRegistered
  BY Zenon DEF FullInv, TaskInv
<1> QED BY <1>1, FullHolds, PTL

\* CFE_ES_CleanUpApp unloads no module a task executes in, but for the two
\* kinds of tasks it does not know of, and no module is left behind, but when
\* CFE_ES_StartAppTask could not create the main task.
THEOREM ModulesAreMatched == Spec => []ModulesMatch
<1>1. FullInv => ModulesMatch
  BY Zenon, ModulesAgree DEF FullInv
<1> QED BY <1>1, FullHolds, PTL

\* The counts that CFE_ES_Global keeps are those of the tables, for any number
\* of slots, and never wrap.
THEOREM CountsAreExact == Spec => []CountsExact
<1>1. FullInv => CountsExact
  <2> SUFFICES ASSUME FullInv
               PROVE  CountsExact
    OBVIOUS
  <2>1. TypeOK /\ CountInv
    BY ZenonT(60), TypesFollow DEF FullInv
  <2> QED BY Zenon, <2>1 DEF CountsExact, CountInv, RegisteredApps
<1> QED BY <1>1, FullHolds, PTL

\* For any number of names, slots, tasks and restarts, no two records of the
\* application table in use carry the same name, whatever start commands,
\* removals and restarts interleave.
THEOREM NamesAreUnique == Spec => []NamesUnique
<1>1. IInv => NamesUnique
  BY Zenon DEF IInv, AppInv
<1> QED BY <1>1, TablesHold, PTL

\* The state RUNNING, the only thing CFE_ES_RestartApp, ReloadApp and DeleteApp
\* look at, is that of a registered application.
THEOREM RunningIsRegistered == Spec => []RunningRegistered
<1>1. IInv => RunningRegistered
  BY Zenon DEF IInv, AppInv
<1> QED BY <1>1, TablesHold, PTL

\* For any number of applications and any interleaving: a restart that
\* CFE_ES_RestartApp or ReloadApp accepted is replaced by a stop command only,
\* and the clean-up that takes the record away goes on to CFE_ES_AppCreate.
THEOREM RestartsAreKept == Spec => RestartKept
<1>1. IInv /\ [Next]_vars => [\A s \in AppSlot : KeptIn(s)]_vars
  BY Zenon, ListHasNext, RestartStep
<1>2. Spec => [][\A s \in AppSlot : KeptIn(s)]_vars
  BY <1>1, TablesHold, PTL DEF Spec
<1> QED BY Zenon, <1>2 DEF RestartKept, KeptIn
=============================================================================
