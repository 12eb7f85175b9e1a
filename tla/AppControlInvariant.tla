------------------------ MODULE AppControlInvariant -------------------------
(***************************************************************************)
(* The inductive invariants of AppControl.  IInv says who may touch a      *)
(* RESERVED record of the application table: a creation and a clean-up     *)
(* each have one of their own between their locked sections, and what the  *)
(* scan has put on its list stays registered and stopped until the list is *)
(* worked off.  TypeInv gives the rest of the state its types.  ModuleInv  *)
(* says which application a loaded module and a task record belong to.     *)
(* TaskInv, the second half, is about the task records.  The lemmas say    *)
(* that every step keeps each of them.                                     *)
(***************************************************************************)
EXTENDS AppControl, TLAPS

Stopped == {"WAITING", "STOPPED"}

AppRecord ==
    [id : AppId \cup {FREE, RESERVED}, name : Names \cup {NoName},
     state : AppState, req : Request, timer : Int, main : TaskId \cup {FREE}]
Creation ==
    [pc : {"idle", "load", "task", "register", "finalize", "fail"},
     name : Names \cup {NoName}, id : AppId \cup {FREE}, task : TaskId \cup {FREE}]
TableScan ==
    [pc : {"scan", "process", "children", "main", "unload", "free", "restart",
           "creating"},
     todo : SUBSET AppId, app : AppId \cup {FREE}, req : Request,
     name : Names \cup {NoName}, tasks : SUBSET (TaskId \cup {RESERVED}),
     left : SUBSET (TaskId \cup {RESERVED})]

AppTypes ==
    /\ AppTable \in [AppSlot -> AppRecord]
    /\ create \in [Creator -> Creation]
    /\ bg \in TableScan
    /\ LastAppId \in 0..LastApp

\* A registered application is in the slot of its ID.
SlotsMatch ==
    \A s \in AppSlot : AppTable[s].id \in AppId => AppOf(AppTable[s].id) = s

\* CFE_ES_AppCreate has a RESERVED record of its own from its first locked
\* section to its last.
Reserves(p) ==
    /\ create[p].id \in AppId
    /\ AppTable[AppOf(create[p].id)].id = RESERVED
    /\ AppTable[AppOf(create[p].id)].state = "INIT"
CreatorsReserve ==
    /\ \A p \in Creator : create[p].pc # "idle" => Reserves(p)
    /\ \A p, q \in Creator :
        /\ create[p].pc # "idle" /\ create[q].pc # "idle"
        /\ AppOf(create[p].id) = AppOf(create[q].id)
        => p = q
    /\ create["bg"].pc # "idle" => bg.pc = "creating"

\* CFE_ES_CleanUpApp has one too, and a RESERVED record that is not being
\* created is this one.
CleanUpReserves ==
    /\ Cleaning =>
        /\ bg.app \in AppId
        /\ AppTable[AppOf(bg.app)].id = RESERVED
        /\ AppTable[AppOf(bg.app)].state \in Stopped
    /\ \A s \in AppSlot : AppTable[s].id = RESERVED =>
        AppTable[s].state = "INIT" \/ (Cleaning /\ s = AppOf(bg.app))

\* The applications on the list of the scan are still registered, and stopped.
ListMatches ==
    /\ \A a \in bg.todo :
        AppTable[AppOf(a)].id = a /\ AppTable[AppOf(a)].state \in Stopped
    /\ bg.pc = "process" => bg.todo # {}

AppInv ==
    /\ AppTypes /\ SlotsMatch /\ CreatorsReserve /\ CleanUpReserves
    /\ ListMatches /\ NamesUnique /\ RunningRegistered

TaskRecord == [id : TaskId \cup {FREE, RESERVED}, app : AppId \cup {FREE}]
Thread ==
    [id : TaskId \cup {FREE}, creator : TaskId \cup {FREE},
     pc : {"none", "poll", "run", "create", "register", "stopped", "exiting"},
     app : AppId \cup {FREE}, new : TaskId \cup {FREE}]

TaskTypes ==
    /\ TaskTable \in [TaskSlot -> TaskRecord]
    /\ OSTask \in [TaskSlot -> Thread]

\* A task has an ID, a task in its function has an application, and a task to
\* be registered has an ID.
ThreadKnown(r) ==
    /\ r.pc \notin {"none", "exiting"} => r.id \in TaskId
    /\ r.pc \in {"run", "create", "register", "stopped"} => r.app \in AppId
    /\ r.pc = "register" => r.new \in TaskId
ThreadsKnown == \A s \in TaskSlot : ThreadKnown(OSTask[s])

\* A registered task has an application.
RecordsKnown ==
    \A s \in TaskSlot : TaskTable[s].id \in TaskId => TaskTable[s].app \in AppId

\* CFE_ES_StartAppTask has the ID of the main task it created.
MainsKnown ==
    \A p \in Creator : create[p].pc = "register" => create[p].task \in TaskId

TasksKnown == ThreadsKnown /\ RecordsKnown /\ MainsKnown

IInv == AppInv /\ TaskTypes /\ TasksKnown

\* CFE_ES_RunAppTableScan works through its list in the order of the table:
\* the next one is on it.  AppControlProofs shows that AppInv implies this.
NextOnList == bg.pc = "process" => NextOf(bg.todo) \in bg.todo

-----------------------------------------------------------------------------

(***************************************************************************)
(* Slots and IDs                                                           *)
(***************************************************************************)
\* CFE_ES_AppID_ToIndex and CFE_ES_TaskId_ToIndex stay within the tables.
LEMMA SlotsInTable ==
  /\ \A a \in AppId \cup {FREE} : AppOf(a) \in AppSlot
  /\ \A t \in TaskId \cup {FREE} : TaskOf(t) \in TaskSlot
<1>1. \A n \in Nat \ {0} : \A i \in Nat : i % n \in 0..n - 1
  OBVIOUS
<1> QED BY <1>1, AppAssumption
        DEF AppOf, TaskOf, AppSlot, TaskSlot, AppId, TaskId, FREE

\* The pseudo IDs of a record are no IDs.
LEMMA PseudoIds ==
  /\ FREE \notin AppId /\ RESERVED \notin AppId /\ FREE # RESERVED
  /\ FREE \notin TaskId /\ RESERVED \notin TaskId
  BY DEF FREE, RESERVED, AppId, TaskId

\* CFE_ResourceId_FindNext returns the ID of a free slot.
LEMMA NextIdFree ==
  ASSUME LastAppId \in Nat,
         NEW a \in NextId(LastAppId, LastApp, MaxApps, UsedApps)
  PROVE  a \in AppId /\ AppOf(a) \in AppSlot /\ AppTable[AppOf(a)].id = FREE
<1>1. /\ a \in LastAppId + 1..LastAppId + MaxApps
      /\ a <= LastApp /\ a % MaxApps \notin UsedApps
  BY Zenon DEF NextId
<1>2. a \in AppId
  BY <1>1, AppAssumption DEF AppId
<1> QED BY Zenon, <1>1, <1>2, SlotsInTable DEF AppOf, AppRecordIsUsed, UsedApps

\* CFE_ES_AppCreate reserves a free record, under a name that is not in use.
Reserved(p, n, a) ==
    /\ a \in AppId /\ AppOf(a) \in AppSlot /\ AppTable[AppOf(a)].id = FREE
    /\ \A s \in AppSlot : AppTable[s].id # FREE => AppTable[s].name # n
    /\ AppTable' = [AppTable EXCEPT
            ![AppOf(a)] = [NoApp EXCEPT !.id = RESERVED, !.name = n]]
    /\ LastAppId' = a
    /\ create' = [create EXCEPT ![p] =
            [pc |-> "load", name |-> n, id |-> a, task |-> FREE]]

\* What the first locked section of CFE_ES_AppCreate does.
LEMMA ReserveEffect ==
  ASSUME LastAppId \in Nat, NEW p, NEW n, Reserve(p, n)
  PROVE  \E a \in AppId : Reserved(p, n, a)
<1>1. PICK a \in NextId(LastAppId, LastApp, MaxApps, UsedApps) :
            /\ AppTable' = [AppTable EXCEPT
                    ![AppOf(a)] = [NoApp EXCEPT !.id = RESERVED, !.name = n]]
            /\ LastAppId' = a
            /\ create' = [create EXCEPT ![p] =
                    [pc |-> "load", name |-> n, id |-> a, task |-> FREE]]
  BY Zenon DEF Reserve
<1>2. a \in AppId /\ AppOf(a) \in AppSlot /\ AppTable[AppOf(a)].id = FREE
  BY Zenon, NextIdFree
<1>3. \A s \in AppSlot : AppTable[s].id # FREE => AppTable[s].name # n
  BY Zenon DEF Reserve, CannotReserve, AppRecordIsUsed
<1> QED BY Zenon, <1>1, <1>2, <1>3 DEF Reserved

-----------------------------------------------------------------------------
(***************************************************************************)
(* The application table                                                   *)
(***************************************************************************)
\* The step keeps the application table, and moves no creation and no clean-up
\* past a locked section.
TableQuiet ==
    /\ UNCHANGED AppTable
    /\ \A p \in Creator :
        /\ create'[p].id = create[p].id
        /\ create[p].pc = "idle" <=> create'[p].pc = "idle"
    /\ bg'.todo = bg.todo /\ bg'.app = bg.app
    /\ Cleaning' <=> Cleaning
    /\ bg'.pc = "process" => bg.pc = "process"
    /\ bg.pc = "creating" => bg'.pc = "creating"

\* Such a step leaves all but the types as it is.
LEMMA TableQuietStep ==
  ASSUME AppInv, TableQuiet, AppTypes'
  PROVE  AppInv'
<1>1. SlotsMatch'
  BY Zenon DEF AppInv, TableQuiet, SlotsMatch, AppOf
<1>2. CreatorsReserve'
  BY ZenonT(60) DEF AppInv, TableQuiet, CreatorsReserve, Reserves, AppOf, Creator
<1>3. CleanUpReserves'
  BY Zenon DEF AppInv, TableQuiet, CleanUpReserves, AppOf
<1>4. ListMatches'
  BY Zenon DEF AppInv, TableQuiet, ListMatches, AppOf
<1>5. NamesUnique' /\ RunningRegistered'
  BY Zenon DEF AppInv, TableQuiet, NamesUnique, RunningRegistered, AppRecordIsUsed
<1> QED BY Zenon, <1>1, <1>2, <1>3, <1>4, <1>5 DEF AppInv

\* CFE_ES_AppCreate between its locked sections.
LEMMA CreateQuietStep ==
  ASSUME AppInv, NEW p \in Creator, LoadModule(p) \/ StartMainTask(p)
  PROVE  AppInv'
<1>1. CASE LoadModule(p)
  <2>1. AppTypes'
    BY <1>1 DEF AppInv, AppTypes, LoadModule, esVars, Creation
  <2>2. TableQuiet
    BY <1>1
       DEF AppInv, AppTypes, LoadModule, esVars, TableQuiet, Cleaning, Creation
  <2> QED BY Zenon, <2>1, <2>2, TableQuietStep
<1>2. CASE StartMainTask(p)
  <2>1. \/ \E t \in TaskId :
              create' = [create EXCEPT ![p].pc = "register", ![p].task = t]
        \/ create' = [create EXCEPT ![p].pc = "fail"]
    BY Zenon, <1>2 DEF StartMainTask
  <2>2. create[p].pc = "task" /\ UNCHANGED <<AppTable, LastAppId, bg>>
    BY Zenon, <1>2 DEF StartMainTask, esVars
  <2>3. AppTypes'
    BY <2>1, <2>2 DEF AppInv, AppTypes, Creation
  <2>4. TableQuiet
    BY <2>1, <2>2 DEF AppInv, AppTypes, TableQuiet, Cleaning, Creation
  <2> QED BY Zenon, <2>3, <2>4, TableQuietStep
<1> QED BY Zenon, <1>1, <1>2

\* CFE_ES_CleanUpApp between its locked sections.
LEMMA CleanUpQuietStep ==
  ASSUME AppInv, KillChild \/ Reap \/ KillMain \/ ModuleUnload
  PROVE  AppInv'
<1>1. UNCHANGED <<AppTable, LastAppId, create>> /\ Cleaning
  BY Zenon DEF KillChild, Reap, KillMain, ModuleUnload, esVars, Cleaning
<1>2. \/ \E t \in bg.left : bg' = [bg EXCEPT !.left = @ \ {t}]
      \/ \E x \in {"children", "main", "unload", "free"} :
            bg' = [bg EXCEPT !.pc = x]
  BY ZenonT(60) DEF KillChild, Reap, KillMain, ModuleUnload
<1>3. AppTypes'
  BY ZenonT(60), <1>1, <1>2 DEF AppInv, AppTypes, TableScan
<1>4. TableQuiet
  BY Zenon, <1>1, <1>2 DEF AppInv, AppTypes, TableQuiet, Cleaning, TableScan
<1> QED BY Zenon, <1>3, <1>4, TableQuietStep

\* The first locked section of CFE_ES_AppCreate, for a command or a restart.
LEMMA ReserveStep ==
  ASSUME AppInv, NEW p \in Creator, NEW n \in Names \cup {NoName},
         Reserve(p, n), create[p].pc = "idle",
         \/ p = "es" /\ bg' = bg
         \/ p = "bg" /\ bg.pc = "restart" /\ bg' = [bg EXCEPT !.pc = "creating"]
  PROVE  AppInv'
<1> USE SlotsInTable, PseudoIds
<1>1. PICK a \in AppId : Reserved(p, n, a)
  <2>1. LastAppId \in Nat
    BY DEF AppInv, AppTypes
  <2> QED BY Zenon, <2>1, ReserveEffect
<1>2. AppTypes
  BY Zenon DEF AppInv
<1>3. /\ AppTable'[AppOf(a)].id = RESERVED /\ AppTable'[AppOf(a)].name = n
      /\ AppTable'[AppOf(a)].state = "INIT" /\ AppTable[AppOf(a)].id = FREE
      /\ \A s \in AppSlot : s # AppOf(a) => AppTable'[s] = AppTable[s]
  BY Zenon, <1>1, <1>2 DEF Reserved, AppTypes, NoApp
<1>4. /\ create'[p].pc = "load" /\ create'[p].id = a
      /\ \A q \in Creator : q # p => create'[q] = create[q]
  BY Zenon, <1>1, <1>2 DEF Reserved, AppTypes
<1>5. /\ bg'.todo = bg.todo /\ bg'.app = bg.app
      /\ Cleaning' <=> Cleaning
      /\ bg'.pc = "process" => bg.pc = "process"
      /\ p = "bg" => bg'.pc = "creating"
      /\ p # "bg" => bg'.pc = bg.pc
  BY Zenon, <1>2 DEF AppTypes, Cleaning, TableScan
<1>6. AppTypes'
  <2>1. NoApp \in AppRecord
    BY DEF NoApp, AppState, Request, AppRecord
  <2>2. [NoApp EXCEPT !.id = RESERVED, !.name = n] \in AppRecord
    BY ZenonT(60), <2>1 DEF AppRecord
  <2>3. LastAppId' \in 0..LastApp
    BY <1>1 DEF Reserved, AppId
  <2>4. bg' \in TableScan
    BY Zenon, <1>2 DEF AppTypes, TableScan
  <2>5. [pc |-> "load", name |-> n, id |-> a, task |-> FREE] \in Creation
    BY Zenon, <1>1 DEF Creation
  <2> QED BY Zenon, <1>1, <1>2, <2>2, <2>3, <2>4, <2>5 DEF AppTypes, Reserved
<1>7. SlotsMatch'
  BY Zenon, <1>2, <1>3 DEF AppInv, SlotsMatch, AppTypes, AppOf
<1>8. CreatorsReserve'
  <2>1. \A q \in Creator : create[q].pc # "idle" =>
            Reserves(q) /\ AppOf(create[q].id) # AppOf(a)
    BY Zenon, <1>3 DEF AppInv, CreatorsReserve, Reserves
  <2>2. \A q \in Creator : create'[q].pc # "idle" => Reserves(q)'
    BY <1>1, <1>3, <1>4, <2>1 DEF Reserves, AppOf
  <2>3. \A q, r \in Creator :
            /\ create'[q].pc # "idle" /\ create'[r].pc # "idle"
            /\ AppOf(create'[q].id) = AppOf(create'[r].id)
            => q = r
    BY <1>4, <2>1 DEF AppInv, CreatorsReserve
  <2>4. create'["bg"].pc # "idle" => bg'.pc = "creating"
    BY Zenon, <1>4, <1>5 DEF AppInv, CreatorsReserve, Creator
  <2> QED BY Zenon, <2>2, <2>3, <2>4 DEF CreatorsReserve, AppOf
<1>9. CleanUpReserves'
  BY Zenon, <1>3, <1>5 DEF AppInv, CleanUpReserves, AppOf
<1>10. ListMatches'
  <2>1. \A b \in bg.todo : b \in AppId /\ AppOf(b) # AppOf(a)
    BY <1>2, <1>3 DEF AppInv, AppTypes, ListMatches, TableScan
  <2> QED BY <1>3, <1>5, <2>1 DEF AppInv, ListMatches, AppOf
<1>11. NamesUnique'
  BY <1>1, <1>3 DEF AppInv, NamesUnique, AppRecordIsUsed, Reserved
<1>12. RunningRegistered'
  BY Zenon, <1>3 DEF AppInv, RunningRegistered
<1> QED BY Zenon, <1>6, <1>7, <1>8, <1>9, <1>10, <1>11, <1>12 DEF AppInv

\* CFE_ES_StartAppTask notes the main task in the record of the creation.
LEMMA RegisterMainStep ==
  ASSUME AppInv, TasksKnown, NEW p \in Creator, RegisterMainTask(p)
  PROVE  AppInv'
<1> USE SlotsInTable, PseudoIds
<1>1. AppTypes /\ create[p].id \in AppId /\ create[p].task \in TaskId
  BY Zenon DEF AppInv, CreatorsReserve, Reserves, RegisterMainTask, TasksKnown, MainsKnown
<1>2. \A s \in AppSlot :
        /\ AppTable'[s].id = AppTable[s].id
        /\ AppTable'[s].name = AppTable[s].name
        /\ AppTable'[s].state = AppTable[s].state
  BY <1>1 DEF AppTypes, RegisterMainTask
<1>3. /\ \A q \in Creator :
            /\ create'[q].id = create[q].id
            /\ create[q].pc = "idle" <=> create'[q].pc = "idle"
      /\ bg' = bg
  BY <1>1 DEF AppTypes, RegisterMainTask
<1>4. AppTypes'
  BY SMTT(60), <1>1 DEF AppTypes, RegisterMainTask, AppRecord, Creation
<1>5. SlotsMatch'
  BY Zenon, <1>2 DEF AppInv, SlotsMatch, AppOf
<1>6. CreatorsReserve'
  BY <1>2, <1>3 DEF AppInv, CreatorsReserve, Reserves, AppOf, Creator
<1>7. CleanUpReserves' /\ ListMatches'
  BY <1>1, <1>2, <1>3
     DEF AppInv, AppTypes, CleanUpReserves, ListMatches, Cleaning, AppOf,
         TableScan
<1>8. NamesUnique' /\ RunningRegistered'
  BY ZenonT(60), <1>2 DEF AppInv, NamesUnique, RunningRegistered, AppRecordIsUsed
<1> QED BY Zenon, <1>4, <1>5, <1>6, <1>7, <1>8 DEF AppInv

\* The background task goes on to its next request.
LEMMA NextRequestEffect ==
  ASSUME AppTypes
  PROVE  /\ NextRequest \in TableScan
         /\ NextRequest.todo = bg.todo
         /\ NextRequest.pc \in {"scan", "process"}
         /\ NextRequest.pc = "process" => bg.todo # {}
<1>1. Idle \in TableScan
  BY Zenon DEF Idle, Request, TableScan
<1>2. bg.todo \in SUBSET AppId
  BY Zenon DEF AppTypes, TableScan
<1> QED BY ZenonT(60), <1>1, <1>2 DEF NextRequest, TableScan

\* CFE_ES_AppCreate ends, and with it the request it was called for.
LEMMA ReturnEffect ==
  ASSUME AppInv, NEW p \in Creator, create[p].pc # "idle", Return(p)
  PROVE  /\ create' \in [Creator -> Creation] /\ bg' \in TableScan
         /\ create'[p].pc = "idle"
         /\ \A q \in Creator : q # p => create'[q] = create[q]
         /\ create'["bg"].pc # "idle" => bg'.pc = "creating"
         /\ bg'.todo = bg.todo
         /\ bg'.pc = "process" => bg.todo # {}
         /\ Cleaning' <=> Cleaning
         /\ Cleaning => bg'.app = bg.app
<1>1. AppTypes /\ NotCreating \in Creation
  BY Zenon DEF AppInv, NotCreating, Creation
<1>2. /\ create' \in [Creator -> Creation]
      /\ create'[p].pc = "idle"
      /\ \A q \in Creator : q # p => create'[q] = create[q]
  BY Zenon, <1>1 DEF AppTypes, Return, NotCreating
<1>3. CASE p = "bg"
  <2>1. bg' = NextRequest /\ bg.pc = "creating"
    BY Zenon, <1>3 DEF Return, AppInv, CreatorsReserve
  <2> QED BY Zenon, <1>1, <1>2, <1>3, <2>1, NextRequestEffect DEF Cleaning
<1>4. CASE p # "bg"
  <2>1. bg' = bg
    BY Zenon, <1>4 DEF Return
  <2>2. "bg" \in Creator
    BY Zenon DEF Creator
  <2> QED BY Zenon, <1>1, <1>2, <1>4, <2>1, <2>2
          DEF Cleaning, AppInv, AppTypes, CreatorsReserve, ListMatches
<1> QED BY Zenon, <1>3, <1>4

\* The last locked section of CFE_ES_AppCreate: the record gets its ID, or is
\* free again.
LEMMA CreateEndStep ==
  ASSUME AppInv, NEW p \in Creator, Finalize(p) \/ Abandon(p)
  PROVE  AppInv'
<1> USE SlotsInTable, PseudoIds
<1> DEFINE k == AppOf(create[p].id)
<1>1. AppTypes /\ create[p].pc # "idle" /\ Return(p) /\ LastAppId' = LastAppId
  BY Zenon DEF AppInv, Finalize, Abandon
<1>2. /\ create[p].id \in AppId /\ k \in AppSlot
      /\ AppTable[k].id = RESERVED /\ AppTable[k].state = "INIT"
  BY Zenon, <1>1 DEF AppInv, CreatorsReserve, Reserves
<1>3. /\ AppTable' \in [AppSlot -> AppRecord]
      /\ AppTable'[k].id \in {FREE, create[p].id}
      /\ AppTable'[k].id # FREE => AppTable'[k].name = AppTable[k].name
      /\ AppTable'[k].state = "INIT"
      /\ \A s \in AppSlot : s # k => AppTable'[s] = AppTable[s]
  <2>1. CASE Finalize(p)
    <3>1. /\ AppTable' = [AppTable EXCEPT ![k].id = create[p].id]
          /\ AppTable \in [AppSlot -> AppRecord]
      BY Zenon, <1>1, <2>1 DEF Finalize, AppTypes
    <3> HIDE DEF k
    <3> QED BY ZenonT(60), <1>2, <3>1 DEF AppRecord
  <2>2. CASE Abandon(p)
    <3>1. /\ AppTable' = [AppTable EXCEPT ![k] = AppRecordSetFree(k)]
          /\ AppTable[k] \in AppRecord
      BY Zenon, <1>1, <1>2, <2>2 DEF Abandon, AppTypes
    <3>2. NoApp \in AppRecord /\ NoApp.id = FREE
      BY DEF NoApp, AppState, Request, AppRecord
    <3>3. /\ AppRecordSetFree(k) \in AppRecord
          /\ AppRecordSetFree(k).id = FREE /\ AppRecordSetFree(k).state = "INIT"
      BY Zenon, <1>2, <3>1, <3>2 DEF AppRecordSetFree, AppRecord
    <3> QED BY Zenon, <1>1, <1>2, <3>1, <3>3 DEF AppTypes
  <2> QED BY Zenon, <2>1, <2>2
<1>4. /\ create' \in [Creator -> Creation] /\ bg' \in TableScan
      /\ create'[p].pc = "idle"
      /\ \A q \in Creator : q # p => create'[q] = create[q]
      /\ create'["bg"].pc # "idle" => bg'.pc = "creating"
      /\ bg'.todo = bg.todo
      /\ bg'.pc = "process" => bg.todo # {}
      /\ Cleaning' <=> Cleaning
      /\ Cleaning => bg'.app = bg.app
  BY Zenon, <1>1, ReturnEffect
<1> HIDE DEF k
<1>5. AppTypes'
  BY Zenon, <1>1, <1>3, <1>4 DEF AppTypes
<1>6. SlotsMatch'
  BY Zenon, <1>2, <1>3 DEF AppInv, SlotsMatch, AppOf, k
<1>7. CreatorsReserve'
  <2>1. \A q \in Creator : q # p /\ create[q].pc # "idle" =>
            Reserves(q) /\ AppOf(create[q].id) # k
    BY Zenon, <1>1 DEF AppInv, CreatorsReserve, k
  <2>2. \A q \in Creator : create'[q].pc # "idle" => Reserves(q)'
    BY <1>3, <1>4, <2>1 DEF Reserves, AppOf
  <2>3. \A q, r \in Creator :
            /\ create'[q].pc # "idle" /\ create'[r].pc # "idle"
            /\ AppOf(create'[q].id) = AppOf(create'[r].id)
            => q = r
    BY <1>4 DEF AppInv, CreatorsReserve
  <2> QED BY Zenon, <1>4, <2>2, <2>3 DEF CreatorsReserve, AppOf
<1>8. CleanUpReserves'
  BY ZenonT(60), <1>2, <1>3, <1>4 DEF AppInv, CleanUpReserves, Stopped, AppOf
<1>9. ListMatches'
  <2>1. \A b \in bg.todo : b \in AppId /\ AppOf(b) # k
    BY <1>1, <1>2 DEF AppInv, AppTypes, ListMatches, TableScan
  <2> QED BY <1>3, <1>4, <2>1 DEF AppInv, ListMatches, AppOf
<1>10. NamesUnique'
  BY <1>2, <1>3 DEF AppInv, NamesUnique, AppRecordIsUsed
<1>11. RunningRegistered'
  BY Zenon, <1>3 DEF AppInv, RunningRegistered
<1> QED BY Zenon, <1>5, <1>6, <1>7, <1>8, <1>9, <1>10, <1>11 DEF AppInv

\* A step that only changes the state and the request of one registered
\* application.
LEMMA RecordStep ==
  ASSUME AppInv, UNCHANGED <<LastAppId, create, bg>>,
         NEW k \in AppSlot, AppTable[k].id \in AppId,
         AppTable' \in [AppSlot -> AppRecord],
         AppTable'[k].id = AppTable[k].id, AppTable'[k].name = AppTable[k].name,
         AppTable[k].state \in Stopped => AppTable'[k].state \in Stopped,
         \A s \in AppSlot : s # k => AppTable'[s] = AppTable[s]
  PROVE  AppInv'
<1> USE SlotsInTable, PseudoIds
<1>1. AppTypes'
  BY Zenon DEF AppInv, AppTypes
<1>2. SlotsMatch'
  BY Zenon DEF AppInv, SlotsMatch, AppOf
<1>3. CreatorsReserve'
  <2>1. \A q \in Creator : create[q].pc # "idle" =>
            Reserves(q) /\ AppOf(create[q].id) # k
    BY Zenon DEF AppInv, CreatorsReserve, Reserves
  <2>2. \A q \in Creator : create'[q].pc # "idle" => Reserves(q)'
    BY Zenon, <2>1 DEF Reserves, AppOf
  <2> QED BY Zenon, <2>2 DEF AppInv, CreatorsReserve, AppOf
<1>4. CleanUpReserves'
  BY Zenon DEF AppInv, CleanUpReserves, Cleaning, AppOf
<1>5. ListMatches'
  BY ZenonT(60) DEF AppInv, AppTypes, ListMatches, AppOf, TableScan
<1>6. NamesUnique' /\ RunningRegistered'
  BY DEF AppInv, NamesUnique, RunningRegistered, AppRecordIsUsed
<1> QED BY Zenon, <1>1, <1>2, <1>3, <1>4, <1>5, <1>6 DEF AppInv

\* A control call only acts on a registered application.
LEMMA ControlStep ==
  ASSUME AppInv, NEW a \in 1..LastAppId,
         NEW req \in {"SYS_DELETE", "SYS_RESTART"}, ControlApp(a, req)
  PROVE  AppInv'
<1> DEFINE k == AppOf(a)
<1>1. AppTypes /\ k \in AppSlot
  <2>1. LastAppId \in 0..LastApp
    BY Zenon DEF AppInv, AppTypes
  <2>2. a \in AppId
    BY <2>1, AppAssumption DEF AppId
  <2> QED BY Zenon, <2>2, SlotsInTable DEF AppInv
<1>2. AppTable[k].id \in AppId /\ AppTable[k].state = "RUNNING"
  BY Zenon, <1>1 DEF ControlApp, AppInv, RunningRegistered
<1>3. AppTable' = [AppTable EXCEPT ![k].req = req]
  BY Zenon DEF ControlApp
<1> HIDE DEF k
<1>4. /\ AppTable' \in [AppSlot -> AppRecord]
      /\ AppTable'[k].id = AppTable[k].id /\ AppTable'[k].name = AppTable[k].name
      /\ AppTable'[k].state = AppTable[k].state
      /\ \A s \in AppSlot : s # k => AppTable'[s] = AppTable[s]
  BY ZenonT(60), <1>1, <1>3 DEF AppTypes, Request, AppRecord
<1>5. UNCHANGED <<LastAppId, create, bg>>
  BY Zenon DEF ControlApp
<1> QED BY Zenon, <1>1, <1>2, <1>4, <1>5, RecordStep

\* CFE_ES_RunLoop and CFE_ES_ExitApp act on the record of their own
\* application.
LEMMA OwnRecordStep ==
  ASSUME AppInv, TaskTypes, TasksKnown, NEW x \in TaskSlot,
         RunLoop(x) \/ ExitApp(x)
  PROVE  AppInv'
<1> DEFINE k == AppOf(TaskTable[x].app)
<1>1. OSTask[x].pc = "run" /\ AppContext(x)
  BY Zenon DEF RunLoop, ExitApp
<1>2. TaskTable[x].app \in AppId
  BY Zenon, <1>1
     DEF AppContext, TaskContext, TasksKnown, ThreadsKnown, ThreadKnown,
         RecordsKnown
<1>3. AppTypes /\ k \in AppSlot /\ AppTable[k].id \in AppId
  BY Zenon, <1>1, <1>2, SlotsInTable DEF AppInv, AppContext, AppRecordIsMatch
<1>4. /\ AppTable' \in [AppSlot -> AppRecord]
      /\ AppTable'[k].id = AppTable[k].id /\ AppTable'[k].name = AppTable[k].name
      /\ AppTable[k].state \in Stopped => AppTable'[k].state \in Stopped
      /\ \A s \in AppSlot : s # k => AppTable'[s] = AppTable[s]
  <2>1. CASE RunLoop(x)
    <3>1. /\ AppTable' = [AppTable EXCEPT ![k].state = "RUNNING"]
          /\ AppTable[k].state = "INIT"
      BY Zenon, <2>1 DEF RunLoop
    <3> HIDE DEF k
    <3> QED BY ZenonT(60), <1>3, <3>1 DEF AppTypes, AppState, Stopped, AppRecord
  <2>2. CASE ExitApp(x)
    <3>1. AppTable' = [AppTable EXCEPT ![k].state = "STOPPED",
                        ![k].req = IF @ = "APP_RUN" THEN "APP_EXIT" ELSE @]
      BY Zenon, <2>2 DEF ExitApp
    <3> HIDE DEF k
    <3>2. AppTable \in [AppSlot -> AppRecord]
      BY Zenon, <1>3 DEF AppTypes
    <3>3. PICK req \in Request :
                AppTable' = [AppTable EXCEPT ![k].state = "STOPPED", ![k].req = req]
      <4>1. (IF AppTable[k].req = "APP_RUN" THEN "APP_EXIT"
             ELSE AppTable[k].req) \in Request
        BY Zenon, <1>3, <3>2 DEF Request, AppRecord
      <4> QED BY ZenonT(60), <3>1, <4>1
    <3> QED BY ZenonT(60), <1>3, <3>2, <3>3 DEF AppState, Stopped, AppRecord
  <2> QED BY Zenon, <2>1, <2>2
<1>5. UNCHANGED <<LastAppId, create, bg>>
  BY Zenon DEF RunLoop, ExitApp
<1> QED BY Zenon, <1>3, <1>4, <1>5, RecordStep

\* The scan keeps all of a record but its timer, and the state of an
\* application that runs with a request.
LEMMA ScanRecordEffect ==
  ASSUME AppTypes, NEW s \in AppSlot, NEW e \in Elapsed
  PROVE  /\ ScanRecord(s, e) \in AppRecord
         /\ ScanRecord(s, e).id = AppTable[s].id
         /\ ScanRecord(s, e).name = AppTable[s].name
         /\ ScanRecord(s, e).req = AppTable[s].req
         /\ \/ ScanRecord(s, e).state = AppTable[s].state
            \/ /\ AppTable[s].state = "RUNNING"
               /\ ScanRecord(s, e).state = "WAITING"
<1>1. AppTable[s] \in AppRecord /\ e \in Int /\ KillTimer \in Int
  BY AppAssumption DEF AppTypes
<1>2. CASE AppRecordIsUsed(s) /\ AppTable[s].state \in {"WAITING", "STOPPED"}
  <2>1. PICK i \in Int : ScanRecord(s, e) = [AppTable[s] EXCEPT !.timer = i]
    <3>1. (IF AppTable[s].timer > e THEN AppTable[s].timer - e ELSE 0) \in Int
      BY <1>1 DEF AppRecord
    <3> QED BY Zenon, <1>2, <3>1 DEF ScanRecord
  <2> QED BY Zenon, <1>1, <2>1 DEF AppRecord
<1>3. CASE /\ AppRecordIsUsed(s) /\ AppTable[s].state = "RUNNING"
           /\ AppTable[s].req # "APP_RUN"
  <2>1. ScanRecord(s, e) =
            [AppTable[s] EXCEPT !.state = "WAITING", !.timer = KillTimer]
    BY Zenon, <1>3 DEF ScanRecord
  <2> QED BY ZenonT(60), <1>1, <1>3, <2>1 DEF AppState, AppRecord
<1>4. CASE /\ ~ (/\ AppRecordIsUsed(s)
                 /\ AppTable[s].state \in {"WAITING", "STOPPED"})
           /\ ~ (/\ AppRecordIsUsed(s) /\ AppTable[s].state = "RUNNING"
                 /\ AppTable[s].req # "APP_RUN")
  <2>1. ScanRecord(s, e) = AppTable[s]
    BY Zenon, <1>4 DEF ScanRecord
  <2> QED BY Zenon, <1>1, <2>1
<1> QED BY Zenon, <1>2, <1>3, <1>4

\* The scan lists registered applications only.
LEMMA ScanStep ==
  ASSUME AppInv, NEW e \in Elapsed, Scan(e)
  PROVE  AppInv'
<1> USE SlotsInTable, PseudoIds
<1> DEFINE due == {s \in AppSlot : TimedOut(s, e)}
<1>1. AppTypes /\ UNCHANGED <<LastAppId, create>> /\ ~ Cleaning
  BY Zenon DEF AppInv, Scan, Cleaning
<1>2. /\ AppTable' \in [AppSlot -> AppRecord]
      /\ \A s \in AppSlot :
            /\ AppTable'[s].id = AppTable[s].id
            /\ AppTable'[s].name = AppTable[s].name
            /\ \/ AppTable'[s].state = AppTable[s].state
               \/ /\ AppTable[s].state = "RUNNING"
                  /\ AppTable'[s].state = "WAITING"
  <2>1. AppTable' = [s \in AppSlot |-> ScanRecord(s, e)]
    BY Zenon DEF Scan
  <2> QED BY Zenon, <1>1, <2>1, ScanRecordEffect
<1>3. \A s \in due : AppTable[s].id \in AppId /\ AppOf(AppTable[s].id) = s
  <2> SUFFICES ASSUME NEW s \in due
               PROVE  AppTable[s].id \in AppId /\ AppOf(AppTable[s].id) = s
    OBVIOUS
  <2>1. s \in AppSlot /\ AppTable[s].id # FREE /\ AppTable[s].state \in Stopped
    BY Zenon DEF TimedOut, AppRecordIsUsed, Stopped
  <2>2. AppTable[s].id # RESERVED
    BY Zenon, <1>1, <2>1 DEF AppInv, CleanUpReserves, Stopped
  <2>3. AppTable[s].id \in AppId \cup {FREE, RESERVED}
    BY Zenon, <1>1, <2>1 DEF AppTypes, AppRecord
  <2> QED BY Zenon, <2>1, <2>2, <2>3 DEF AppInv, SlotsMatch
<1>4. bg' = [bg EXCEPT !.todo = {AppTable[s].id : s \in due},
                       !.pc = IF due = {} THEN "scan" ELSE "process"]
  BY Zenon DEF Scan
<1>5. \A s \in due : s \in AppSlot /\ AppTable[s].state \in Stopped
  BY Zenon DEF TimedOut, Stopped
<1> HIDE DEF due
<1>6. /\ bg' \in TableScan
      /\ bg'.todo = {AppTable[s].id : s \in due}
      /\ bg'.pc = IF due = {} THEN "scan" ELSE "process"
  <2>1. bg \in TableScan /\ {AppTable[s].id : s \in due} \in SUBSET AppId
    BY Zenon, <1>1, <1>3 DEF AppTypes
  <2> QED BY ZenonT(60), <1>4, <2>1 DEF TableScan
<1>7. ~ Cleaning' /\ create["bg"].pc = "idle"
  BY ZenonT(60), <1>6 DEF Cleaning, AppInv, CreatorsReserve, Scan, TableScan
<1>8. AppTypes'
  BY Zenon, <1>1, <1>2, <1>6 DEF AppTypes
<1>9. SlotsMatch'
  BY Zenon, <1>2 DEF AppInv, SlotsMatch, AppOf
<1>10. CreatorsReserve'
  BY ZenonT(60), <1>1, <1>2, <1>7 DEF AppInv, CreatorsReserve, Reserves, AppOf
<1>11. CleanUpReserves'
  BY ZenonT(60), <1>1, <1>2, <1>7 DEF AppInv, CleanUpReserves, RunningRegistered
<1>12. ListMatches'
  <2>1. \A s \in due :
            AppTable'[s].id = AppTable[s].id /\ AppTable'[s].state \in Stopped
    BY Zenon, <1>2, <1>5 DEF Stopped
  <2>2. \A a \in bg'.todo :
            AppTable'[AppOf(a)].id = a /\ AppTable'[AppOf(a)].state \in Stopped
    BY Zenon, <1>3, <1>6, <2>1
  <2>3. bg'.pc = "process" => bg'.todo # {}
    BY Zenon, <1>6
  <2> QED BY Zenon, <2>2, <2>3 DEF ListMatches, AppOf
<1>13. NamesUnique' /\ RunningRegistered'
  BY <1>2 DEF AppInv, NamesUnique, RunningRegistered, AppRecordIsUsed
<1> QED BY Zenon, <1>8, <1>9, <1>10, <1>11, <1>12, <1>13 DEF AppInv

\* The first locked section of CFE_ES_CleanUpApp lists the tasks of
\* application a and reserves their records.
Collects(a) ==
    /\ TaskTable' = [s \in TaskSlot |->
            IF s \in Owned(a) THEN [TaskTable[s] EXCEPT !.id = RESERVED] ELSE TaskTable[s]]
    /\ AppTable' = [AppTable EXCEPT ![AppOf(a)].id = RESERVED]
    /\ RegisteredTasks' = RegisteredTasks - Cardinality(Owned(a))
    /\ RegisteredExternalApps' = RegisteredExternalApps - 1
    /\ bg'.pc = "children" /\ bg'.app = a
    /\ bg'.tasks = {TaskTable[s].id : s \in Owned(a)}
    /\ bg'.left = bg'.tasks \ {AppTable[AppOf(a)].main}
    /\ bg'.name = AppTable[AppOf(a)].name

\* The application it collects is one of the list.
LEMMA CollectCollects ==
  ASSUME NextOnList, Collect
  PROVE  \E a \in bg.todo : Collects(a)
<1> DEFINE a == NextOf(bg.todo)
           list == {TaskTable[s].id : s \in Owned(a)}
           new == [pc |-> "children", todo |-> bg.todo \ {a}, app |-> a,
                   req |-> AppTable[AppOf(a)].req, name |-> AppTable[AppOf(a)].name,
                   tasks |-> list, left |-> list \ {AppTable[AppOf(a)].main}]
<1>2. a \in bg.todo
  BY Zenon DEF Collect, NextOnList
<1>3. bg' = new
  BY Zenon DEF Collect
<1>4. /\ bg'.pc = "children" /\ bg'.app = a /\ bg'.tasks = list
      /\ bg'.left = list \ {AppTable[AppOf(a)].main} /\ bg'.name = AppTable[AppOf(a)].name
  BY Zenon, <1>3
<1>5. /\ TaskTable' = [s \in TaskSlot |->
            IF s \in Owned(a) THEN [TaskTable[s] EXCEPT !.id = RESERVED] ELSE TaskTable[s]]
      /\ AppTable' = [AppTable EXCEPT ![AppOf(a)].id = RESERVED]
      /\ RegisteredTasks' = RegisteredTasks - Cardinality(Owned(a))
      /\ RegisteredExternalApps' = RegisteredExternalApps - 1
  BY Zenon DEF Collect
<1>6. Collects(a)
  BY Zenon, <1>4, <1>5 DEF Collects
<1> QED BY Zenon, <1>2, <1>6

\* What the first locked section of CFE_ES_CleanUpApp does to the application
\* on the list it takes.
LEMMA CollectEffect ==
  ASSUME AppInv, NextOnList, TaskTypes, Collect
  PROVE  \E a \in bg.todo :
            /\ AppTable' = [AppTable EXCEPT ![AppOf(a)].id = RESERVED]
            /\ bg' \in TableScan
            /\ bg'.pc = "children" /\ bg'.todo = bg.todo \ {a} /\ bg'.app = a
            /\ bg'.req = AppTable[AppOf(a)].req
<1> DEFINE a == NextOf(bg.todo)
           list == {TaskTable[s].id : s \in Owned(a)}
           main == AppTable[AppOf(a)].main
<1>1. AppTypes /\ bg.todo \in SUBSET AppId
  BY Zenon DEF AppInv, AppTypes, TableScan
<1>2. a \in bg.todo
  BY Zenon DEF Collect, NextOnList
<1>3. /\ AppTable' = [AppTable EXCEPT ![AppOf(a)].id = RESERVED]
      /\ bg' = [pc |-> "children", todo |-> bg.todo \ {a}, app |-> a,
                req |-> AppTable[AppOf(a)].req,
                name |-> AppTable[AppOf(a)].name, tasks |-> list,
                left |-> list \ {main}]
  BY Zenon DEF Collect
<1>4. list \in SUBSET (TaskId \cup {RESERVED})
  BY Zenon DEF TaskTypes, Owned, TaskRecordIsUsed, TaskRecord
<1>5. AppTable[AppOf(a)] \in AppRecord
  BY Zenon, <1>1, <1>2, SlotsInTable DEF AppTypes
<1> HIDE DEF a, list, main
<1>6. bg' \in TableScan
  BY Zenon, <1>1, <1>2, <1>3, <1>4, <1>5 DEF AppRecord, TableScan
<1>7. /\ bg'.pc = "children" /\ bg'.todo = bg.todo \ {a} /\ bg'.app = a
      /\ bg'.req = AppTable[AppOf(a)].req
  BY Zenon, <1>3
<1> QED BY ZenonT(60), <1>2, <1>3, <1>6, <1>7

\* The record of the application becomes RESERVED for the clean-up.
LEMMA CollectStep ==
  ASSUME AppInv, NextOnList, TaskTypes, Collect
  PROVE  AppInv'
<1> USE SlotsInTable, PseudoIds
<1>1. PICK a \in bg.todo :
            /\ AppTable' = [AppTable EXCEPT ![AppOf(a)].id = RESERVED]
            /\ bg' \in TableScan
            /\ bg'.pc = "children" /\ bg'.todo = bg.todo \ {a} /\ bg'.app = a
            /\ bg'.req = AppTable[AppOf(a)].req
  BY Zenon, CollectEffect
<1> DEFINE k == AppOf(a)
<1>2. /\ AppTypes /\ bg.todo \in SUBSET AppId /\ a \in AppId
      /\ AppTable \in [AppSlot -> AppRecord]
  BY Zenon DEF AppInv, AppTypes, TableScan
<1>3. k \in AppSlot /\ AppTable[k].id = a /\ AppTable[k].state \in Stopped
  BY Zenon, <1>2 DEF AppInv, ListMatches
<1>4. /\ AppTable' = [AppTable EXCEPT ![k].id = RESERVED]
      /\ UNCHANGED <<LastAppId, create>>
      /\ bg.pc = "process"
  BY ZenonT(60), <1>1 DEF Collect
<1>5. bg'.app = a /\ k = AppOf(a)
  BY Zenon, <1>1
<1> HIDE DEF k
<1>6. /\ AppTable' \in [AppSlot -> AppRecord]
      /\ AppTable'[k].id = RESERVED /\ AppTable'[k].name = AppTable[k].name
      /\ AppTable'[k].state = AppTable[k].state
      /\ \A s \in AppSlot : s # k => AppTable'[s] = AppTable[s]
  BY ZenonT(60), <1>2, <1>3, <1>4 DEF AppRecord
<1>7. AppTypes'
  BY Zenon, <1>1, <1>2, <1>4, <1>6 DEF AppTypes
<1>8. SlotsMatch'
  BY Zenon, <1>6 DEF AppInv, SlotsMatch, AppOf
<1>9. CreatorsReserve'
  <2>1. \A q \in Creator : create[q].pc # "idle" =>
            Reserves(q) /\ AppOf(create[q].id) # k
    BY Zenon, <1>2, <1>3 DEF AppInv, CreatorsReserve, Reserves
  <2>2. \A q \in Creator : create'[q].pc # "idle" => Reserves(q)'
    BY Zenon, <1>4, <1>6, <2>1 DEF Reserves, AppOf
  <2>3. create["bg"].pc = "idle"
    BY Zenon, <1>4 DEF AppInv, CreatorsReserve
  <2> QED BY Zenon, <1>4, <2>2, <2>3 DEF AppInv, CreatorsReserve, AppOf
<1>10. CleanUpReserves'
  <2>1. ~ Cleaning /\ Cleaning'
    BY Zenon, <1>1, <1>4 DEF Cleaning
  <2> QED BY <1>2, <1>3, <1>5, <1>6, <2>1 DEF AppInv, CleanUpReserves, AppOf
<1>11. ListMatches'
  <2>1. \A b \in bg'.todo : b \in AppId /\ b # a /\ AppOf(b) # k
    BY Zenon, <1>1, <1>2, <1>3 DEF AppInv, ListMatches
  <2> QED BY ZenonT(60), <1>1, <1>6, <2>1 DEF AppInv, ListMatches, AppOf
<1>12. NamesUnique'
  BY <1>2, <1>3, <1>6 DEF AppInv, NamesUnique, AppRecordIsUsed
<1>13. RunningRegistered'
  BY Zenon, <1>3, <1>6 DEF AppInv, RunningRegistered, Stopped
<1> QED BY Zenon, <1>7, <1>8, <1>9, <1>10, <1>11, <1>12, <1>13 DEF AppInv

\* The last locked section of CFE_ES_CleanUpApp: the record is free.
LEMMA FreeStep ==
  ASSUME AppInv, FreeRecords
  PROVE  AppInv'
<1> USE SlotsInTable, PseudoIds
<1> DEFINE k == AppOf(bg.app)
<1>1. AppTypes /\ AppTable \in [AppSlot -> AppRecord] /\ bg \in TableScan
  BY Zenon DEF AppInv, AppTypes
<1>2. Cleaning /\ bg.pc = "free" /\ UNCHANGED <<LastAppId, create>>
  BY Zenon DEF FreeRecords, Cleaning
<1>3. k \in AppSlot /\ AppTable[k].id = RESERVED /\ AppTable[k].state \in Stopped
  BY Zenon, <1>2 DEF AppInv, CleanUpReserves
<1>4. AppTable' = [AppTable EXCEPT ![k] = AppRecordSetFree(k)]
  BY Zenon, <1>1, <1>3 DEF FreeRecords
<1>5. /\ bg' \in TableScan /\ bg'.todo = bg.todo
      /\ bg'.pc \in {"scan", "process", "restart"}
      /\ bg'.pc = "process" => bg.todo # {}
  <2>1. CASE bg' = [bg EXCEPT !.pc = "restart"]
    BY Zenon, <1>1, <2>1 DEF TableScan
  <2>2. CASE bg' = NextRequest
    BY Zenon, <1>1, <2>2, NextRequestEffect
  <2> QED BY Zenon, <2>1, <2>2 DEF FreeRecords
<1>6. \A s \in AppSlot : AppTable[s].id = RESERVED /\ s # k =>
            AppTable[s].state = "INIT"
  BY Zenon DEF AppInv, CleanUpReserves
<1> HIDE DEF k
<1>7. /\ AppTable' \in [AppSlot -> AppRecord]
      /\ AppTable'[k].id = FREE /\ AppTable'[k].state \in Stopped
      /\ \A s \in AppSlot : s # k => AppTable'[s] = AppTable[s]
  <2>1. NoApp \in AppRecord /\ NoApp.id = FREE
    BY DEF NoApp, AppState, Request, AppRecord
  <2>2. AppTable[k] \in AppRecord
    BY Zenon, <1>1, <1>3
  <2>3. /\ AppRecordSetFree(k) \in AppRecord /\ AppRecordSetFree(k).id = FREE
        /\ AppRecordSetFree(k).state = AppTable[k].state
    BY Zenon, <2>1, <2>2 DEF AppRecordSetFree, AppRecord
  <2> QED BY Zenon, <1>1, <1>3, <1>4, <2>3
<1>8. AppTypes'
  BY Zenon, <1>1, <1>2, <1>5, <1>7 DEF AppTypes
<1>9. SlotsMatch'
  BY Zenon, <1>7 DEF AppInv, SlotsMatch, AppOf
<1>10. CreatorsReserve'
  <2>1. \A q \in Creator : create[q].pc # "idle" =>
            Reserves(q) /\ AppOf(create[q].id) # k
    BY Zenon, <1>3 DEF AppInv, CreatorsReserve, Reserves, Stopped
  <2>2. \A q \in Creator : create'[q].pc # "idle" => Reserves(q)'
    BY Zenon, <1>2, <1>7, <2>1 DEF Reserves, AppOf
  <2>3. create["bg"].pc = "idle"
    BY Zenon, <1>2 DEF AppInv, CreatorsReserve
  <2> QED BY Zenon, <1>2, <2>2, <2>3 DEF AppInv, CreatorsReserve, AppOf
<1>11. CleanUpReserves'
  <2>1. ~ Cleaning'
    BY Zenon, <1>5 DEF Cleaning
  <2> QED BY Zenon, <1>6, <1>7, <2>1 DEF CleanUpReserves
<1>12. ListMatches'
  <2>1. \A b \in bg.todo : b \in AppId /\ AppOf(b) # k
    BY <1>1, <1>3 DEF AppInv, ListMatches, TableScan
  <2> QED BY Zenon, <1>5, <1>7, <2>1 DEF AppInv, ListMatches, AppOf
<1>13. NamesUnique' /\ RunningRegistered'
  BY <1>7 DEF AppInv, NamesUnique, RunningRegistered, AppRecordIsUsed, Stopped
<1> QED BY Zenon, <1>8, <1>9, <1>10, <1>11, <1>12, <1>13 DEF AppInv

\* A restart that finds its name taken or no slot ends the request.
LEMMA RefusedStep ==
  ASSUME AppInv, RestartRefused
  PROVE  AppInv'
<1>1. /\ UNCHANGED <<AppTable, LastAppId, create>>
      /\ bg.pc = "restart" /\ bg' = NextRequest
  BY Zenon DEF RestartRefused, esVars
<1>2. /\ bg' \in TableScan /\ bg'.todo = bg.todo
      /\ bg'.pc \in {"scan", "process"}
      /\ bg'.pc = "process" => bg.todo # {}
  BY Zenon, <1>1, NextRequestEffect DEF AppInv
<1>3. AppTypes'
  BY Zenon, <1>1, <1>2 DEF AppInv, AppTypes
<1>4. ~ Cleaning /\ ~ Cleaning' /\ create["bg"].pc = "idle"
  BY Zenon, <1>1, <1>2 DEF Cleaning, AppInv, CreatorsReserve
<1>5. CreatorsReserve'
  BY Zenon, <1>1, <1>4 DEF AppInv, CreatorsReserve, Reserves, AppOf
<1>6. SlotsMatch' /\ CleanUpReserves' /\ ListMatches'
  BY Zenon, <1>1, <1>2, <1>4
     DEF AppInv, SlotsMatch, CleanUpReserves, ListMatches, AppOf
<1>7. NamesUnique' /\ RunningRegistered'
  BY Zenon, <1>1 DEF AppInv, NamesUnique, RunningRegistered, AppRecordIsUsed
<1> QED BY Zenon, <1>3, <1>5, <1>6, <1>7 DEF AppInv


-----------------------------------------------------------------------------
(***************************************************************************)
(* The tasks                                                               *)
(***************************************************************************)
\* A new, an ended and a changed task is one of the kind.
LEMMA ThreadKinds ==
  /\ NoTask \in Thread /\ ThreadKnown(NoTask)
  /\ \A t \in TaskId :
        /\ [NoTask EXCEPT !.id = t, !.pc = "poll"] \in Thread
        /\ ThreadKnown([NoTask EXCEPT !.id = t, !.pc = "poll"])
  /\ \A t \in TaskId, u \in TaskId \cup {FREE} :
        /\ [NoTask EXCEPT !.id = t, !.pc = "poll", !.creator = u] \in Thread
        /\ ThreadKnown([NoTask EXCEPT !.id = t, !.pc = "poll", !.creator = u])
<1>1. NoTask \in Thread /\ NoTask.pc = "none"
  BY Zenon DEF NoTask, Thread
<1> QED BY ZenonT(60), <1>1 DEF ThreadKnown, Thread

\* The steps that replace one thread.
LEMMA OneThread ==
  ASSUME TaskTypes, ThreadsKnown, NEW x \in TaskSlot, NEW r \in Thread,
         ThreadKnown(r), OSTask' = [OSTask EXCEPT ![x] = r]
  PROVE  OSTask' \in [TaskSlot -> Thread] /\ ThreadsKnown'
<1>1. OSTask' \in [TaskSlot -> Thread]
  BY Zenon DEF TaskTypes
<1>2. \A s \in TaskSlot : OSTask'[s] = IF s = x THEN r ELSE OSTask[s]
  BY Zenon DEF TaskTypes
<1>3. \A s \in TaskSlot : ThreadKnown(OSTask'[s])
  BY Zenon, <1>2 DEF ThreadsKnown
<1> QED BY Zenon, <1>1, <1>3 DEF ThreadsKnown, ThreadKnown

\* OS_TaskDelete, for any set of tasks.
LEMMA KillStep ==
  ASSUME TaskTypes, ThreadsKnown, NEW dead, Kill(dead)
  PROVE  OSTask' \in [TaskSlot -> Thread] /\ ThreadsKnown'
<1>1. \A s \in TaskSlot : OSTask'[s] \in {NoTask, OSTask[s]}
  BY Zenon DEF Kill
<1>2. OSTask' \in [TaskSlot -> Thread]
  BY ZenonT(60), ThreadKinds DEF Kill, TaskTypes
<1>3. \A s \in TaskSlot : ThreadKnown(OSTask'[s])
  BY ZenonT(60), <1>1, ThreadKinds DEF ThreadsKnown
<1> QED BY Zenon, <1>2, <1>3 DEF ThreadsKnown, ThreadKnown

\* A step of a task of an application.
LEMMA ThreadStep ==
  ASSUME TaskTypes, TasksKnown, NEW x \in TaskSlot, AppTask(x)
  PROVE  OSTask' \in [TaskSlot -> Thread] /\ ThreadsKnown'
<1> DEFINE r == OSTask[x]
<1>1. /\ r \in Thread /\ ThreadKnown(r)
      /\ ThreadsKnown /\ OSTask \in [TaskSlot -> Thread]
  BY Zenon DEF TaskTypes, TasksKnown, ThreadsKnown
<1>2. CASE EnterFunction(x)
  <2>1. TaskTable[x].app \in AppId
    BY Zenon, <1>1, <1>2
       DEF EnterFunction, TaskContext, TasksKnown, RecordsKnown, ThreadKnown
  <2> DEFINE n == [r EXCEPT !.pc = "run", !.app = TaskTable[x].app]
  <2>2. OSTask' = [OSTask EXCEPT ![x] = n]
    BY ZenonT(60), <1>1, <1>2 DEF EnterFunction
  <2>3. n \in Thread /\ ThreadKnown(n)
    BY ZenonT(60), <1>1, <1>2, <2>1 DEF EnterFunction, ThreadKnown, Thread
  <2> QED BY ZenonT(60), <1>1, <2>2, <2>3, OneThread
<1>3. CASE PollTimeout(x) \/ ExitWithoutContext(x) \/ ExitChildEnd(x)
  <2>1. OSTask' = [OSTask EXCEPT ![x] = NoTask]
    BY Zenon, <1>3 DEF PollTimeout, ExitWithoutContext, ExitChildEnd, TaskExit
  <2> QED BY ZenonT(60), <1>1, <2>1, ThreadKinds, OneThread
<1>4. CASE RunLoop(x)
  BY Zenon, <1>1, <1>4 DEF RunLoop, osVars, ThreadsKnown, ThreadKnown
<1>5. CASE ExitApp(x) \/ CreateChildTask(x) \/ ExitChildTask(x)
  <2>1. r.pc = "run" /\ \E y \in {"stopped", "create", "exiting"} :
            OSTask' = [OSTask EXCEPT ![x] = [r EXCEPT !.pc = y]]
    BY Zenon, <1>1, <1>5 DEF ExitApp, CreateChildTask, ExitChildTask
  <2>2. PICK y \in {"stopped", "create", "exiting"} :
            OSTask' = [OSTask EXCEPT ![x] = [r EXCEPT !.pc = y]]
    BY ZenonT(60), <2>1
  <2>3. [r EXCEPT !.pc = y] \in Thread /\ ThreadKnown([r EXCEPT !.pc = y])
    BY Zenon, <1>1, <2>1, <2>2 DEF ThreadKnown, Thread
  <2> QED BY ZenonT(60), <1>1, <2>2, <2>3, OneThread
<1>6. CASE StartChildTask(x)
  <2>1. r.pc = "create"
    BY Zenon, <1>6 DEF StartChildTask
  <2>2. CASE OSTask' = [OSTask EXCEPT ![x].pc = "run"]
    <3>1. OSTask' = [OSTask EXCEPT ![x] = [r EXCEPT !.pc = "run"]]
      BY Zenon, <1>1, <2>2
    <3>2. [r EXCEPT !.pc = "run"] \in Thread /\ ThreadKnown([r EXCEPT !.pc = "run"])
      BY Zenon, <1>1, <2>1 DEF ThreadKnown, Thread
    <3> QED BY ZenonT(60), <1>1, <3>1, <3>2, OneThread
  <2>3. ASSUME NEW t \in TaskId,
               OSTask' = [OSTask EXCEPT
                    ![x].pc = "register", ![x].new = t,
                    ![TaskOf(t)] = [NoTask EXCEPT !.id = t, !.pc = "poll",
                                           !.creator = OSTask[x].id]]
        PROVE  OSTask' \in [TaskSlot -> Thread] /\ ThreadsKnown'
    <3> DEFINE n == [r EXCEPT !.pc = "register", !.new = t]
               c == [NoTask EXCEPT !.id = t, !.pc = "poll",
                            !.creator = OSTask[x].id]
    <3>1. n \in Thread /\ ThreadKnown(n)
      BY ZenonT(60), <1>1, <2>1 DEF ThreadKnown, Thread
    <3>2. c \in Thread /\ ThreadKnown(c)
      BY ZenonT(60), <1>1, ThreadKinds DEF Thread
    <3>3. TaskOf(t) \in TaskSlot
      BY Zenon, SlotsInTable
    <3>4. /\ OSTask' \in [TaskSlot -> Thread]
          /\ \A s \in TaskSlot : OSTask'[s] \in {n, c, OSTask[s]}
      <4> DEFINE f == [OSTask EXCEPT ![x].pc = "register", ![x].new = t]
      <4>1. f \in [TaskSlot -> Thread] /\ f = [OSTask EXCEPT ![x] = n]
        BY ZenonT(60), <1>1, <3>1
      <4>2. \A s \in TaskSlot : f[s] \in {n, OSTask[s]}
        BY Zenon, <1>1, <4>1
      <4>3. OSTask' = [f EXCEPT ![TaskOf(t)] = c]
        BY Zenon, <2>3
      <4> HIDE DEF f, n, c
      <4> QED BY Zenon, <3>2, <3>3, <4>1, <4>2, <4>3
    <3> HIDE DEF n, c
    <3>5. \A s \in TaskSlot : ThreadKnown(OSTask'[s])
      BY Zenon, <1>1, <3>1, <3>2, <3>4 DEF ThreadsKnown
    <3> QED BY Zenon, <3>4, <3>5 DEF ThreadsKnown, ThreadKnown
  <2> QED BY Zenon, <1>6, <2>2, <2>3 DEF StartChildTask
<1>7. CASE RegisterChildTask(x)
  <2> DEFINE n == [r EXCEPT !.pc = "run", !.new = FREE]
  <2>1. OSTask' = [OSTask EXCEPT ![x] = n] /\ r.pc = "register"
    BY ZenonT(60), <1>1, <1>7 DEF RegisterChildTask
  <2>2. n \in Thread /\ ThreadKnown(n)
    BY ZenonT(60), <1>1, <2>1 DEF ThreadKnown, Thread
  <2> QED BY ZenonT(60), <1>1, <2>1, <2>2, OneThread
<1> QED BY Zenon, <1>2, <1>3, <1>4, <1>5, <1>6, <1>7 DEF AppTask

\* The step changes no thread, and no creation has a new main task.
LEMMA ThreadsQuiet ==
  ASSUME TaskTypes, ThreadsKnown, UNCHANGED OSTask
  PROVE  OSTask' \in [TaskSlot -> Thread] /\ ThreadsKnown'
  BY Zenon DEF TaskTypes, ThreadsKnown, ThreadKnown

\* Every step keeps the threads well formed.
LEMMA ThreadsStep ==
  ASSUME AppInv, TaskTypes, TasksKnown, Next
  PROVE  OSTask' \in [TaskSlot -> Thread] /\ ThreadsKnown'
<1>1. ThreadsKnown
  BY Zenon DEF TasksKnown
<1>2. ASSUME NEW p \in Creator, AppCreate(p)
      PROVE  OSTask' \in [TaskSlot -> Thread] /\ ThreadsKnown'
  <2>1. CASE StartMainTask(p)
    <3>1. ASSUME NEW t \in TaskId,
                 OSTask' = [OSTask EXCEPT ![TaskOf(t)] =
                                [NoTask EXCEPT !.id = t, !.pc = "poll"]]
          PROVE  OSTask' \in [TaskSlot -> Thread] /\ ThreadsKnown'
      BY ZenonT(60), <1>1, <3>1, ThreadKinds, SlotsInTable, OneThread
    <3>2. CASE UNCHANGED OSTask
      BY Zenon, <1>1, <3>2, ThreadsQuiet
    <3> QED BY Zenon, <2>1, <3>1, <3>2 DEF StartMainTask
  <2>2. CASE LoadModule(p) \/ RegisterMainTask(p) \/ Finalize(p) \/ Abandon(p)
    <3>1. UNCHANGED OSTask
      BY Zenon, <2>2 DEF LoadModule, RegisterMainTask, Finalize, Abandon, osVars
    <3> QED BY Zenon, <1>1, <3>1, ThreadsQuiet
  <2> QED BY Zenon, <1>2, <2>1, <2>2 DEF AppCreate
<1>3. ASSUME NEW t \in TaskId, DeleteChildTask(t)
      PROVE  OSTask' \in [TaskSlot -> Thread] /\ ThreadsKnown'
  <2>1. OSTask' = [OSTask EXCEPT ![TaskOf(t)] = NoTask]
    BY Zenon, <1>3 DEF DeleteChildTask
  <2> QED BY ZenonT(60), <1>1, <2>1, ThreadKinds, SlotsInTable, OneThread
<1>4. CASE KillChild \/ Reap \/ KillMain
  <2>1. \E dead : Kill(dead)
    BY ZenonT(60), <1>4 DEF KillChild, Reap, KillMain
  <2> QED BY Zenon, <1>1, <2>1, KillStep
<1>5. CASE \/ \E n \in Names : StartAppCmd(n)
           \/ \E a \in 1..LastAppId, req \in {"SYS_DELETE", "SYS_RESTART"} :
                    ControlApp(a, req)
           \/ \E e \in Elapsed : Scan(e)
           \/ Collect \/ ModuleUnload \/ FreeRecords \/ Restart \/ RestartRefused
  <2>1. UNCHANGED OSTask
    BY Zenon, <1>5
       DEF StartAppCmd, ControlApp, Scan, Collect, ModuleUnload, FreeRecords,
           Restart, RestartRefused, Reserve, osVars
  <2> QED BY Zenon, <1>1, <2>1, ThreadsQuiet
<1>6. "es" \in Creator /\ "bg" \in Creator
  BY Zenon DEF Creator
<1> QED BY Zenon, <1>2, <1>3, <1>4, <1>5, <1>6, ThreadStep DEF Next, Background

\* CFE_ES_StartAppTask registers a task with an ID for an application.
LEMMA RegisterStep ==
  ASSUME TaskTypes, RecordsKnown, NEW t \in TaskId, NEW a \in AppId,
         RegisterTask(t, a)
  PROVE  TaskTable' \in [TaskSlot -> TaskRecord] /\ RecordsKnown'
<1>1. TaskOf(t) \in TaskSlot /\ [id |-> t, app |-> a] \in TaskRecord
  BY Zenon, SlotsInTable DEF TaskRecord
<1>2. TaskTable' = [TaskTable EXCEPT ![TaskOf(t)] = [id |-> t, app |-> a]]
  BY Zenon DEF RegisterTask
<1> QED BY Zenon, <1>1, <1>2 DEF TaskTypes, RecordsKnown

\* The steps that replace records by free or RESERVED ones.
LEMMA UnregisterStep ==
  ASSUME TaskTypes, RecordsKnown, TaskTable' \in [TaskSlot -> TaskRecord],
         \A s \in TaskSlot :
            TaskTable'[s] = TaskTable[s] \/ TaskTable'[s].id \in {FREE, RESERVED}
  PROVE  RecordsKnown'
  BY Zenon, PseudoIds DEF RecordsKnown

\* Every step keeps the task records well formed.
LEMMA RecordsStep ==
  ASSUME AppInv, TaskTypes, TasksKnown, Next
  PROVE  TaskTable' \in [TaskSlot -> TaskRecord] /\ RecordsKnown'
<1>1. /\ ThreadsKnown /\ RecordsKnown /\ MainsKnown
      /\ TaskTable \in [TaskSlot -> TaskRecord]
  BY Zenon DEF TasksKnown, TaskTypes
<1>2. CASE UNCHANGED TaskTable
  BY Zenon, <1>1, <1>2 DEF RecordsKnown
<1>3. ASSUME NEW p \in Creator, RegisterMainTask(p)
      PROVE  TaskTable' \in [TaskSlot -> TaskRecord] /\ RecordsKnown'
  <2>1. create[p].task \in TaskId /\ create[p].id \in AppId
    BY Zenon, <1>1, <1>3
       DEF RegisterMainTask, MainsKnown, AppInv, CreatorsReserve, Reserves
  <2> QED BY Zenon, <1>1, <1>3, <2>1, RegisterStep DEF RegisterMainTask
<1>4. ASSUME NEW x \in TaskSlot, RegisterChildTask(x)
      PROVE  TaskTable' \in [TaskSlot -> TaskRecord] /\ RecordsKnown'
  <2>1. OSTask[x].new \in TaskId /\ OSTask[x].app \in AppId
    BY Zenon, <1>1, <1>4 DEF RegisterChildTask, ThreadsKnown, ThreadKnown
  <2> QED BY Zenon, <1>1, <1>4, <2>1, RegisterStep DEF RegisterChildTask
<1>5. NoRecord \in TaskRecord /\ NoRecord.id = FREE
  BY Zenon DEF NoRecord, TaskRecord
<1>6. ASSUME NEW x \in TaskSlot, TaskTable' = [TaskTable EXCEPT ![x] = NoRecord]
      PROVE  TaskTable' \in [TaskSlot -> TaskRecord] /\ RecordsKnown'
  BY Zenon, <1>1, <1>5, <1>6, UnregisterStep
<1>7. CASE Collect
  <2>1. PICK mine \in SUBSET TaskSlot :
            TaskTable' = [s \in TaskSlot |->
                IF s \in mine THEN [TaskTable[s] EXCEPT !.id = RESERVED]
                ELSE TaskTable[s]]
    BY ZenonT(60), <1>7 DEF Collect, Owned
  <2>2. TaskTable' \in [TaskSlot -> TaskRecord]
    BY Zenon, <1>1, <2>1 DEF TaskRecord
  <2>3. \A s \in TaskSlot :
            TaskTable'[s] = TaskTable[s] \/ TaskTable'[s].id \in {FREE, RESERVED}
    BY <1>1, <2>1
  <2> QED BY Zenon, <1>1, <2>2, <2>3, UnregisterStep
<1>8. CASE FreeRecords
  <2>1. \A s \in TaskSlot : TaskTable'[s] \in {NoRecord, TaskTable[s]}
    BY Zenon, <1>8 DEF FreeRecords
  <2>2. TaskTable' \in [TaskSlot -> TaskRecord]
    BY Zenon, <1>1, <1>5, <1>8 DEF FreeRecords
  <2> QED BY Zenon, <1>1, <1>5, <2>1, <2>2, UnregisterStep
<1>9. ASSUME NEW x \in TaskSlot, AppTask(x)
      PROVE  TaskTable' \in [TaskSlot -> TaskRecord] /\ RecordsKnown'
  <2>1. \/ UNCHANGED TaskTable
        \/ RegisterChildTask(x)
        \/ TaskTable' = [TaskTable EXCEPT ![x] = NoRecord]
    BY Zenon, <1>9
       DEF AppTask, EnterFunction, PollTimeout, RunLoop, ExitApp,
           ExitWithoutContext, CreateChildTask, StartChildTask, ExitChildTask,
           ExitChildEnd, TaskExit, esVars
  <2> QED BY Zenon, <1>2, <1>4, <1>6, <2>1
<1>10. ASSUME NEW t \in TaskId, DeleteChildTask(t)
       PROVE  TaskTable' \in [TaskSlot -> TaskRecord] /\ RecordsKnown'
  <2>1. TaskTable' = [TaskTable EXCEPT ![TaskOf(t)] = NoRecord]
    BY Zenon, <1>10 DEF DeleteChildTask
  <2> QED BY ZenonT(60), <1>6, <2>1, SlotsInTable
<1>11. ASSUME NEW p \in Creator, AppCreate(p)
       PROVE  TaskTable' \in [TaskSlot -> TaskRecord] /\ RecordsKnown'
  <2>1. RegisterMainTask(p) \/ UNCHANGED TaskTable
    BY Zenon, <1>11
       DEF AppCreate, LoadModule, StartMainTask, Finalize, Abandon, esVars
  <2> QED BY Zenon, <1>2, <1>3, <2>1
<1>12. CASE \/ \E n \in Names : StartAppCmd(n)
            \/ \E a \in 1..LastAppId, req \in {"SYS_DELETE", "SYS_RESTART"} :
                    ControlApp(a, req)
            \/ \E e \in Elapsed : Scan(e)
            \/ KillChild \/ Reap \/ KillMain \/ ModuleUnload
            \/ Restart \/ RestartRefused
  <2>1. UNCHANGED TaskTable
    BY Zenon, <1>12
       DEF StartAppCmd, ControlApp, Scan, KillChild, Reap, KillMain,
           ModuleUnload, Restart, RestartRefused, Reserve, esVars
  <2> QED BY Zenon, <1>2, <2>1
<1>13. "es" \in Creator /\ "bg" \in Creator
  BY Zenon DEF Creator
<1> QED BY Zenon, <1>7, <1>8, <1>9, <1>10, <1>11, <1>12, <1>13
        DEF Next, Background

\* Every step but OS_TaskCreate leaves the main tasks to register alone.
LEMMA MainsStep ==
  ASSUME AppInv, TasksKnown, Next
  PROVE  MainsKnown'
<1>1. MainsKnown /\ create \in [Creator -> Creation]
  BY Zenon DEF TasksKnown, AppInv, AppTypes
<1>2. CASE UNCHANGED create
  BY Zenon, <1>1, <1>2 DEF MainsKnown
<1>3. ASSUME NEW p \in Creator, AppCreate(p)
      PROVE  MainsKnown'
  <2>1. \/ \E x \in {"task", "fail", "finalize"} :
                create' = [create EXCEPT ![p].pc = x]
        \/ \E t \in TaskId :
                create' = [create EXCEPT ![p].pc = "register", ![p].task = t]
        \/ create' = [create EXCEPT ![p] = NotCreating]
    BY Zenon, <1>3
       DEF AppCreate, LoadModule, StartMainTask, RegisterMainTask, Finalize,
           Abandon, Return
  <2>2. CASE \E x \in {"task", "fail", "finalize"} :
                create' = [create EXCEPT ![p].pc = x]
    BY <1>1, <2>2 DEF MainsKnown
  <2>3. CASE \E t \in TaskId :
                create' = [create EXCEPT ![p].pc = "register", ![p].task = t]
    BY <1>1, <2>3 DEF MainsKnown
  <2>4. CASE create' = [create EXCEPT ![p] = NotCreating]
    BY Zenon, <1>1, <2>4 DEF MainsKnown, NotCreating
  <2> QED BY Zenon, <2>1, <2>2, <2>3, <2>4
<1>4. ASSUME NEW p \in Creator, NEW n, Reserve(p, n)
      PROVE  MainsKnown'
  <2>1. PICK a : create' = [create EXCEPT ![p] =
                    [pc |-> "load", name |-> n, id |-> a, task |-> FREE]]
    BY Zenon, <1>4 DEF Reserve
  <2> QED BY Zenon, <1>1, <2>1 DEF MainsKnown
<1>5. "es" \in Creator /\ "bg" \in Creator
  BY Zenon DEF Creator
<1>6. CASE (\E n \in Names : StartAppCmd(n)) \/ Restart
  BY Zenon, <1>4, <1>5, <1>6 DEF StartAppCmd, Restart
<1>7. ASSUME NEW x \in TaskSlot, AppTask(x)
      PROVE  UNCHANGED create
  BY Zenon, <1>7
     DEF AppTask, EnterFunction, PollTimeout, RunLoop, ExitApp,
         ExitWithoutContext, CreateChildTask, StartChildTask,
         RegisterChildTask, ExitChildTask, ExitChildEnd, TaskExit
<1>8. CASE \/ \E a \in 1..LastAppId, req \in {"SYS_DELETE", "SYS_RESTART"} :
                    ControlApp(a, req)
           \/ \E t \in TaskId : DeleteChildTask(t)
           \/ \E e \in Elapsed : Scan(e)
           \/ Collect \/ KillChild \/ Reap \/ KillMain \/ ModuleUnload
           \/ FreeRecords \/ RestartRefused
  <2>1. UNCHANGED create
    BY Zenon, <1>8
       DEF ControlApp, DeleteChildTask, Scan, Collect, KillChild, Reap,
           KillMain, ModuleUnload, FreeRecords, RestartRefused
  <2> QED BY Zenon, <1>2, <2>1
<1> QED BY Zenon, <1>2, <1>3, <1>5, <1>6, <1>7, <1>8 DEF Next, Background

-----------------------------------------------------------------------------
(***************************************************************************)
(* Every step keeps IInv                                                   *)
(***************************************************************************)
\* The tables are empty when the ES starts.
LEMMA InitInv == Init => IInv
<1> SUFFICES ASSUME Init
             PROVE  IInv
  OBVIOUS
<1>1. /\ NoApp \in AppRecord /\ NotCreating \in Creation /\ Idle \in TableScan
      /\ NoRecord \in TaskRecord
  <2>1. NoApp \in AppRecord
    BY DEF NoApp, AppRecord, AppState, Request
  <2>2. NotCreating \in Creation
    BY Zenon DEF NotCreating, Creation
  <2>3. Idle \in TableScan
    BY Zenon DEF Idle, TableScan, Request
  <2>4. NoRecord \in TaskRecord
    BY Zenon DEF NoRecord, TaskRecord
  <2> QED BY Zenon, <2>1, <2>2, <2>3, <2>4
<1>2. /\ NoApp.id = FREE /\ NoApp.state = "INIT" /\ NotCreating.pc = "idle"
      /\ Idle.pc = "scan" /\ Idle.todo = {} /\ NoRecord.id = FREE
  BY Zenon DEF NoApp, NotCreating, Idle, NoRecord
<1>3. AppTypes
  BY SMTT(60), <1>1, AppAssumption DEF Init, AppTypes
<1>4. SlotsMatch /\ NamesUnique /\ RunningRegistered
  BY Zenon, <1>2, PseudoIds
     DEF Init, SlotsMatch, NamesUnique, RunningRegistered, AppRecordIsUsed
<1>5. CreatorsReserve
  BY Zenon, <1>2 DEF Init, CreatorsReserve, Creator
<1>6. CleanUpReserves /\ ListMatches
  BY Zenon, <1>2 DEF Init, CleanUpReserves, ListMatches, Cleaning
<1>7. TaskTypes
  <2>1. NoTask \in Thread
    BY ZenonT(60), ThreadKinds
  <2> QED BY Zenon, <1>1, <2>1 DEF Init, TaskTypes
<1>8. TasksKnown
  BY ZenonT(60), <1>2, ThreadKinds, PseudoIds
     DEF Init, TasksKnown, ThreadsKnown, RecordsKnown, MainsKnown
<1> QED BY Zenon, <1>3, <1>4, <1>5, <1>6, <1>7, <1>8 DEF IInv, AppInv

\* Every step keeps what is known of the application table.
LEMMA TableStep ==
  ASSUME IInv, NextOnList, Next
  PROVE  AppInv'
<1>1. AppInv /\ TaskTypes /\ TasksKnown /\ bg \in TableScan
  BY Zenon DEF IInv, AppInv, AppTypes
<1>2. "es" \in Creator /\ "bg" \in Creator
  BY Zenon DEF Creator
<1>3. ASSUME NEW n \in Names, StartAppCmd(n)
      PROVE  AppInv'
  <2>1. create["es"].pc = "idle" /\ Reserve("es", n) /\ bg' = bg
    BY Zenon, <1>3 DEF StartAppCmd
  <2> QED BY Zenon, <1>1, <1>2, <2>1, ReserveStep
<1>4. CASE Restart
  <2>1. /\ bg.pc = "restart" /\ Reserve("bg", bg.name)
        /\ bg' = [bg EXCEPT !.pc = "creating"]
    BY Zenon, <1>4 DEF Restart
  <2>2. create["bg"].pc = "idle" /\ bg.name \in Names \cup {NoName}
    <3>1. bg.pc = "restart"
      BY Zenon, <2>1
    <3> QED BY Zenon, <1>1, <3>1 DEF AppInv, CreatorsReserve, TableScan
  <2> QED BY Zenon, <1>1, <1>2, <2>1, <2>2, ReserveStep
<1>5. ASSUME NEW p \in Creator, AppCreate(p)
      PROVE  AppInv'
  BY Zenon, <1>1, <1>5, CreateQuietStep, RegisterMainStep, CreateEndStep
     DEF AppCreate
<1>6. ASSUME UNCHANGED <<AppTable, LastAppId, create, bg>>
      PROVE  AppInv'
  <2>1. AppTypes' /\ TableQuiet
    BY Zenon, <1>1, <1>6 DEF AppInv, AppTypes, TableQuiet, Cleaning
  <2> QED BY Zenon, <1>1, <2>1, TableQuietStep
<1>7. ASSUME NEW x \in TaskSlot, AppTask(x)
      PROVE  AppInv'
  <2>1. \/ RunLoop(x) \/ ExitApp(x)
        \/ UNCHANGED <<AppTable, LastAppId, create, bg>>
    BY Zenon, <1>7
       DEF AppTask, EnterFunction, PollTimeout, ExitWithoutContext,
           CreateChildTask, StartChildTask, RegisterChildTask, ExitChildTask,
           ExitChildEnd, TaskExit, esVars
  <2> QED BY Zenon, <1>1, <1>6, <2>1, OwnRecordStep
<1>8. ASSUME NEW t \in TaskId, DeleteChildTask(t)
      PROVE  AppInv'
  <2>1. UNCHANGED <<AppTable, LastAppId, create, bg>>
    BY Zenon, <1>8 DEF DeleteChildTask
  <2> QED BY Zenon, <1>6, <2>1
<1> QED BY Zenon, <1>1, <1>2, <1>3, <1>4, <1>5, <1>7, <1>8, ControlStep, ScanStep,
           CollectStep, CleanUpQuietStep, FreeStep, RefusedStep, Zenon
        DEF Next, Background

\* IInv is inductive.
LEMMA StepInv ==
  ASSUME IInv, NextOnList, [Next]_vars
  PROVE  IInv'
<1>1. CASE Next
  <2>1. AppInv'
    BY Zenon, <1>1, TableStep
  <2>2. OSTask' \in [TaskSlot -> Thread] /\ ThreadsKnown'
    BY Zenon, <1>1, ThreadsStep DEF IInv
  <2>3. TaskTable' \in [TaskSlot -> TaskRecord] /\ RecordsKnown'
    BY Zenon, <1>1, RecordsStep DEF IInv
  <2>4. MainsKnown'
    BY Zenon, <1>1, MainsStep DEF IInv
  <2> QED BY Zenon, <2>1, <2>2, <2>3, <2>4 DEF IInv, TaskTypes, TasksKnown
<1>2. CASE UNCHANGED vars
  <2>1. UNCHANGED <<AppTable, TaskTable, LastAppId, OSTask, create, bg>>
    BY Zenon, <1>2 DEF vars, esVars, osVars
  <2>2. AppTypes' /\ TableQuiet
    BY Zenon, <2>1 DEF IInv, AppInv, AppTypes, TableQuiet, Cleaning
  <2>3. AppInv'
    BY Zenon, <2>2, TableQuietStep DEF IInv
  <2>4. TaskTypes'
    BY Zenon, <2>1 DEF IInv, TaskTypes
  <2>5. TasksKnown'
    BY Zenon, <2>1
       DEF IInv, TasksKnown, ThreadsKnown, ThreadKnown, RecordsKnown,
           MainsKnown
  <2> QED BY Zenon, <2>3, <2>4, <2>5 DEF IInv
<1> QED BY Zenon, <1>1, <1>2

\* The background task between two clean-ups.
LEMMA NextRequestCalm ==
  /\ NextRequest.pc \in {"scan", "process"} /\ NextRequest.tasks = {}
  /\ NextRequest.left = {} /\ NextRequest.app = FREE
<1>1. \A x, y : /\ [Idle EXCEPT !.pc = x, !.todo = y].pc = x
                /\ [Idle EXCEPT !.pc = x, !.todo = y].tasks = {}
                /\ [Idle EXCEPT !.pc = x, !.todo = y].left = {}
                /\ [Idle EXCEPT !.pc = x, !.todo = y].app = FREE
  BY Zenon DEF Idle
<1>2. (IF bg.todo = {} THEN "scan" ELSE "process") \in {"scan", "process"}
  BY Zenon
<1> QED BY <1>1, <1>2 DEF NextRequest

-----------------------------------------------------------------------------
(***************************************************************************)
(* The types                                                               *)
(***************************************************************************)

\* A record in use has a name, and a timer that only runs down.
RecordTyped(r) == r.timer \in 0..KillTimer /\ (r.id # FREE => r.name \in Names)
TableTyped == \A s \in AppSlot : RecordTyped(AppTable[s])

\* So have a creation and a clean-up, and what they leave behind.
NamesTyped ==
    /\ \A p \in Creator : create[p].pc # "idle" => create[p].name \in Names
    /\ Cleaning \/ bg.pc = "restart" => bg.name \in Names
    /\ Modules \subseteq AppId \X Names
ListsTyped ==
    /\ bg.left \subseteq bg.tasks
    /\ Orphans \subseteq TaskId /\ Leaked \subseteq AppId

TypeInv == TableTyped /\ NamesTyped /\ ListsTyped

\* One record of the application table changes.
LEMMA OneTyped ==
  ASSUME AppTypes, TableTyped, NEW k, NEW r, RecordTyped(r), AppTable' = [AppTable EXCEPT ![k] = r]
  PROVE  TableTyped'
  BY Zenon DEF TableTyped, AppTypes

\* CFE_ES_AppCreate and the table.
LEMMA CreateTable ==
  ASSUME AppInv, TableTyped, NamesTyped, NEW p \in Creator, AppCreate(p)
  PROVE  TableTyped'
<1>1. AppTable \in [AppSlot -> AppRecord]
  BY Zenon DEF AppInv, AppTypes
<1>2. CASE UNCHANGED AppTable
  BY Zenon, <1>2 DEF TableTyped
<1>3. CASE RegisterMainTask(p)
  <2> DEFINE k == AppOf(create[p].id)
             r == [AppTable[k] EXCEPT !.main = create[p].task]
  <2>1. AppTable' = [AppTable EXCEPT ![k] = r]
    BY Zenon, <1>3 DEF RegisterMainTask
  <2>2. k \in AppSlot
    BY Zenon, <1>3, SlotsInTable DEF RegisterMainTask, AppInv, CreatorsReserve, Reserves
  <2>3. RecordTyped(r)
    BY Zenon, <1>1, <2>2 DEF TableTyped, RecordTyped, AppRecord
  <2> HIDE DEF k, r
  <2> QED BY Zenon, <2>1, <2>3, OneTyped DEF AppInv
<1>4. CASE Finalize(p)
  <2> DEFINE k == AppOf(create[p].id)
             r == [AppTable[k] EXCEPT !.id = create[p].id]
  <2>1. AppTable' = [AppTable EXCEPT ![k] = r]
    BY Zenon, <1>4 DEF Finalize
  <2>2. k \in AppSlot /\ AppTable[k].id = RESERVED
    BY Zenon, <1>4, SlotsInTable DEF Finalize, AppInv, CreatorsReserve, Reserves
  <2>3. RecordTyped(r)
    BY Zenon, <1>1, <2>2, PseudoIds DEF TableTyped, RecordTyped, AppRecord
  <2> HIDE DEF k, r
  <2> QED BY Zenon, <2>1, <2>3, OneTyped DEF AppInv
<1>5. CASE Abandon(p)
  <2> DEFINE k == AppOf(create[p].id)
  <2>1. AppTable' = [AppTable EXCEPT ![k] = AppRecordSetFree(k)]
    BY Zenon, <1>5 DEF Abandon
  <2>2. RecordTyped(AppRecordSetFree(k))
    BY AppAssumption DEF RecordTyped, AppRecordSetFree, NoApp
  <2> HIDE DEF k
  <2> QED BY Zenon, <2>1, <2>2, OneTyped DEF AppInv
<1>6. LoadModule(p) \/ StartMainTask(p) => UNCHANGED AppTable
  BY Zenon DEF LoadModule, StartMainTask, esVars
<1> QED BY Zenon, <1>2, <1>3, <1>4, <1>5, <1>6 DEF AppCreate

\* The other steps and the table.
LEMMA TableTypes ==
  ASSUME IInv, TypeInv, NextOnList, [Next]_vars
  PROVE  TableTyped'
<1> USE SlotsInTable
<1>1. AppTable \in [AppSlot -> AppRecord] /\ TableTyped /\ AppInv /\ AppTypes
  BY Zenon DEF IInv, AppInv, AppTypes, TypeInv
<1>2. CASE UNCHANGED AppTable
  BY Zenon, <1>1, <1>2 DEF TableTyped
<1>3. ASSUME NEW n \in Names, NEW p \in Creator, Reserve(p, n)
      PROVE  TableTyped'
  <2>1. PICK a : AppTable' = [AppTable EXCEPT
                ![AppOf(a)] = [NoApp EXCEPT !.id = RESERVED, !.name = n]]
    BY Zenon, <1>3 DEF Reserve
  <2>2. RecordTyped([NoApp EXCEPT !.id = RESERVED, !.name = n])
    BY AppAssumption DEF RecordTyped, NoApp
  <2> QED BY Zenon, <1>1, <2>1, <2>2, OneTyped
<1>4. ASSUME NEW k \in AppSlot, NEW r, AppTable' = [AppTable EXCEPT ![k] = r],
             r.timer = AppTable[k].timer, r.name = AppTable[k].name, r.id = AppTable[k].id
      PROVE  TableTyped'
  <2>1. RecordTyped(r)
    BY Zenon, <1>1, <1>4 DEF TableTyped, RecordTyped
  <2> QED BY Zenon, <1>1, <1>4, <2>1, OneTyped
<1>5. ASSUME NEW a \in 1..LastAppId, NEW req \in {"SYS_DELETE", "SYS_RESTART"}, ControlApp(a, req)
      PROVE  TableTyped'
  <2> DEFINE r == [AppTable[AppOf(a)] EXCEPT !.req = req]
  <2>1. AppTable' = [AppTable EXCEPT ![AppOf(a)] = r]
    BY Zenon, <1>5 DEF ControlApp
  <2>2. AppOf(a) \in AppSlot
    <3>1. a \in AppId
      BY <1>1, <1>5, AppAssumption DEF AppTypes, AppId
    <3> QED BY Zenon, <3>1
  <2>3. r.timer = AppTable[AppOf(a)].timer /\ r.name = AppTable[AppOf(a)].name
        /\ r.id = AppTable[AppOf(a)].id
    BY Zenon, <1>1, <2>2 DEF AppRecord
  <2> HIDE DEF r
  <2> QED BY Zenon, <1>4, <2>1, <2>2, <2>3
<1>6. ASSUME NEW x \in TaskSlot, RunLoop(x) \/ ExitApp(x)
      PROVE  TableTyped'
  <2> DEFINE k == AppOf(TaskTable[x].app)
  <2>1. k \in AppSlot
    BY Zenon DEF IInv, TaskTypes, TaskRecord
  <2>2. PICK st, rq : AppTable' = [AppTable EXCEPT ![k] = [AppTable[k] EXCEPT !.state = st, !.req = rq]]
    <3>1. CASE RunLoop(x)
      <4>1. AppTable' = [AppTable EXCEPT ![k] = [AppTable[k] EXCEPT !.state = "RUNNING"]]
        BY Zenon, <3>1 DEF RunLoop
      <4>2. [AppTable[k] EXCEPT !.state = "RUNNING"] =
              [AppTable[k] EXCEPT !.state = "RUNNING", !.req = AppTable[k].req]
        BY Zenon, <1>1, <2>1 DEF AppRecord
      <4> QED BY Zenon, <4>1, <4>2
    <3>2. CASE ExitApp(x)
      BY Zenon, <3>2 DEF ExitApp
    <3> QED BY Zenon, <1>6, <3>1, <3>2
  <2> DEFINE r == [AppTable[k] EXCEPT !.state = st, !.req = rq]
  <2>3. r.timer = AppTable[k].timer /\ r.name = AppTable[k].name /\ r.id = AppTable[k].id
    BY Zenon, <1>1, <2>1 DEF AppRecord
  <2>4. AppTable' = [AppTable EXCEPT ![k] = r]
    BY Zenon, <2>2
  <2> HIDE DEF k, r
  <2> QED BY Zenon, <1>4, <2>1, <2>3, <2>4
<1>7. ASSUME NEW e \in Elapsed, Scan(e)
      PROVE  TableTyped'
  <2>1. ASSUME NEW s \in AppSlot
        PROVE  ScanRecord(s, e).timer \in 0..KillTimer
    <3>1. AppTable[s] \in AppRecord /\ AppTable[s].timer \in 0..KillTimer /\ e \in Nat
      BY <1>1, AppAssumption DEF TableTyped, RecordTyped
    <3>2. PICK i \in 0..KillTimer :
             \/ ScanRecord(s, e) = [AppTable[s] EXCEPT !.timer = i]
             \/ ScanRecord(s, e) = [AppTable[s] EXCEPT !.state = "WAITING", !.timer = i]
             \/ ScanRecord(s, e) = AppTable[s]
      <4>1. (IF AppTable[s].timer > e THEN AppTable[s].timer - e ELSE 0) \in 0..KillTimer
        BY <3>1, AppAssumption
      <4>2. KillTimer \in 0..KillTimer
        BY AppAssumption
      <4> QED BY Zenon, <4>1, <4>2 DEF ScanRecord
    <3> QED BY Zenon, <3>1, <3>2 DEF AppRecord
  <2>2. \A s \in AppSlot : AppTable'[s] = ScanRecord(s, e)
    BY Zenon, <1>7 DEF Scan
  <2>3. \A s \in AppSlot : ScanRecord(s, e).id = AppTable[s].id
                        /\ ScanRecord(s, e).name = AppTable[s].name
    BY Zenon, <1>1, ScanRecordEffect
  <2> QED BY Zenon, <1>1, <2>1, <2>2, <2>3 DEF TableTyped, RecordTyped
<1>8. CASE Collect
  <2>1. PICK a \in bg.todo : Collects(a)
    BY Zenon, <1>1, <1>8, CollectCollects
  <2> DEFINE r == [AppTable[AppOf(a)] EXCEPT !.id = RESERVED]
  <2>2. AppTable' = [AppTable EXCEPT ![AppOf(a)] = r]
    BY Zenon, <2>1 DEF Collects
  <2>3. AppOf(a) \in AppSlot /\ AppTable[AppOf(a)].id # FREE
    BY Zenon, <1>1, PseudoIds DEF AppInv, AppTypes, TableScan, ListMatches
  <2>4. RecordTyped(r)
    BY Zenon, <1>1, <2>3 DEF TableTyped, RecordTyped, AppRecord
  <2> HIDE DEF r
  <2> QED BY Zenon, <1>1, <2>2, <2>4, OneTyped
<1>9. CASE FreeRecords
  <2> DEFINE k == AppOf(bg.app)
  <2>1. AppTable' = [AppTable EXCEPT ![k] =
            IF AppTable[k].id = RESERVED THEN AppRecordSetFree(k) ELSE AppTable[k]]
    BY Zenon, <1>9 DEF FreeRecords
  <2>2. RecordTyped(AppRecordSetFree(k))
    BY AppAssumption DEF RecordTyped, AppRecordSetFree, NoApp
  <2>3. k \in AppSlot
    BY Zenon, <1>1 DEF AppTypes, TableScan
  <2> HIDE DEF k
  <2>4. RecordTyped(AppTable[k])
    BY Zenon, <1>1, <2>3 DEF TableTyped
  <2> QED BY Zenon, <1>1, <2>1, <2>2, <2>4, OneTyped
<1>10. ASSUME NEW p \in Creator, AppCreate(p)
       PROVE  TableTyped'
  BY Zenon, <1>1, <1>10, CreateTable DEF TypeInv
<1>11. Restart => bg.name \in Names /\ Reserve("bg", bg.name)
  BY Zenon DEF Restart, TypeInv, NamesTyped
<1>12. ASSUME NEW x \in TaskSlot, AppTask(x)
       PROVE  UNCHANGED AppTable \/ RunLoop(x) \/ ExitApp(x)
  BY Zenon, <1>12 DEF AppTask, EnterFunction, PollTimeout, RegisterChildTask,
     ExitWithoutContext, CreateChildTask, StartChildTask, ExitChildTask,
     ExitChildEnd, TaskExit, esVars
<1>13. /\ KillChild \/ Reap \/ KillMain \/ ModuleUnload \/ RestartRefused => UNCHANGED AppTable
       /\ (\E t \in TaskId : DeleteChildTask(t)) => UNCHANGED AppTable
       /\ UNCHANGED vars => UNCHANGED AppTable
  BY Zenon DEF KillChild, Reap, KillMain, ModuleUnload, RestartRefused, DeleteChildTask,
     vars, esVars
<1>14. "es" \in Creator /\ "bg" \in Creator
  BY Zenon DEF Creator
<1>15. ASSUME NEW n \in Names, StartAppCmd(n)
       PROVE  Reserve("es", n)
  BY Zenon, <1>15 DEF StartAppCmd
<1>16. CASE Restart \/ \E n \in Names : StartAppCmd(n)
  BY Zenon, <1>3, <1>11, <1>14, <1>15, <1>16
<1> QED BY Zenon, <1>2, <1>5, <1>6, <1>7, <1>8, <1>9, <1>10, <1>12, <1>13, <1>14, <1>16
        DEF Next, Background

\* What a step may do to the names of the creations and of the clean-up.
LEMMA NameTypes ==
  ASSUME IInv, TypeInv, NextOnList, [Next]_vars
  PROVE  NamesTyped'
<1>1. /\ create \in [Creator -> Creation] /\ bg \in TableScan /\ AppInv /\ AppTypes
      /\ NamesTyped
  BY Zenon DEF IInv, AppInv, AppTypes, TypeInv
<1>2. CASE UNCHANGED <<create, bg, Modules>>
  BY Zenon, <1>1, <1>2 DEF NamesTyped, Cleaning
<1>3. ASSUME NEW n \in Names, NEW p \in Creator, Reserve(p, n),
             bg' = bg \/ bg' = [bg EXCEPT !.pc = "creating"]
      PROVE  NamesTyped'
  <2>1. PICK a : create' = [create EXCEPT ![p] =
                [pc |-> "load", name |-> n, id |-> a, task |-> FREE]]
    BY Zenon, <1>3 DEF Reserve
  <2>2. Modules' = Modules
    BY Zenon, <1>3 DEF Reserve, osVars
  <2>3. bg'.name = bg.name /\ (bg'.pc = bg.pc \/ bg'.pc = "creating")
    BY Zenon, <1>1, <1>3 DEF TableScan
  <2>4. \A q \in Creator : create'[q].name = n \/ create'[q] = create[q]
    BY Zenon, <1>1, <2>1
  <2> QED BY Zenon, <1>1, <2>2, <2>3, <2>4 DEF NamesTyped, Cleaning
<1>4. ASSUME NEW p \in Creator, AppCreate(p)
      PROVE  NamesTyped'
  <2>1. create[p].pc # "idle" /\ create[p].id \in AppId /\ create[p].name \in Names
    <3>1. create[p].pc # "idle"
      BY Zenon, <1>4 DEF AppCreate, LoadModule, StartMainTask, RegisterMainTask, Finalize, Abandon
    <3> QED BY Zenon, <1>1, <3>1 DEF AppInv, CreatorsReserve, Reserves, NamesTyped
  <2>2. Modules' \subseteq Modules \cup {<<create[p].id, create[p].name>>}
    BY Zenon, <1>4 DEF AppCreate, LoadModule, StartMainTask, RegisterMainTask, Finalize,
       Abandon, osVars
  <2>3. <<create[p].id, create[p].name>> \in AppId \X Names
    BY Zenon, <2>1
  <2>4. Modules' \subseteq AppId \X Names
    BY Zenon, <1>1, <2>2, <2>3 DEF NamesTyped
  <2>5. \A q \in Creator : create'[q].pc = "idle"
                        \/ (create'[q].name = create[q].name /\ create[q].pc # "idle")
    <3>1. CASE create' = [create EXCEPT ![p] = NotCreating]
      BY Zenon, <1>1, <3>1 DEF NotCreating
    <3>2. CASE /\ create'[p].name = create[p].name
               /\ \A q \in Creator : q # p => create'[q] = create[q]
      <4>1. \A q \in Creator : create'[q].name = create[q].name
        BY Zenon, <3>2
      <4>2. \A q \in Creator : create[q].pc = "idle" => create'[q].pc = "idle"
        BY Zenon, <2>1, <3>2
      <4> QED BY Zenon, <4>1, <4>2
    <3>3. ASSUME NEW c, NEW t,
                 \/ create' = [create EXCEPT ![p].pc = c]
                 \/ create' = [create EXCEPT ![p].pc = c, ![p].task = t]
          PROVE  /\ create'[p].name = create[p].name
                 /\ \A q \in Creator : q # p => create'[q] = create[q]
      BY <1>1, <3>3 DEF Creation
    <3>4. StartMainTask(p) => \/ \E c : create' = [create EXCEPT ![p].pc = c]
                              \/ \E t \in TaskId :
                                    create' = [create EXCEPT ![p].pc = "register", ![p].task = t]
      BY Zenon DEF StartMainTask
    <3>5. LoadModule(p) \/ RegisterMainTask(p) => \E c : create' = [create EXCEPT ![p].pc = c]
      BY Zenon DEF LoadModule, RegisterMainTask
    <3>6. Finalize(p) \/ Abandon(p) => create' = [create EXCEPT ![p] = NotCreating]
      BY Zenon DEF Finalize, Abandon, Return
    <3> QED BY Zenon, <1>4, <3>1, <3>2, <3>3, <3>4, <3>5, <3>6
        DEF AppCreate
  <2>6. bg' = bg \/ bg' = NextRequest
    BY Zenon, <1>4 DEF AppCreate, LoadModule, StartMainTask, RegisterMainTask, Finalize,
       Abandon, Return
  <2>7. Cleaning' \/ bg'.pc = "restart" => bg'.name \in Names
    <3>1. CASE bg' = NextRequest
      BY Zenon, <3>1, NextRequestCalm DEF Cleaning
    <3>2. CASE bg' = bg
      BY Zenon, <1>1, <3>2 DEF NamesTyped, Cleaning
    <3> QED BY Zenon, <2>6, <3>1, <3>2
  <2> QED BY Zenon, <1>1, <2>4, <2>5, <2>7 DEF NamesTyped
<1>5. CASE /\ UNCHANGED create /\ Modules' \subseteq Modules
           /\ (Cleaning' \/ bg'.pc = "restart" => bg'.name \in Names)
  BY Zenon, <1>1, <1>5 DEF NamesTyped
<1>6. CASE Collect
  <2>1. PICK a \in bg.todo : Collects(a)
    BY Zenon, <1>1, <1>6, CollectCollects
  <2>2. AppOf(a) \in AppSlot /\ AppTable[AppOf(a)].id # FREE
    BY Zenon, <1>1, PseudoIds, SlotsInTable DEF AppInv, AppTypes, TableScan, ListMatches
  <2>3. bg'.name \in Names
    BY Zenon, <2>1, <2>2 DEF Collects, TypeInv, TableTyped, RecordTyped
  <2>4. UNCHANGED create /\ Modules' \subseteq Modules
    BY Zenon, <1>6 DEF Collect, osVars
  <2> QED BY Zenon, <1>5, <2>3, <2>4
<1>7. CASE KillChild \/ Reap \/ KillMain \/ ModuleUnload
  <2>1. Cleaning /\ UNCHANGED create /\ Modules' \subseteq Modules
    BY Zenon, <1>7 DEF KillChild, Reap, KillMain, ModuleUnload, Cleaning
  <2>2. \/ \E t \in bg.left : bg' = [bg EXCEPT !.left = @ \ {t}]
        \/ \E x \in {"children", "main", "unload", "free"} :
              bg' = [bg EXCEPT !.pc = x]
    BY ZenonT(60), <1>7 DEF KillChild, Reap, KillMain, ModuleUnload
  <2>3. bg'.name = bg.name
    BY Zenon, <1>1, <2>2 DEF TableScan
  <2> QED BY Zenon, <1>1, <1>5, <2>1, <2>3 DEF NamesTyped
<1>8. CASE FreeRecords \/ RestartRefused \/ \E e \in Elapsed : Scan(e)
  <2>1. UNCHANGED <<create, Modules>>
    BY Zenon, <1>8 DEF FreeRecords, RestartRefused, Scan, osVars
  <2>2. CASE FreeRecords /\ bg' = [bg EXCEPT !.pc = "restart"]
    <3>1. bg'.name = bg.name /\ Cleaning
      BY Zenon, <1>1, <2>2 DEF TableScan, FreeRecords, Cleaning
    <3> QED BY Zenon, <1>1, <1>5, <2>1, <3>1 DEF NamesTyped
  <2>3. CASE bg' = NextRequest
    BY Zenon, <1>5, <2>1, <2>3, NextRequestCalm DEF Cleaning
  <2>4. CASE \E e \in Elapsed : Scan(e)
    <3>1. bg'.pc \in {"scan", "process"}
      BY <1>1, <2>4 DEF Scan, TableScan
    <3> QED BY Zenon, <1>5, <2>1, <3>1 DEF Cleaning
  <2> QED BY Zenon, <1>8, <2>2, <2>3, <2>4 DEF FreeRecords, RestartRefused
<1>9. ASSUME NEW x \in TaskSlot, AppTask(x)
      PROVE  UNCHANGED <<create, bg, Modules>>
  BY Zenon, <1>9 DEF AppTask, EnterFunction, PollTimeout, RunLoop, ExitApp, RegisterChildTask,
     ExitWithoutContext, CreateChildTask, StartChildTask, ExitChildTask, ExitChildEnd,
     TaskExit, osVars
<1>10. /\ (\E t \in TaskId : DeleteChildTask(t)) => UNCHANGED <<create, bg, Modules>>
       /\ (\E a \in 1..LastAppId, req \in {"SYS_DELETE", "SYS_RESTART"} : ControlApp(a, req))
            => UNCHANGED <<create, bg, Modules>>
       /\ UNCHANGED vars => UNCHANGED <<create, bg, Modules>>
  BY Zenon DEF DeleteChildTask, ControlApp, osVars, vars
<1>11. CASE Restart \/ \E n \in Names : StartAppCmd(n)
  <2>1. "es" \in Creator /\ "bg" \in Creator
    BY Zenon DEF Creator
  <2>2. CASE Restart
    <3>1. bg.name \in Names /\ Reserve("bg", bg.name) /\ bg' = [bg EXCEPT !.pc = "creating"]
      BY Zenon, <1>1, <2>2 DEF Restart, NamesTyped
    <3> QED BY Zenon, <1>3, <2>1, <3>1
  <2>3. ASSUME NEW n \in Names, StartAppCmd(n)
        PROVE  NamesTyped'
    <3>1. Reserve("es", n) /\ bg' = bg
      BY Zenon, <2>3 DEF StartAppCmd
    <3> QED BY Zenon, <1>3, <2>1, <3>1
  <2> QED BY Zenon, <1>11, <2>2, <2>3
<1>12. "es" \in Creator /\ "bg" \in Creator
  BY Zenon DEF Creator
<1> QED BY Zenon, <1>2, <1>4, <1>6, <1>7, <1>8, <1>9, <1>10, <1>11, <1>12 DEF Next, Background

\* What a step may do to the lists of tasks and of applications.
LEMMA ListTypes ==
  ASSUME IInv, TypeInv, NextOnList, [Next]_vars
  PROVE  ListsTyped'
<1>1. /\ create \in [Creator -> Creation] /\ bg \in TableScan /\ AppInv
      /\ ListsTyped
  BY Zenon DEF IInv, AppInv, AppTypes, TypeInv
<1>2. Orphans' \subseteq TaskId
  <2>1. ASSUME NEW x \in TaskSlot, RegisterChildTask(x)
        PROVE  Orphans' \subseteq TaskId
    <3>1. OSTask[x].new \in TaskId
      BY Zenon, <2>1 DEF RegisterChildTask, IInv, TasksKnown, ThreadsKnown, ThreadKnown
    <3>2. Orphans' = Orphans \/ Orphans' = Orphans \cup {OSTask[x].new}
      BY Zenon, <2>1 DEF RegisterChildTask
    <3> QED BY Zenon, <1>1, <3>1, <3>2 DEF ListsTyped
  <2>2. ASSUME NEW x \in TaskSlot, AppTask(x)
        PROVE  RegisterChildTask(x) \/ UNCHANGED Orphans
    BY Zenon, <2>2 DEF AppTask, EnterFunction, PollTimeout, RunLoop, ExitApp,
       ExitWithoutContext, CreateChildTask, StartChildTask, ExitChildTask, ExitChildEnd,
       TaskExit, history
  <2>3. ASSUME NEW p, AppCreate(p)
        PROVE  UNCHANGED Orphans
    BY Zenon, <2>3 DEF AppCreate, LoadModule, StartMainTask, RegisterMainTask, Finalize,
       Abandon, history
  <2>4. Background => UNCHANGED Orphans
    BY Zenon, <2>3 DEF Background, Scan, Collect, KillChild, Reap, KillMain, ModuleUnload,
       FreeRecords, Restart, Reserve, RestartRefused, history
  <2>5. UNCHANGED Orphans \/ \E x \in TaskSlot : RegisterChildTask(x)
    BY Zenon, <2>2, <2>3, <2>4 DEF Next, StartAppCmd, Reserve, ControlApp, DeleteChildTask,
       history, vars
  <2> QED BY Zenon, <1>1, <2>1, <2>5 DEF ListsTyped
<1>3. Leaked' \subseteq AppId
  <2>1. ASSUME NEW p \in Creator, StartMainTask(p)
        PROVE  Leaked' \subseteq AppId
    <3>1. create[p].id \in AppId
      BY Zenon, <1>1, <2>1 DEF StartMainTask, AppInv, CreatorsReserve, Reserves
    <3>2. Leaked' = Leaked \/ Leaked' = Leaked \cup {create[p].id}
      BY Zenon, <2>1 DEF StartMainTask
    <3> QED BY Zenon, <1>1, <3>1, <3>2 DEF ListsTyped
  <2>2. ASSUME NEW x \in TaskSlot, AppTask(x)
        PROVE  UNCHANGED Leaked
    BY Zenon, <2>2 DEF AppTask, EnterFunction, PollTimeout, RunLoop, ExitApp, RegisterChildTask,
       ExitWithoutContext, CreateChildTask, StartChildTask, ExitChildTask, ExitChildEnd,
       TaskExit, history
  <2>3. ASSUME NEW p, AppCreate(p)
        PROVE  StartMainTask(p) \/ UNCHANGED Leaked
    BY Zenon, <2>3 DEF AppCreate, LoadModule, RegisterMainTask, Finalize, Abandon, history
  <2>4. Background => UNCHANGED Leaked \/ StartMainTask("bg")
    BY Zenon, <2>3 DEF Background, Scan, Collect, KillChild, Reap, KillMain, ModuleUnload,
       FreeRecords, Restart, Reserve, RestartRefused, history
  <2>5. UNCHANGED Leaked \/ StartMainTask("es") \/ StartMainTask("bg")
    BY Zenon, <2>2, <2>3, <2>4 DEF Next, StartAppCmd, Reserve, ControlApp, DeleteChildTask,
       history, vars
  <2>6. "es" \in Creator /\ "bg" \in Creator
    BY Zenon DEF Creator
  <2> QED BY Zenon, <1>1, <2>1, <2>5, <2>6 DEF ListsTyped
<1>4. bg'.left \subseteq bg'.tasks
  <2>1. CASE bg' = bg
    BY Zenon, <1>1, <2>1 DEF ListsTyped
  <2>2. CASE bg' = NextRequest
    BY Zenon, <2>2, NextRequestCalm
  <2>3. CASE \E x : bg' = [bg EXCEPT !.pc = x]
    BY Zenon, <1>1, <2>3 DEF ListsTyped, TableScan
  <2>4. CASE \E t : bg' = [bg EXCEPT !.left = @ \ {t}]
    BY Zenon, <1>1, <2>4 DEF ListsTyped, TableScan
  <2>5. CASE \E todo, x : bg' = [bg EXCEPT !.todo = todo, !.pc = x]
    BY <1>1, <2>5 DEF ListsTyped, TableScan
  <2>6. CASE Collect
    <3>1. PICK a \in bg.todo : Collects(a)
      BY Zenon, <1>1, <2>6, CollectCollects
    <3> QED BY Zenon, <3>1 DEF Collects
  <2>7. ASSUME NEW p, AppCreate(p)
        PROVE  bg' = bg \/ bg' = NextRequest
    BY Zenon, <2>7 DEF AppCreate, LoadModule, StartMainTask, RegisterMainTask, Finalize,
       Abandon, Return
  <2>8. ASSUME NEW x \in TaskSlot, AppTask(x)
        PROVE  bg' = bg
    BY Zenon, <2>8 DEF AppTask, EnterFunction, PollTimeout, RunLoop, ExitApp, RegisterChildTask,
       ExitWithoutContext, CreateChildTask, StartChildTask, ExitChildTask, ExitChildEnd,
       TaskExit
  <2>9. KillChild => \E t : bg' = [bg EXCEPT !.left = @ \ {t}]
    BY Zenon DEF KillChild
  <2>10. Reap \/ KillMain \/ ModuleUnload \/ Restart => \E x : bg' = [bg EXCEPT !.pc = x]
    BY Zenon DEF Reap, KillMain, ModuleUnload, Restart
  <2>11. FreeRecords \/ RestartRefused => bg' = NextRequest \/ \E x : bg' = [bg EXCEPT !.pc = x]
    BY Zenon DEF FreeRecords, RestartRefused
  <2>12. (\E e \in Elapsed : Scan(e)) => \E todo, x : bg' = [bg EXCEPT !.todo = todo, !.pc = x]
    BY Zenon DEF Scan
  <2>13. Background => bg'.left \subseteq bg'.tasks
    BY Zenon, <2>1, <2>2, <2>3, <2>4, <2>5, <2>6, <2>7, <2>9, <2>10, <2>11, <2>12 DEF Background
  <2>14. ~ Background => bg' = bg \/ bg' = NextRequest
    BY Zenon, <2>7, <2>8 DEF Next, StartAppCmd, ControlApp, DeleteChildTask, vars
  <2> QED BY Zenon, <2>1, <2>2, <2>13, <2>14
<1> QED BY Zenon, <1>2, <1>3, <1>4 DEF ListsTyped

-----------------------------------------------------------------------------
(***************************************************************************)
(* The modules                                                             *)
(***************************************************************************)

\* A task record belongs to an application that is registered, or is about to
\* be.
RecordsOwned ==
    \A s \in TaskSlot, a \in AppId : TaskTable[s].id \in TaskId /\ TaskTable[s].app = a =>
        \/ AppRecordIsMatch(a)
        \/ \E p \in Creator : create[p].pc = "finalize" /\ create[p].id = a
        \/ TaskTable[s].id \in Orphans

\* The module of an application is loaded from its creation to its removal.
Loaded(a) == \E m \in Modules : m[1] = a
ModulesLoaded ==
    \A a \in AppId :
        \/ AppRecordIsMatch(a)
        \/ \E p \in Creator :
            create[p].pc \in {"task", "register", "finalize"} /\ create[p].id = a
        \/ bg.pc \in {"children", "main", "unload"} /\ bg.app = a
        => Loaded(a)

\* It is not there before and after, unless the creation left it behind.
ModulesIssued ==
    /\ \A m \in Modules : m[1] \in 1..LastAppId
    /\ \A p \in Creator : create[p].pc # "idle" => create[p].id \in 1..LastAppId
ModulesGone ==
    \A a \in AppId :
        /\ \A p \in Creator : create[p].id = a =>
            /\ create[p].pc = "load" => ~ Loaded(a)
            /\ create[p].pc = "fail" /\ Loaded(a) => a \in Leaked
        /\ bg.pc = "free" /\ bg.app = a => ~ Loaded(a)
ModulesKnown ==
    \A a \in AppId : Loaded(a) =>
        \/ AppRecordIsMatch(a)
        \/ \E p \in Creator : create[p].pc # "idle" /\ create[p].id = a
        \/ Cleaning /\ bg.app = a
        \/ a \in Leaked

ModuleInv ==
    RecordsOwned /\ ModulesLoaded /\ ModulesIssued /\ ModulesGone /\ ModulesKnown

-----------------------------------------------------------------------------
(***************************************************************************)
(* Steps that load, own and give up no module                              *)
(***************************************************************************)
\* The same applications are registered.
SameMatches == \A a \in AppId : AppRecordIsMatch(a)' <=> AppRecordIsMatch(a)

\* The creations stay on their side of loading the module and of the end.
SameCreations ==
    \A p \in Creator :
        /\ create'[p].id = create[p].id
        /\ \/ create'[p].pc = create[p].pc
           \/ /\ create[p].pc \in {"task", "register"}
              /\ create'[p].pc \in {"task", "register", "finalize"}

\* The clean-up stays on its side of unloading it.
SameRemoval ==
    \/ /\ bg'.app = bg.app
       /\ \/ bg'.pc = bg.pc
          \/ /\ bg.pc \in {"children", "main", "unload"}
             /\ bg'.pc \in {"children", "main", "unload"}
    \/ ~ Cleaning /\ ~ Cleaning'

\* Whoever registers a task registers it for an application that is known, or
\* notes that it is not.
NewRecordsOwned ==
    /\ Orphans \subseteq Orphans'
    /\ \A s \in TaskSlot, a \in AppId :
        TaskTable'[s].id \in TaskId /\ TaskTable'[s].app = a =>
            \/ TaskTable'[s] = TaskTable[s]
            \/ AppRecordIsMatch(a)'
            \/ \E p \in Creator : create'[p].pc = "finalize" /\ create'[p].id = a
            \/ TaskTable'[s].id \in Orphans'

ModuleQuiet ==
    /\ UNCHANGED <<Modules, LastAppId, Leaked>>
    /\ SameMatches /\ SameCreations /\ SameRemoval /\ NewRecordsOwned

\* Such a step keeps what is known of the modules.
LEMMA QuietModules ==
  ASSUME ModuleInv, ModuleQuiet
  PROVE  ModuleInv'
<1>1. \A a \in AppId : Loaded(a)' <=> Loaded(a)
  BY Zenon DEF ModuleQuiet, Loaded
<1>2. RecordsOwned'
  <2> SUFFICES ASSUME NEW s \in TaskSlot, NEW a \in AppId,
                      TaskTable'[s].id \in TaskId, TaskTable'[s].app = a,
                      TaskTable'[s] = TaskTable[s]
               PROVE  \/ AppRecordIsMatch(a)'
                      \/ \E p \in Creator : create'[p].pc = "finalize" /\ create'[p].id = a
                      \/ TaskTable'[s].id \in Orphans'
    BY Zenon DEF RecordsOwned, ModuleQuiet, NewRecordsOwned
  <2>1. \/ AppRecordIsMatch(a)
        \/ \E p \in Creator : create[p].pc = "finalize" /\ create[p].id = a
        \/ TaskTable[s].id \in Orphans
    BY Zenon DEF ModuleInv, RecordsOwned
  <2> QED BY ZenonT(60), <2>1 DEF ModuleQuiet, SameMatches, SameCreations, NewRecordsOwned
<1>3. \A p \in Creator, a \in AppId :
        /\ create'[p].pc \in {"task", "register", "finalize"} /\ create'[p].id = a =>
             create[p].pc \in {"task", "register", "finalize"} /\ create[p].id = a
        /\ create[p].pc # "idle" <=> create'[p].pc # "idle"
        /\ create'[p].pc \in {"load", "fail"} => create[p].pc = create'[p].pc
        /\ create'[p].id = create[p].id
  BY Zenon DEF ModuleQuiet, SameCreations
<1>4. /\ bg'.pc \in {"children", "main", "unload"} =>
             bg.pc \in {"children", "main", "unload"} /\ bg'.app = bg.app
      /\ bg'.pc = "free" => bg.pc = "free" /\ bg'.app = bg.app
      /\ Cleaning => Cleaning' /\ bg'.app = bg.app
  BY Zenon DEF ModuleQuiet, SameRemoval, Cleaning
<1>5. ModulesLoaded'
  BY Zenon, <1>1, <1>3, <1>4 DEF ModuleInv, ModulesLoaded, ModuleQuiet, SameMatches
<1>6. ModulesIssued'
  BY Zenon, <1>3 DEF ModuleInv, ModulesIssued, ModuleQuiet, SameCreations
<1>7. ModulesGone'
  BY ZenonT(60), <1>1, <1>3, <1>4 DEF ModuleInv, ModulesGone, ModuleQuiet
<1>8. ModulesKnown'
  BY Zenon, <1>1, <1>3, <1>4 DEF ModuleInv, ModulesKnown, ModuleQuiet, SameMatches
<1> QED BY Zenon, <1>2, <1>5, <1>6, <1>7, <1>8 DEF ModuleInv

\* The table of the applications decides which of them are registered.
LEMMA SameIds ==
  ASSUME \A s \in AppSlot : AppTable'[s].id = AppTable[s].id
  PROVE  SameMatches
  BY Zenon, SlotsInTable DEF SameMatches, AppRecordIsMatch, AppOf

\* A step that registers no task.
LEMMA SameRecords ==
  ASSUME UNCHANGED Orphans,
         \A s \in TaskSlot : TaskTable'[s].id \in TaskId => TaskTable'[s] = TaskTable[s]
  PROVE  NewRecordsOwned
  BY Zenon DEF NewRecordsOwned

\* The steps of the tasks that register nothing, and the commands.
LEMMA TaskModules ==
  ASSUME AppInv, TaskTypes, ModuleInv,
         \/ \E a \in 1..LastAppId, req \in {"SYS_DELETE", "SYS_RESTART"} : ControlApp(a, req)
         \/ \E t \in TaskId : DeleteChildTask(t)
         \/ \E x \in TaskSlot : AppTask(x) /\ ~ RegisterChildTask(x)
  PROVE  ModuleInv'
<1>1. UNCHANGED <<Modules, LastAppId, Leaked, create, bg, Orphans>>
  <2>1. CASE \/ \E a \in 1..LastAppId, req \in {"SYS_DELETE", "SYS_RESTART"} : ControlApp(a, req)
             \/ \E t \in TaskId : DeleteChildTask(t)
    BY Zenon, <2>1 DEF ControlApp, DeleteChildTask, osVars, history
  <2>2. ASSUME NEW x \in TaskSlot, AppTask(x), ~ RegisterChildTask(x)
        PROVE  UNCHANGED <<Modules, LastAppId, Leaked, create, bg, Orphans>>
    BY Zenon, <2>2 DEF AppTask, EnterFunction, PollTimeout, RunLoop, ExitApp,
       ExitWithoutContext, CreateChildTask, StartChildTask, ExitChildTask,
       ExitChildEnd, TaskExit, osVars, history
  <2> QED BY Zenon, <2>1, <2>2
<1>2. AppTable \in [AppSlot -> AppRecord]
  BY Zenon DEF AppInv, AppTypes
<1>3. \A s \in AppSlot : AppTable'[s].id = AppTable[s].id
  <2>1. ASSUME NEW x \in TaskSlot, RunLoop(x) \/ ExitApp(x)
        PROVE  \A s \in AppSlot : AppTable'[s].id = AppTable[s].id
    <3>1. CASE RunLoop(x)
      BY <1>2, <3>1 DEF RunLoop, AppRecord
    <3>2. CASE ExitApp(x)
      BY <1>2, <3>2 DEF ExitApp, AppRecord
    <3> QED BY Zenon, <2>1, <3>1, <3>2
  <2>2. ASSUME NEW a, NEW req, ControlApp(a, req)
        PROVE  \A s \in AppSlot : AppTable'[s].id = AppTable[s].id
    BY <1>2, <2>2 DEF ControlApp, AppRecord
  <2>3. CASE UNCHANGED AppTable
    BY Zenon, <2>3
  <2>4. ASSUME NEW x \in TaskSlot, AppTask(x), ~ RegisterChildTask(x)
        PROVE  UNCHANGED AppTable \/ RunLoop(x) \/ ExitApp(x)
    BY Zenon, <2>4 DEF AppTask, EnterFunction, PollTimeout,
       ExitWithoutContext, CreateChildTask, StartChildTask, ExitChildTask,
       ExitChildEnd, TaskExit, esVars
  <2>5. ASSUME NEW t, DeleteChildTask(t)
        PROVE  UNCHANGED AppTable
    BY Zenon, <2>5 DEF DeleteChildTask
  <2> QED BY Zenon, <2>1, <2>2, <2>3, <2>4, <2>5
<1>4. \A s \in TaskSlot : TaskTable'[s].id \in TaskId => TaskTable'[s] = TaskTable[s]
  <2>1. \/ UNCHANGED TaskTable
        \/ \E x : TaskTable' = [TaskTable EXCEPT ![x] = NoRecord]
    <3>1. ASSUME NEW x \in TaskSlot, AppTask(x), ~ RegisterChildTask(x)
          PROVE  \/ UNCHANGED TaskTable
                 \/ \E y : TaskTable' = [TaskTable EXCEPT ![y] = NoRecord]
      BY Zenon, <3>1 DEF AppTask, EnterFunction, PollTimeout, RunLoop, ExitApp,
         ExitWithoutContext, CreateChildTask, StartChildTask, ExitChildTask,
         ExitChildEnd, TaskExit, esVars
    <3> QED BY Zenon, <3>1 DEF ControlApp, DeleteChildTask
  <2>2. NoRecord.id \notin TaskId
    BY Zenon, PseudoIds DEF NoRecord
  <2> QED BY Zenon, <2>1, <2>2 DEF TaskTypes
<1>5. SameCreations /\ SameRemoval
  BY Zenon, <1>1 DEF SameCreations, SameRemoval
<1> QED BY Zenon, <1>1, <1>3, <1>4, <1>5, SameIds, SameRecords, QuietModules DEF ModuleQuiet

\* CFE_ES_StartAppTask for a child: its application may be gone.
LEMMA RegisterChildModules ==
  ASSUME AppInv, TaskTypes, TasksKnown, ModuleInv, NEW x \in TaskSlot, RegisterChildTask(x)
  PROVE  ModuleInv'
<1>1. UNCHANGED <<AppTable, Modules, LastAppId, Leaked, create, bg>>
  BY Zenon DEF RegisterChildTask
<1>2. /\ TaskTable' = [TaskTable EXCEPT ![TaskOf(OSTask[x].new)] =
                          [id |-> OSTask[x].new, app |-> OSTask[x].app]]
      /\ Orphans' = IF AppRecordIsMatch(OSTask[x].app) THEN Orphans
                    ELSE Orphans \cup {OSTask[x].new}
  BY Zenon DEF RegisterChildTask, RegisterTask
<1>3. \A s \in TaskSlot : TaskTable'[s] = TaskTable[s]
                       \/ TaskTable'[s] = [id |-> OSTask[x].new, app |-> OSTask[x].app]
  BY Zenon, <1>2 DEF TaskTypes
<1>4. SameMatches
  BY Zenon, <1>1, SameIds
<1>5. NewRecordsOwned
  <2>1. ASSUME NEW s \in TaskSlot, NEW a \in AppId, TaskTable'[s].app = a,
               TaskTable'[s] # TaskTable[s]
        PROVE  AppRecordIsMatch(a)' \/ TaskTable'[s].id \in Orphans'
    <3>1. a = OSTask[x].app /\ TaskTable'[s].id = OSTask[x].new
      BY <1>3, <2>1
    <3>2. AppRecordIsMatch(a) \/ OSTask[x].new \in Orphans'
      BY <1>2, <3>1
    <3> QED BY Zenon, <1>4, <3>1, <3>2 DEF SameMatches
  <2>2. Orphans \subseteq Orphans'
    BY Zenon, <1>2
  <2> QED BY Zenon, <2>1, <2>2 DEF NewRecordsOwned
<1>6. SameCreations /\ SameRemoval
  BY Zenon, <1>1 DEF SameCreations, SameRemoval
<1> QED BY Zenon, <1>1, <1>4, <1>5, <1>6, QuietModules DEF ModuleQuiet

\* CFE_ES_StartAppTask for a main task.
LEMMA RegisterMainModules ==
  ASSUME AppInv, TaskTypes, TasksKnown, ModuleInv, NEW p \in Creator, RegisterMainTask(p)
  PROVE  ModuleInv'
<1>1. /\ UNCHANGED <<Modules, LastAppId, Leaked, bg, Orphans>>
      /\ create[p].pc = "register" /\ create' = [create EXCEPT ![p].pc = "finalize"]
      /\ TaskTable' = [TaskTable EXCEPT ![TaskOf(create[p].task)] =
                          [id |-> create[p].task, app |-> create[p].id]]
      /\ AppTable' = [AppTable EXCEPT ![AppOf(create[p].id)].main = create[p].task]
  BY Zenon DEF RegisterMainTask, RegisterTask, osVars
<1>2. AppTable \in [AppSlot -> AppRecord] /\ create \in [Creator -> Creation]
  BY Zenon DEF AppInv, AppTypes
<1>3. /\ create'[p].pc = "finalize" /\ create'[p].id = create[p].id
      /\ \A q \in Creator : q # p => create'[q] = create[q]
  BY Zenon, <1>1, <1>2 DEF Creation
<1>4. \A s \in AppSlot : AppTable'[s].id = AppTable[s].id
  BY <1>1, <1>2 DEF AppRecord
<1>5. \A s \in TaskSlot : TaskTable'[s] = TaskTable[s]
                       \/ TaskTable'[s] = [id |-> create[p].task, app |-> create[p].id]
  BY Zenon, <1>1 DEF TaskTypes
<1>6. NewRecordsOwned
  <2>1. ASSUME NEW s \in TaskSlot, TaskTable'[s] # TaskTable[s]
        PROVE  create'[p].pc = "finalize" /\ create'[p].id = TaskTable'[s].app
    BY <1>3, <1>5, <2>1
  <2> QED BY Zenon, <1>1, <2>1 DEF NewRecordsOwned
<1>7. SameCreations /\ SameRemoval
  BY Zenon, <1>1, <1>3 DEF SameCreations, SameRemoval
<1> QED BY Zenon, <1>1, <1>4, <1>6, <1>7, SameIds, QuietModules DEF ModuleQuiet

\* The scan, and the clean-up until it unloads the module.
LEMMA BackgroundModules ==
  ASSUME AppInv, ModuleInv,
         \/ \E e \in Elapsed : Scan(e)
         \/ KillChild \/ Reap \/ KillMain \/ RestartRefused
  PROVE  ModuleInv'
<1>1. UNCHANGED <<TaskTable, Modules, LastAppId, Leaked, create, Orphans>>
  BY Zenon DEF Scan, KillChild, Reap, KillMain, RestartRefused, esVars, osVars, history
<1>2. bg \in TableScan /\ AppTable \in [AppSlot -> AppRecord]
  BY Zenon DEF AppInv, AppTypes
<1>3. CASE \E e \in Elapsed : Scan(e)
  <2>1. PICK e \in Elapsed : Scan(e)
    BY Zenon, <1>3
  <2>2. \A s \in AppSlot : AppTable'[s] = ScanRecord(s, e)
    BY Zenon, <2>1 DEF Scan
  <2>3. \A s \in AppSlot : AppTable'[s].id = AppTable[s].id
    BY ZenonT(60), <2>2, ScanRecordEffect DEF AppInv
  <2>4. ~ Cleaning /\ ~ Cleaning'
    BY Zenon, <1>2, <2>1 DEF Scan, Cleaning, TableScan
  <2>5. SameCreations /\ SameRemoval
    BY Zenon, <1>1, <2>4 DEF SameCreations, SameRemoval
  <2> QED BY Zenon, <1>1, <2>3, <2>5, SameIds, SameRecords, QuietModules DEF ModuleQuiet
<1>4. CASE KillChild \/ Reap \/ KillMain \/ RestartRefused
  <2>1. UNCHANGED AppTable
    BY Zenon, <1>4 DEF KillChild, Reap, KillMain, RestartRefused, esVars
  <2>2. SameRemoval
    <3>1. CASE RestartRefused
      <4>1. bg'.pc \in {"scan", "process"} /\ bg.pc = "restart"
        BY Zenon, <3>1, NextRequestCalm DEF RestartRefused
      <4> QED BY Zenon, <4>1 DEF SameRemoval, Cleaning
    <3>2. CASE KillChild \/ Reap \/ KillMain
      <4>1. \/ \E t \in bg.left : bg' = [bg EXCEPT !.left = @ \ {t}]
            \/ \E x \in {"children", "main", "unload"} : bg' = [bg EXCEPT !.pc = x]
        BY ZenonT(60), <3>2 DEF KillChild, Reap, KillMain
      <4>2. bg.pc \in {"children", "main", "unload"}
        BY Zenon, <3>2 DEF KillChild, Reap, KillMain
      <4>3. bg'.app = bg.app /\ bg'.pc \in {"children", "main", "unload"}
        BY Zenon, <1>2, <4>1, <4>2 DEF TableScan
      <4> QED BY Zenon, <4>2, <4>3 DEF SameRemoval
    <3> QED BY Zenon, <1>4, <3>1, <3>2
  <2>3. SameCreations
    BY Zenon, <1>1 DEF SameCreations
  <2> QED BY Zenon, <1>1, <2>1, <2>2, <2>3, SameIds, SameRecords, QuietModules DEF ModuleQuiet
<1> QED BY Zenon, <1>3, <1>4

-----------------------------------------------------------------------------
(***************************************************************************)
(* Loading, owning and unloading a module                                  *)
(***************************************************************************)
\* A creation and a clean-up are never for the same ID, nor are two creations.
LEMMA OwnersApart ==
  ASSUME AppInv, NEW p \in Creator, create[p].pc # "idle"
  PROVE  /\ create[p].id \in AppId
         /\ \A q \in Creator : q # p /\ create[q].pc # "idle" => create[q].id # create[p].id
         /\ Cleaning => bg.app # create[p].id
         /\ ~ AppRecordIsMatch(create[p].id)
         /\ p = "bg" => ~ Cleaning
<1>1. /\ create[p].id \in AppId /\ AppTable[AppOf(create[p].id)].id = RESERVED
      /\ AppTable[AppOf(create[p].id)].state = "INIT"
  BY Zenon DEF AppInv, CreatorsReserve, Reserves
<1>2. \A q \in Creator : q # p /\ create[q].pc # "idle" => create[q].id # create[p].id
  BY Zenon DEF AppInv, CreatorsReserve
<1>3. Cleaning => bg.app # create[p].id
  BY Zenon, <1>1 DEF AppInv, CleanUpReserves, Stopped
<1>4. ~ AppRecordIsMatch(create[p].id)
  BY Zenon, <1>1, PseudoIds DEF AppRecordIsMatch
<1>5. p = "bg" => ~ Cleaning
  BY Zenon DEF AppInv, CreatorsReserve, Cleaning
<1> QED BY Zenon, <1>1, <1>2, <1>3, <1>4, <1>5

\* The ID of a new application is the ID of no module.
LEMMA ReserveModules ==
  ASSUME AppInv, ModuleInv,
         \/ \E n \in Names : StartAppCmd(n)
         \/ Restart
  PROVE  ModuleInv'
<1>1. PICK p \in Creator : \E n : Reserve(p, n) /\ create[p].pc = "idle"
    /\ ((p = "es" /\ bg' = bg) \/ (p = "bg" /\ bg.pc = "restart" /\ bg' = [bg EXCEPT !.pc = "creating"]))
  <2>1. CASE \E n \in Names : StartAppCmd(n)
    BY Zenon, <2>1 DEF StartAppCmd, Creator
  <2>2. CASE Restart
    BY Zenon, <2>2 DEF Restart, Creator, AppInv, CreatorsReserve
  <2> QED BY Zenon, <2>1, <2>2
<1>2. PICK n : Reserve(p, n)
  BY Zenon, <1>1
<1>3. AppTypes /\ LastAppId \in Nat
  BY DEF AppInv, AppTypes
<1>4. PICK a \in AppId : Reserved(p, n, a)
  BY Zenon, <1>2, <1>3, ReserveEffect
<1>5. a > LastAppId
  <2>1. PICK b \in NextId(LastAppId, LastApp, MaxApps, UsedApps) : LastAppId' = b
    BY Zenon, <1>2 DEF Reserve
  <2>2. b \in LastAppId + 1..LastAppId + MaxApps /\ a = b
    BY Zenon, <1>4, <2>1 DEF NextId, Reserved
  <2> QED BY <1>3, <2>2, AppAssumption
<1>6. UNCHANGED <<TaskTable, Modules, Leaked, Orphans>>
  BY Zenon, <1>2 DEF Reserve, osVars, history
<1>7. /\ create'[p].pc = "load" /\ create'[p].id = a
      /\ \A q \in Creator : q # p => create'[q] = create[q]
  BY Zenon, <1>3, <1>4 DEF Reserved, AppTypes
<1>8. \/ bg' = bg
      \/ ~ Cleaning /\ ~ Cleaning'
  BY <1>1, <1>3 DEF Cleaning, AppTypes, TableScan
<1>9. SameMatches
  <2>1. /\ AppTable'[AppOf(a)].id = RESERVED /\ AppTable[AppOf(a)].id = FREE
        /\ \A s \in AppSlot : s # AppOf(a) => AppTable'[s] = AppTable[s]
    BY Zenon, <1>3, <1>4, SlotsInTable DEF Reserved, AppTypes, NoApp
  <2> QED BY Zenon, <2>1, SlotsInTable, PseudoIds DEF SameMatches, AppRecordIsMatch, AppOf
<1>10. ~ Loaded(a) /\ \A b \in AppId : Loaded(b)' <=> Loaded(b)
  <2>1. a \notin 1..LastAppId
    BY <1>3, <1>5 DEF AppId
  <2> QED BY Zenon, <1>6, <2>1 DEF ModuleInv, ModulesIssued, Loaded
<1>11. RecordsOwned'
  <2>1. \A q \in Creator : create[q].pc = "finalize" => create'[q] = create[q]
    BY Zenon, <1>1, <1>7
  <2>2. ASSUME NEW s \in TaskSlot, NEW b \in AppId,
               TaskTable'[s].id \in TaskId, TaskTable'[s].app = b
        PROVE  \/ AppRecordIsMatch(b)'
               \/ \E q \in Creator : create'[q].pc = "finalize" /\ create'[q].id = b
               \/ TaskTable'[s].id \in Orphans'
    BY Zenon, <1>6, <1>9, <2>1, <2>2 DEF ModuleInv, RecordsOwned, SameMatches
  <2> QED BY Zenon, <2>2 DEF RecordsOwned
<1>12. ModulesLoaded'
  BY Zenon, <1>7, <1>8, <1>9, <1>10 DEF ModuleInv, ModulesLoaded, SameMatches, Cleaning
<1>13. ModulesIssued'
  <2>1. LastAppId' = a /\ a \in 1..a /\ 1..LastAppId \subseteq 1..a
    BY <1>3, <1>4, <1>5 DEF Reserved, AppId
  <2> QED BY Zenon, <1>6, <1>7, <2>1 DEF ModuleInv, ModulesIssued
<1>14. ModulesGone'
  BY Zenon, <1>6, <1>7, <1>8, <1>10 DEF ModuleInv, ModulesGone, Cleaning
<1>15. ModulesKnown'
  BY Zenon, <1>1, <1>6, <1>7, <1>8, <1>9, <1>10 DEF ModuleInv, ModulesKnown, SameMatches, Cleaning
<1> QED BY Zenon, <1>11, <1>12, <1>13, <1>14, <1>15 DEF ModuleInv

\* CFE_ES_LoadModule: the module is there for the application that is created.
LEMMA LoadModules ==
  ASSUME AppInv, ModuleInv, NEW p \in Creator, LoadModule(p)
  PROVE  ModuleInv'
<1>1. /\ UNCHANGED <<AppTable, TaskTable, LastAppId, bg, Leaked, Orphans>>
      /\ create[p].pc = "load"
  BY Zenon DEF LoadModule, esVars, history
<1> DEFINE a == create[p].id
<1>2. /\ a \in AppId /\ ~ Loaded(a)
      /\ \A q \in Creator : q # p /\ create[q].pc # "idle" => create[q].id # a
      /\ Cleaning => bg.app # a
  BY Zenon, <1>1, OwnersApart DEF ModuleInv, ModulesGone
<1>3. create \in [Creator -> Creation]
  BY Zenon DEF AppInv, AppTypes
<1>4. PICK c \in {"task", "fail"} : create' = [create EXCEPT ![p].pc = c]
        /\ (c = "task" => Modules' = Modules \cup {<<a, create[p].name>>})
        /\ (c = "fail" => Modules' = Modules)
  BY Zenon DEF LoadModule
<1>5. /\ create'[p].pc = c /\ create'[p].id = a
      /\ \A q \in Creator : q # p => create'[q] = create[q]
  BY Zenon, <1>3, <1>4 DEF Creation
<1>6. \A b \in AppId : Loaded(b)' <=> Loaded(b) \/ (b = a /\ c = "task")
  <2>1. CASE c = "fail"
    BY Zenon, <1>4, <2>1 DEF Loaded
  <2>2. CASE c = "task"
    <3>1. <<a, create[p].name>>[1] = a
      OBVIOUS
    <3>2. Modules' = Modules \cup {<<a, create[p].name>>}
      BY Zenon, <1>4, <2>2
    <3> HIDE DEF a
    <3> QED BY Zenon, <2>2, <3>1, <3>2 DEF Loaded
  <2> QED BY Zenon, <2>1, <2>2
<1>7. SameMatches
  BY Zenon, <1>1, SameIds
<1>8. RecordsOwned'
  BY ZenonT(60), <1>1, <1>5, <1>7 DEF ModuleInv, RecordsOwned, SameMatches
<1> HIDE DEF a
<1>9. ModulesLoaded'
  BY Zenon, <1>1, <1>5, <1>6, <1>7 DEF ModuleInv, ModulesLoaded, SameMatches
<1>10. ModulesIssued'
  <2>1. a \in 1..LastAppId
    BY Zenon, <1>1 DEF ModuleInv, ModulesIssued, a
  <2>2. \A m \in Modules' : m \in Modules \/ m[1] = a
    BY <1>4 DEF a
  <2>3. \A m \in Modules' : m[1] \in 1..LastAppId
    BY Zenon, <2>1, <2>2 DEF ModuleInv, ModulesIssued
  <2> QED BY Zenon, <1>1, <1>5, <2>1, <2>3 DEF ModuleInv, ModulesIssued
<1>11. ModulesGone'
  <2>1. ASSUME NEW b \in AppId, NEW q \in Creator, create'[q].id = b
        PROVE  /\ create'[q].pc = "load" => ~ Loaded(b)'
               /\ create'[q].pc = "fail" /\ Loaded(b)' => b \in Leaked'
    <3>1. CASE q = p
      BY Zenon, <1>2, <1>4, <1>5, <1>6, <2>1, <3>1
    <3>2. CASE q # p
      BY Zenon, <1>1, <1>2, <1>5, <1>6, <2>1, <3>2 DEF ModuleInv, ModulesGone
    <3> QED BY Zenon, <3>1, <3>2
  <2>2. \A b \in AppId : bg'.pc = "free" /\ bg'.app = b => ~ Loaded(b)'
    BY Zenon, <1>1, <1>2, <1>6 DEF ModuleInv, ModulesGone, Cleaning
  <2> QED BY Zenon, <2>1, <2>2 DEF ModulesGone
<1>12. ModulesKnown'
  BY Zenon, <1>1, <1>4, <1>5, <1>6, <1>7 DEF ModuleInv, ModulesKnown, SameMatches, Cleaning, a
<1> QED BY Zenon, <1>8, <1>9, <1>10, <1>11, <1>12 DEF ModuleInv

\* CFE_ES_StartAppTask before the lock: when the task cannot be created, the
\* module is left behind.
LEMMA StartMainModules ==
  ASSUME AppInv, ModuleInv, NEW p \in Creator, StartMainTask(p)
  PROVE  ModuleInv'
<1>1. /\ UNCHANGED <<AppTable, TaskTable, LastAppId, bg, Modules, Orphans>>
      /\ create[p].pc = "task"
  BY Zenon DEF StartMainTask, esVars
<1>2. create \in [Creator -> Creation]
  BY Zenon DEF AppInv, AppTypes
<1>3. CASE \E t \in TaskId : create' = [create EXCEPT ![p].pc = "register", ![p].task = t]
                             /\ UNCHANGED Leaked
  <2>1. /\ create'[p].pc = "register" /\ create'[p].id = create[p].id
        /\ \A q \in Creator : q # p => create'[q] = create[q]
    BY <1>2, <1>3 DEF Creation
  <2>2. SameCreations /\ SameRemoval
    BY Zenon, <1>1, <2>1 DEF SameCreations, SameRemoval
  <2> QED BY Zenon, <1>1, <1>3, <2>2, SameIds, SameRecords, QuietModules DEF ModuleQuiet
<1>4. CASE create' = [create EXCEPT ![p].pc = "fail"] /\ Leaked' = Leaked \cup {create[p].id}
  <2>1. /\ create'[p].pc = "fail" /\ create'[p].id = create[p].id
        /\ \A q \in Creator : q # p => create'[q] = create[q]
    BY Zenon, <1>2, <1>4 DEF Creation
  <2>2. Leaked \subseteq Leaked' /\ create[p].id \in Leaked'
    BY Zenon, <1>4
  <2>3. SameMatches
    BY Zenon, <1>1, SameIds
  <2>4. \A b \in AppId : Loaded(b)' <=> Loaded(b)
    BY Zenon, <1>1 DEF Loaded
  <2>5. RecordsOwned'
    BY ZenonT(60), <1>1, <2>1, <2>3 DEF ModuleInv, RecordsOwned, SameMatches
  <2>6. ModulesLoaded'
    BY Zenon, <1>1, <2>1, <2>3, <2>4 DEF ModuleInv, ModulesLoaded, SameMatches
  <2>7. ModulesIssued'
    BY Zenon, <1>1, <2>1 DEF ModuleInv, ModulesIssued
  <2>8. ModulesGone'
    BY Zenon, <1>1, <2>1, <2>2, <2>4 DEF ModuleInv, ModulesGone
  <2>9. ModulesKnown'
    BY Zenon, <1>1, <2>1, <2>2, <2>3, <2>4 DEF ModuleInv, ModulesKnown, SameMatches, Cleaning
  <2> QED BY Zenon, <2>5, <2>6, <2>7, <2>8, <2>9 DEF ModuleInv
<1> QED BY Zenon, <1>3, <1>4 DEF StartMainTask

\* The last locked section of CFE_ES_AppCreate: the application is registered,
\* or the creation is given up with its module gone or left behind.
LEMMA CreateEndModules ==
  ASSUME AppInv, ModuleInv, NEW p \in Creator, Finalize(p) \/ Abandon(p)
  PROVE  ModuleInv'
<1> DEFINE a == create[p].id
           new == create[p].pc = "finalize"
<1>1. /\ UNCHANGED <<TaskTable, LastAppId, Modules, Leaked, Orphans>>
      /\ create[p].pc \in {"finalize", "fail"} /\ Return(p)
  BY Zenon DEF Finalize, Abandon, osVars, history
<1>2. /\ AppTable \in [AppSlot -> AppRecord] /\ create \in [Creator -> Creation]
      /\ bg \in TableScan
  BY Zenon DEF AppInv, AppTypes
<1>3. a \in AppId /\ AppOf(a) \in AppSlot /\ ~ AppRecordIsMatch(a) /\ (p = "bg" => ~ Cleaning)
  BY Zenon, <1>1, OwnersApart, SlotsInTable
<1>4. AppTable[AppOf(a)].id = RESERVED
  BY Zenon, <1>1 DEF AppInv, CreatorsReserve, Reserves
<1>5. /\ create'[p].pc = "idle"
      /\ \A q \in Creator : q # p => create'[q] = create[q]
  BY Zenon, <1>1, <1>2 DEF Return, NotCreating
<1>6. \/ bg' = bg
      \/ ~ Cleaning /\ ~ Cleaning'
  BY Zenon, <1>1, <1>3, NextRequestCalm DEF Return, Cleaning
<1>7. /\ \A s \in AppSlot : s # AppOf(a) => AppTable'[s] = AppTable[s]
      /\ new => AppTable'[AppOf(a)].id = a
      /\ ~ new => AppTable'[AppOf(a)].id = FREE
  <2>1. CASE Finalize(p)
    <3>1. AppTable' = [AppTable EXCEPT ![AppOf(a)].id = a] /\ new
      BY Zenon, <2>1 DEF Finalize
    <3> QED BY Zenon, <1>2, <1>3, <3>1 DEF AppRecord
  <2>2. CASE Abandon(p)
    <3>1. AppTable' = [AppTable EXCEPT ![AppOf(a)] = AppRecordSetFree(AppOf(a))] /\ ~ new
      BY Zenon, <2>2 DEF Abandon
    <3>2. AppRecordSetFree(AppOf(a)).id = FREE
      BY Zenon DEF AppRecordSetFree, NoApp
    <3> QED BY Zenon, <1>2, <1>3, <3>1, <3>2
  <2> QED BY Zenon, <2>1, <2>2
<1>8. a \in AppId /\ (new <=> create[p].pc = "finalize") /\ create[p].id = a
  BY Zenon, <1>3
<1> HIDE DEF a, new
<1>9. \A b \in AppId : AppRecordIsMatch(b)' <=> AppRecordIsMatch(b) \/ (b = a /\ new)
  <2> SUFFICES ASSUME NEW b \in AppId
               PROVE  AppTable'[AppOf(b)].id = b <=>
                        AppTable[AppOf(b)].id = b \/ (b = a /\ new)
    BY Zenon DEF AppRecordIsMatch, AppOf
  <2>1. CASE AppOf(b) = AppOf(a)
    BY Zenon, <1>4, <1>7, <2>1, PseudoIds
  <2>2. CASE AppOf(b) # AppOf(a)
    BY Zenon, <1>7, <2>2, SlotsInTable
  <2> QED BY Zenon, <2>1, <2>2
<1>10. \A b \in AppId : Loaded(b)' <=> Loaded(b)
  BY Zenon, <1>1 DEF Loaded
<1>11. RecordsOwned'
  BY ZenonT(60), <1>1, <1>5, <1>8, <1>9 DEF ModuleInv, RecordsOwned
<1>12. ModulesLoaded'
  <2>1. new => Loaded(a)
    BY Zenon, <1>8 DEF ModuleInv, ModulesLoaded
  <2> QED BY Zenon, <1>5, <1>6, <1>9, <1>10, <2>1 DEF ModuleInv, ModulesLoaded, Cleaning
<1>13. ModulesIssued'
  BY Zenon, <1>1, <1>5 DEF ModuleInv, ModulesIssued
<1>14. ModulesGone'
  BY Zenon, <1>1, <1>5, <1>6, <1>10 DEF ModuleInv, ModulesGone, Cleaning
<1>15. ModulesKnown'
  <2>1. ~ new /\ Loaded(a) => a \in Leaked
    BY Zenon, <1>1, <1>8 DEF ModuleInv, ModulesGone
  <2>2. \A b \in AppId : Cleaning /\ bg.app = b => Cleaning' /\ bg'.app = b
    BY Zenon, <1>6 DEF Cleaning
  <2> QED BY Zenon, <1>1, <1>5, <1>8, <1>9, <1>10, <2>1, <2>2 DEF ModuleInv, ModulesKnown
<1> QED BY Zenon, <1>11, <1>12, <1>13, <1>14, <1>15 DEF ModuleInv

\* The first locked section of CFE_ES_CleanUpApp: the application goes, and
\* its task records with it.
LEMMA CollectModules ==
  ASSUME AppInv, NextOnList, TaskTypes, ModuleInv, Collect
  PROVE  ModuleInv'
<1>1. UNCHANGED <<LastAppId, Modules, Leaked, Orphans, create>> /\ bg.pc = "process"
  BY Zenon DEF Collect, osVars, history
<1>2. PICK a \in bg.todo : Collects(a)
  BY Zenon, CollectCollects
<1>3. AppTable \in [AppSlot -> AppRecord] /\ a \in AppId
  BY Zenon DEF AppInv, AppTypes, TableScan
<1>4. AppRecordIsMatch(a)
  BY Zenon DEF AppInv, ListMatches, AppRecordIsMatch
<1>5. AppTable'[AppOf(a)].id = RESERVED
      /\ \A s \in AppSlot : s # AppOf(a) => AppTable'[s] = AppTable[s]
  BY Zenon, <1>2, <1>3, SlotsInTable DEF Collects, AppRecord
<1>6. \A b \in AppId : AppRecordIsMatch(b)' <=> AppRecordIsMatch(b) /\ b # a
  <2> SUFFICES ASSUME NEW b \in AppId
               PROVE  AppTable'[AppOf(b)].id = b <=> AppTable[AppOf(b)].id = b /\ b # a
    BY Zenon DEF AppRecordIsMatch, AppOf
  <2>1. CASE AppOf(b) = AppOf(a)
    BY Zenon, <1>4, <1>5, <2>1, PseudoIds DEF AppRecordIsMatch
  <2>2. CASE AppOf(b) # AppOf(a)
    BY Zenon, <1>5, <2>2, SlotsInTable
  <2> QED BY Zenon, <2>1, <2>2
<1>7. bg'.pc = "children" /\ bg'.app = a
  BY Zenon, <1>2 DEF Collects
<1>8. \A b \in AppId : Loaded(b)' <=> Loaded(b)
  BY Zenon, <1>1 DEF Loaded
<1>9. RecordsOwned'
  <2>1. ASSUME NEW s \in TaskSlot, TaskTable'[s].id \in TaskId
        PROVE  TaskTable'[s] = TaskTable[s] /\ TaskTable[s].app # a
    <3>1. CASE s \in Owned(a)
      <4>1. TaskTable'[s] = [TaskTable[s] EXCEPT !.id = RESERVED]
        BY Zenon, <1>2, <3>1 DEF Collects
      <4>2. TaskTable'[s].id = RESERVED
        BY Zenon, <4>1 DEF TaskTypes, TaskRecord
      <4> QED BY Zenon, <2>1, <4>2, PseudoIds
    <3>2. CASE s \notin Owned(a)
      <4>1. TaskTable'[s] = TaskTable[s]
        BY Zenon, <1>2, <3>2 DEF Collects
      <4> QED BY Zenon, <2>1, <3>2, <4>1, PseudoIds DEF Owned, TaskRecordIsUsed
    <3> QED BY Zenon, <3>1, <3>2
  <2> QED BY Zenon, <1>1, <1>6, <2>1 DEF ModuleInv, RecordsOwned
<1>10. Loaded(a)
  BY Zenon, <1>3, <1>4 DEF ModuleInv, ModulesLoaded
<1>11. ModulesLoaded'
  BY Zenon, <1>1, <1>6, <1>7, <1>8, <1>10 DEF ModuleInv, ModulesLoaded
<1>12. ModulesIssued'
  BY Zenon, <1>1 DEF ModuleInv, ModulesIssued
<1>13. ModulesGone'
  BY Zenon, <1>1, <1>7, <1>8 DEF ModuleInv, ModulesGone
<1>14. ModulesKnown'
  BY Zenon, <1>1, <1>6, <1>7, <1>8 DEF ModuleInv, ModulesKnown, Cleaning
<1> QED BY Zenon, <1>9, <1>11, <1>12, <1>13, <1>14 DEF ModuleInv

\* OS_ModuleUnload, when the tasks of the clean-up are deleted.
LEMMA UnloadModules ==
  ASSUME AppInv, ModuleInv, ModuleUnload
  PROVE  ModuleInv'
<1>1. /\ UNCHANGED <<AppTable, TaskTable, LastAppId, Leaked, Orphans, create>>
      /\ bg.pc = "unload" /\ Modules' = {m \in Modules : m[1] # bg.app}
      /\ bg' = [bg EXCEPT !.pc = "free"]
  BY Zenon DEF ModuleUnload, esVars, history
<1>2. bg'.pc = "free" /\ bg'.app = bg.app
  BY Zenon, <1>1 DEF AppInv, AppTypes, TableScan
<1>3. Cleaning /\ bg.app \in AppId
  BY Zenon, <1>1 DEF AppInv, CleanUpReserves, Cleaning
<1>4. \A b \in AppId : b = bg.app =>
        /\ ~ AppRecordIsMatch(b)
        /\ \A p \in Creator : create[p].pc # "idle" => create[p].id # b
  <2>1. AppTable[AppOf(bg.app)].id = RESERVED
    BY Zenon, <1>3 DEF AppInv, CleanUpReserves
  <2>2. \A p \in Creator : create[p].pc # "idle" => create[p].id # bg.app
    BY Zenon, <1>3, OwnersApart
  <2> QED BY Zenon, <2>1, <2>2, PseudoIds DEF AppRecordIsMatch
<1>5. \A b \in AppId : Loaded(b)' <=> Loaded(b) /\ b # bg.app
  BY Zenon, <1>1 DEF Loaded
<1>6. SameMatches
  BY Zenon, <1>1, SameIds
<1>7. RecordsOwned'
  BY Zenon, <1>1, <1>6 DEF ModuleInv, RecordsOwned, SameMatches
<1>8. ModulesLoaded'
  BY Zenon, <1>1, <1>2, <1>4, <1>5, <1>6 DEF ModuleInv, ModulesLoaded, SameMatches
<1>9. ModulesIssued'
  BY Zenon, <1>1 DEF ModuleInv, ModulesIssued
<1>10. ModulesGone'
  BY Zenon, <1>1, <1>2, <1>5 DEF ModuleInv, ModulesGone
<1>11. ModulesKnown'
  BY Zenon, <1>1, <1>2, <1>5, <1>6 DEF ModuleInv, ModulesKnown, SameMatches, Cleaning
<1> QED BY Zenon, <1>7, <1>8, <1>9, <1>10, <1>11 DEF ModuleInv

\* The last locked section of CFE_ES_CleanUpApp: the module is gone.
LEMMA FreeModules ==
  ASSUME AppInv, TaskTypes, ModuleInv, FreeRecords
  PROVE  ModuleInv'
<1>1. /\ UNCHANGED <<LastAppId, Modules, Leaked, Orphans, create>>
      /\ bg.pc = "free" /\ Cleaning
  BY Zenon DEF FreeRecords, osVars, history, Cleaning
<1>2. /\ AppTable \in [AppSlot -> AppRecord] /\ bg \in TableScan /\ bg.app \in AppId
      /\ AppTable[AppOf(bg.app)].id = RESERVED
  BY Zenon, <1>1 DEF AppInv, AppTypes, CleanUpReserves
<1>3. ~ Cleaning'
  <2>1. CASE bg' = [bg EXCEPT !.pc = "restart"]
    BY Zenon, <1>2, <2>1 DEF Cleaning, TableScan
  <2>2. CASE bg' = NextRequest
    BY Zenon, <2>2, NextRequestCalm DEF Cleaning
  <2> QED BY Zenon, <2>1, <2>2 DEF FreeRecords
<1>4. \A s \in AppSlot : s # AppOf(bg.app) => AppTable'[s] = AppTable[s]
  BY Zenon, <1>2 DEF FreeRecords
<1>5. AppTable'[AppOf(bg.app)].id = FREE
  <2>1. AppTable'[AppOf(bg.app)] = AppRecordSetFree(AppOf(bg.app))
    BY Zenon, <1>2, SlotsInTable DEF FreeRecords
  <2> QED BY Zenon, <2>1 DEF AppRecordSetFree, NoApp
<1>6. SameMatches
  <2> SUFFICES ASSUME NEW b \in AppId
               PROVE  AppTable'[AppOf(b)].id = b <=> AppTable[AppOf(b)].id = b
    BY Zenon DEF SameMatches, AppRecordIsMatch, AppOf
  <2>1. CASE AppOf(b) = AppOf(bg.app)
    BY Zenon, <1>2, <1>5, <2>1, PseudoIds
  <2>2. CASE AppOf(b) # AppOf(bg.app)
    BY Zenon, <1>4, <2>2, SlotsInTable
  <2> QED BY Zenon, <2>1, <2>2
<1>7. \A s \in TaskSlot : TaskTable'[s].id \in TaskId => TaskTable'[s] = TaskTable[s]
  <2>1. NoRecord.id \notin TaskId
    BY Zenon, PseudoIds DEF NoRecord
  <2> QED BY Zenon, <2>1 DEF FreeRecords
<1>8. \A b \in AppId : Loaded(b)' <=> Loaded(b)
  BY Zenon, <1>1 DEF Loaded
<1>9. RecordsOwned'
  BY Zenon, <1>1, <1>6, <1>7 DEF ModuleInv, RecordsOwned, SameMatches
<1>10. ModulesLoaded'
  BY Zenon, <1>1, <1>3, <1>6, <1>8 DEF ModuleInv, ModulesLoaded, SameMatches, Cleaning
<1>11. ModulesIssued'
  BY Zenon, <1>1 DEF ModuleInv, ModulesIssued
<1>12. ModulesGone'
  BY Zenon, <1>1, <1>3, <1>8 DEF ModuleInv, ModulesGone, Cleaning
<1>13. ModulesKnown'
  <2>1. \A b \in AppId : b = bg.app => ~ Loaded(b)
    BY Zenon, <1>1 DEF ModuleInv, ModulesGone
  <2> QED BY Zenon, <1>1, <1>6, <1>8, <2>1 DEF ModuleInv, ModulesKnown, SameMatches
<1> QED BY Zenon, <1>9, <1>10, <1>11, <1>12, <1>13 DEF ModuleInv

-----------------------------------------------------------------------------
\* Nothing is loaded when the ES starts.
LEMMA ModuleInit == Init => ModuleInv
<1> SUFFICES ASSUME Init
             PROVE  ModuleInv
  OBVIOUS
<1>1. /\ Modules = {} /\ \A s \in TaskSlot : TaskTable[s].id \notin TaskId
      /\ \A p \in Creator : create[p].pc = "idle"
      /\ bg.pc = "scan"
  BY Zenon, PseudoIds DEF Init, NoRecord, NotCreating, Idle
<1>2. \A a \in AppId : ~ AppRecordIsMatch(a) /\ ~ Loaded(a)
  <2>1. \A s \in AppSlot : AppTable[s].id = FREE
    BY Zenon DEF Init, NoApp
  <2> QED BY Zenon, <1>1, <2>1, SlotsInTable, PseudoIds DEF AppRecordIsMatch, Loaded
<1>3. RecordsOwned /\ ModulesLoaded /\ ModulesIssued
  BY Zenon, <1>1, <1>2 DEF RecordsOwned, ModulesLoaded, ModulesIssued
<1>4. ModulesGone /\ ModulesKnown
  BY Zenon, <1>1, <1>2 DEF ModulesGone, ModulesKnown
<1> QED BY Zenon, <1>3, <1>4 DEF ModuleInv

\* Every step keeps what is known of the modules.
LEMMA ModuleStep ==
  ASSUME IInv, NextOnList, ModuleInv, [Next]_vars
  PROVE  ModuleInv'
<1>1. AppInv /\ TaskTypes /\ TasksKnown
  BY Zenon DEF IInv
<1>2. ASSUME NEW p \in Creator, AppCreate(p)
      PROVE  ModuleInv'
  BY Zenon, <1>1, <1>2, LoadModules, StartMainModules, RegisterMainModules,
     CreateEndModules DEF AppCreate
<1>3. ASSUME NEW x \in TaskSlot, AppTask(x)
      PROVE  ModuleInv'
  BY Zenon, <1>1, <1>3, TaskModules, RegisterChildModules
<1>4. CASE \/ \E n \in Names : StartAppCmd(n)
           \/ Restart
  BY Zenon, <1>1, <1>4, ReserveModules
<1>5. CASE \/ \E a \in 1..LastAppId, req \in {"SYS_DELETE", "SYS_RESTART"} : ControlApp(a, req)
           \/ \E t \in TaskId : DeleteChildTask(t)
  BY Zenon, <1>1, <1>5, TaskModules
<1>6. CASE \/ \E e \in Elapsed : Scan(e)
           \/ KillChild \/ Reap \/ KillMain \/ RestartRefused
  BY Zenon, <1>1, <1>6, BackgroundModules
<1>7. CASE Collect \/ ModuleUnload \/ FreeRecords
  BY Zenon, <1>1, <1>7, CollectModules, UnloadModules, FreeModules
<1>8. CASE UNCHANGED vars
  <2>1. UNCHANGED <<AppTable, TaskTable, LastAppId, Modules, create, bg, Orphans, Leaked>>
    BY Zenon, <1>8 DEF vars, esVars, osVars, history
  <2>2. SameCreations /\ SameRemoval /\ SameMatches /\ NewRecordsOwned
    BY Zenon, <2>1, SameIds, SameRecords DEF SameCreations, SameRemoval
  <2> QED BY Zenon, <2>1, <2>2, QuietModules DEF ModuleQuiet
<1>9. "es" \in Creator /\ "bg" \in Creator
  BY Zenon DEF Creator
<1> QED BY Zenon, <1>2, <1>3, <1>4, <1>5, <1>6, <1>7, <1>8, <1>9 DEF Next, Background

-----------------------------------------------------------------------------
(***************************************************************************)
(* A restart is kept                                                       *)
(***************************************************************************)
\* What RestartKept asks of slot s in a step.
KeptIn(s) ==
    AppTable[s].id \in AppId /\ AppTable[s].req = "SYS_RESTART" =>
        IF AppTable'[s].id = AppTable[s].id
        THEN AppTable'[s].req \in {"SYS_RESTART", "SYS_DELETE"}
        ELSE bg'.app = AppTable[s].id /\ bg'.req = "SYS_RESTART"

\* A step that changes the record of slot k only, and this one is not a
\* registered application's, forgets no restart.
LEMMA OtherSlots ==
  ASSUME NEW k, AppTable[k].id \notin AppId,
         \A s \in AppSlot : s # k => AppTable'[s] = AppTable[s]
  PROVE  \A s \in AppSlot : KeptIn(s)
  BY Zenon DEF KeptIn

\* No step forgets a restart.
LEMMA RestartStep ==
  ASSUME IInv, NextOnList, Next
  PROVE  \A s \in AppSlot : KeptIn(s)
<1> USE SlotsInTable, PseudoIds
<1>1. /\ AppInv /\ TaskTypes /\ TasksKnown /\ AppTypes
      /\ AppTable \in [AppSlot -> AppRecord] /\ LastAppId \in 0..LastApp
  BY Zenon DEF IInv, AppInv, AppTypes
<1>2. CASE UNCHANGED AppTable
  BY Zenon, <1>2 DEF KeptIn
<1>3. ASSUME NEW p, NEW n, Reserve(p, n)
      PROVE  \A s \in AppSlot : KeptIn(s)
  <2>1. LastAppId \in Nat
    BY <1>1
  <2>2. PICK a \in AppId : Reserved(p, n, a)
    BY Zenon, <1>3, <2>1, ReserveEffect
  <2>3. /\ AppTable[AppOf(a)].id = FREE
        /\ \A s \in AppSlot : s # AppOf(a) => AppTable'[s] = AppTable[s]
    BY Zenon, <1>1, <2>2 DEF Reserved
  <2> QED BY Zenon, <2>3, OtherSlots
<1>4. ASSUME NEW p \in Creator, AppCreate(p)
      PROVE  \A s \in AppSlot : KeptIn(s)
  <2> DEFINE k == AppOf(create[p].id)
  <2>1. CASE RegisterMainTask(p) \/ Finalize(p) \/ Abandon(p)
    <3>1. k \in AppSlot /\ AppTable[k].id = RESERVED
      BY Zenon, <1>1, <2>1
         DEF RegisterMainTask, Finalize, Abandon, AppInv, CreatorsReserve,
             Reserves
    <3>2. \E r : AppTable' = [AppTable EXCEPT ![k] = r]
      BY Zenon, <1>1, <2>1, <3>1 DEF RegisterMainTask, Finalize, Abandon
    <3> HIDE DEF k
    <3>3. \A s \in AppSlot : s # k => AppTable'[s] = AppTable[s]
      BY Zenon, <1>1, <3>1, <3>2
    <3> QED BY Zenon, <3>1, <3>3, OtherSlots
  <2>2. CASE LoadModule(p) \/ StartMainTask(p)
    <3>1. UNCHANGED AppTable
      BY Zenon, <2>2 DEF LoadModule, StartMainTask, esVars
    <3> QED BY Zenon, <1>2, <3>1
  <2> QED BY Zenon, <1>4, <2>1, <2>2 DEF AppCreate
<1>5. ASSUME NEW a \in 1..LastAppId, NEW req \in {"SYS_DELETE", "SYS_RESTART"},
             ControlApp(a, req)
      PROVE  \A s \in AppSlot : KeptIn(s)
  <2>1. AppOf(a) \in AppSlot
    BY <1>1, AppAssumption DEF AppId
  <2>2. AppTable' = [AppTable EXCEPT ![AppOf(a)].req = req]
    BY Zenon, <1>5 DEF ControlApp
  <2> QED BY <1>1, <2>1, <2>2 DEF KeptIn
<1>6. ASSUME NEW x \in TaskSlot, AppTask(x)
      PROVE  \A s \in AppSlot : KeptIn(s)
  <2> DEFINE k == AppOf(TaskTable[x].app)
  <2>1. k \in AppSlot
    BY Zenon, <1>1 DEF TaskTypes, TaskRecord
  <2>2. CASE AppTable' = [AppTable EXCEPT ![k].state = "RUNNING"]
    <3> HIDE DEF k
    <3> QED BY <1>1, <2>1, <2>2 DEF KeptIn
  <2>3. CASE AppTable' = [AppTable EXCEPT ![k].state = "STOPPED",
                    ![k].req = IF @ = "APP_RUN" THEN "APP_EXIT" ELSE @]
    <3> HIDE DEF k
    <3>1. \A s \in AppSlot :
            /\ AppTable'[s].id = AppTable[s].id
            /\ AppTable[s].req = "SYS_RESTART" => AppTable'[s].req = "SYS_RESTART"
      BY <1>1, <2>1, <2>3
    <3> QED BY Zenon, <3>1 DEF KeptIn
  <2>4. \/ UNCHANGED AppTable
        \/ AppTable' = [AppTable EXCEPT ![k].state = "RUNNING"]
        \/ AppTable' = [AppTable EXCEPT ![k].state = "STOPPED",
                    ![k].req = IF @ = "APP_RUN" THEN "APP_EXIT" ELSE @]
    BY Zenon, <1>6
       DEF AppTask, EnterFunction, PollTimeout, ExitWithoutContext, RunLoop,
           ExitApp, CreateChildTask, StartChildTask, RegisterChildTask,
           ExitChildTask, ExitChildEnd, TaskExit, esVars
  <2> QED BY Zenon, <1>2, <2>2, <2>3, <2>4
<1>7. ASSUME NEW e \in Elapsed, Scan(e)
      PROVE  \A s \in AppSlot : KeptIn(s)
  <2>1. AppTable' = [s \in AppSlot |-> ScanRecord(s, e)]
    BY Zenon, <1>7 DEF Scan
  <2> QED BY Zenon, <1>1, <2>1, ScanRecordEffect DEF KeptIn
<1>8. CASE Collect
  <2>1. PICK a \in bg.todo :
            /\ AppTable' = [AppTable EXCEPT ![AppOf(a)].id = RESERVED]
            /\ bg'.app = a /\ bg'.req = AppTable[AppOf(a)].req
    BY Zenon, <1>1, <1>8, CollectEffect
  <2> DEFINE k == AppOf(a)
  <2>2. k \in AppSlot /\ AppTable[k].id = a
    BY Zenon, <1>1 DEF AppTypes, AppInv, ListMatches, TableScan
  <2>3. /\ AppTable' = [AppTable EXCEPT ![k].id = RESERVED]
        /\ bg'.app = a /\ bg'.req = AppTable[k].req
    BY Zenon, <2>1
  <2> HIDE DEF k
  <2>4. \A s \in AppSlot : s # k => AppTable'[s] = AppTable[s]
    BY Zenon, <1>1, <2>2, <2>3
  <2>5. AppTable'[k].id = RESERVED
    BY SMTT(60), <1>1, <2>2, <2>3
  <2> QED BY Zenon, <2>2, <2>3, <2>4, <2>5 DEF KeptIn
<1>9. CASE FreeRecords
  <2> DEFINE k == AppOf(bg.app)
  <2>1. k \in AppSlot /\ AppTable[k].id = RESERVED
    BY Zenon, <1>1, <1>9 DEF FreeRecords, AppInv, CleanUpReserves, Cleaning
  <2>2. AppTable' = [AppTable EXCEPT ![k] = AppRecordSetFree(k)]
    BY Zenon, <1>1, <1>9, <2>1 DEF FreeRecords
  <2> HIDE DEF k
  <2>3. \A s \in AppSlot : s # k => AppTable'[s] = AppTable[s]
    BY Zenon, <1>1, <2>1, <2>2
  <2> QED BY Zenon, <2>1, <2>3, OtherSlots
<1>10. CASE \/ \E t \in TaskId : DeleteChildTask(t)
            \/ KillChild \/ Reap \/ KillMain \/ ModuleUnload \/ RestartRefused
  <2>1. UNCHANGED AppTable
    BY Zenon, <1>10
       DEF DeleteChildTask, KillChild, Reap, KillMain, ModuleUnload,
           RestartRefused, esVars
  <2> QED BY Zenon, <1>2, <2>1
<1>11. CASE (\E n \in Names : StartAppCmd(n)) \/ Restart
  BY Zenon, <1>3, <1>11 DEF StartAppCmd, Restart
<1>12. "es" \in Creator /\ "bg" \in Creator
  BY Zenon DEF Creator
<1> QED BY Zenon, <1>4, <1>5, <1>6, <1>7, <1>8, <1>9, <1>10, <1>11, <1>12
        DEF Next, Background

-----------------------------------------------------------------------------
(***************************************************************************)
(* The task records, behind LiveRegistered and ModulesMatch.  On top of    *)
(* IInv the proof needs to know which task IDs are still to be registered  *)
(* (they are in no record and on no list), what the clean-up has put on    *)
(* its list of tasks, and whom a task record belongs to.  TaskStep says    *)
(* that every step keeps this, TaskInv.                                    *)
(***************************************************************************)
\* The task IDs OSAL has issued.
Issued == 1..LastTaskId

\* A task and a record are in the slot of their ID, and every ID the ES knows
\* was issued.
RecordsPlaced ==
    \A s \in TaskSlot : TaskTable[s].id \in TaskId =>
        TaskOf(TaskTable[s].id) = s /\ TaskTable[s].id \in Issued
ThreadsPlaced ==
    \A s \in TaskSlot :
        /\ OSTask[s].id = FREE <=> OSTask[s].pc = "none"
        /\ OSTask[s].id \in TaskId => TaskOf(OSTask[s].id) = s /\ OSTask[s].id \in Issued
ListsIssued == bg.tasks \subseteq Issued /\ Overwritten \subseteq Issued

\* The tasks that CFE_ES_StartAppTask has created and not registered yet: no
\* record has the ID, and the task still polls for its record.
Unknown(t) ==
    /\ t \in Issued /\ t \notin bg.tasks /\ t \notin Overwritten
    /\ \A s \in TaskSlot : TaskTable[s].id # t
    /\ \A s \in InFunction : OSTask[s].id # t
MainAwaits(p) == create[p].pc = "register"
ChildAwaits(s) == OSTask[s].pc = "register"
AwaitedUnknown ==
    /\ \A p \in Creator, t \in TaskId : MainAwaits(p) /\ create[p].task = t => Unknown(t)
    /\ \A s \in TaskSlot, t \in TaskId : ChildAwaits(s) /\ OSTask[s].new = t => Unknown(t)
AwaitedOnce ==
    /\ \A p, q \in Creator :
        MainAwaits(p) /\ MainAwaits(q) /\ create[p].task = create[q].task => p = q
    /\ \A s, x \in TaskSlot :
        ChildAwaits(s) /\ ChildAwaits(x) /\ OSTask[s].new = OSTask[x].new => s = x
    /\ \A p \in Creator, s \in TaskSlot :
        MainAwaits(p) /\ ChildAwaits(s) => create[p].task # OSTask[s].new

\* What CFE_ES_CleanUpApp does with its list: the tasks on it have no record
\* any more, the RESERVED records are theirs, and those of them that still
\* execute are yet to be deleted.
ListedGone ==
    \A t \in bg.tasks : \A s \in TaskSlot : TaskTable[s].id # t
ReservedListed ==
    \A s \in TaskSlot : TaskTable[s].id = RESERVED =>
        Cleaning /\ \E t \in bg.tasks : TaskOf(t) = s
ToDelete(t) ==
    \/ bg.pc = "children" /\ t \in bg.left
    \/ bg.pc \in {"children", "main"} /\ t = MainTask
ListedDeleted ==
    Cleaning => \A s \in InFunction, t \in bg.tasks : OSTask[s].id = t => ToDelete(t)

\* An overwritten task has no record.
OverwrittenGone ==
    \A t \in Overwritten : \A s \in TaskSlot : TaskTable[s].id # t

\* A task executes for the application of its record.
AppsAgree ==
    \A s \in InFunction : TaskContext(s) => OSTask[s].app = TaskTable[s].app

TaskInv ==
    /\ LastTaskId \in 0..LastTask
    /\ RecordsPlaced /\ ThreadsPlaced /\ ListsIssued /\ AwaitedUnknown
    /\ AwaitedOnce /\ ListedGone /\ ReservedListed /\ ListedDeleted
    /\ OverwrittenGone /\ AppsAgree /\ LiveRegistered

-----------------------------------------------------------------------------
(***************************************************************************)
(* Steps that create, register and remove no task                          *)
(***************************************************************************)
\* No task starts to execute, to wait for a registration or to exist.
CalmThread(s) ==
    /\ s \in InFunction' =>
        s \in InFunction /\ OSTask'[s].id = OSTask[s].id /\ OSTask'[s].app = OSTask[s].app
    /\ ChildAwaits(s)' => ChildAwaits(s) /\ OSTask'[s].new = OSTask[s].new
    /\ OSTask'[s].id = FREE <=> OSTask'[s].pc = "none"
    /\ OSTask'[s].id \in {OSTask[s].id, FREE}
CalmThreads == \A s \in TaskSlot : CalmThread(s)

\* No creation starts to wait for a registration.
CalmMains ==
    \A p \in Creator :
        MainAwaits(p)' => MainAwaits(p) /\ create'[p].task = create[p].task

\* No task of an application starts to wait for one.
CalmChildren ==
    \A s \in TaskSlot :
        ChildAwaits(s)' => ChildAwaits(s) /\ OSTask'[s].new = OSTask[s].new

\* No clean-up begins or ends, and one that goes on deletes what it lets go.
CalmCleanUp ==
    /\ Cleaning' <=> Cleaning
    /\ bg'.tasks \subseteq bg.tasks
    /\ Cleaning =>
        /\ bg'.tasks = bg.tasks /\ bg'.app = bg.app
        /\ \A s \in InFunction', t \in bg.tasks :
            OSTask[s].id = t /\ ToDelete(t) => ToDelete(t)'

\* No record gets an ID.
NoNewRecord ==
    \A s \in TaskSlot : TaskTable'[s].id \in TaskId => TaskTable'[s] = TaskTable[s]

\* IDs that were issued are IDs.
LEMMA IssuedIds ==
  ASSUME LastTaskId \in 0..LastTask
  PROVE  Issued \subseteq TaskId
  BY AppAssumption DEF Issued, TaskId

\* Each task that waits for its registration waits for one.
LEMMA CalmOnce ==
  ASSUME AwaitedOnce, CalmMains, CalmChildren
  PROVE  AwaitedOnce'
<1>1. \A p \in Creator : MainAwaits(p)' => MainAwaits(p) /\ create'[p].task = create[p].task
  BY Zenon DEF CalmMains
<1>2. \A s \in TaskSlot : ChildAwaits(s)' => ChildAwaits(s) /\ OSTask'[s].new = OSTask[s].new
  BY Zenon DEF CalmChildren
<1>3. \A p, q \in Creator :
          MainAwaits(p)' /\ MainAwaits(q)' /\ create'[p].task = create'[q].task => p = q
  BY Zenon, <1>1 DEF AwaitedOnce
<1>4. \A s, x \in TaskSlot :
          ChildAwaits(s)' /\ ChildAwaits(x)' /\ OSTask'[s].new = OSTask'[x].new => s = x
  BY Zenon, <1>2 DEF AwaitedOnce
<1>5. \A p \in Creator, s \in TaskSlot :
          MainAwaits(p)' /\ ChildAwaits(s)' => create'[p].task # OSTask'[s].new
  BY ZenonT(60), <1>1, <1>2 DEF AwaitedOnce
<1> QED BY Zenon, <1>3, <1>4, <1>5 DEF AwaitedOnce

\* The tasks that wait for their registration stay unknown.
LEMMA CalmAwaited ==
  ASSUME AwaitedUnknown, AwaitedOnce, CalmThreads, CalmMains, NoNewRecord,
         UNCHANGED <<LastTaskId, Overwritten>>, bg'.tasks \subseteq bg.tasks
  PROVE  AwaitedUnknown' /\ AwaitedOnce'
<1>1. ASSUME NEW t \in TaskId, Unknown(t)
      PROVE  Unknown(t)'
  <2>1. \A s \in TaskSlot : TaskTable'[s].id # t
    BY Zenon, <1>1 DEF Unknown, NoNewRecord
  <2>2. \A s \in InFunction' : OSTask'[s].id # t
    <3>1. \A s \in InFunction' : s \in TaskSlot
      BY Zenon DEF InFunction
    <3> QED BY Zenon, <1>1, <3>1 DEF Unknown, CalmThreads, CalmThread
  <2> QED BY Zenon, <1>1, <2>1, <2>2 DEF Unknown, Issued
<1>2. AwaitedUnknown'
  BY Zenon, <1>1 DEF AwaitedUnknown, CalmMains, CalmThreads, CalmThread
<1>3. CalmChildren
  BY Zenon DEF CalmChildren, CalmThreads, CalmThread
<1> QED BY Zenon, <1>2, <1>3, CalmOnce

\* What such a step keeps of the tasks' places.
LEMMA CalmPlaces ==
  ASSUME LastTaskId \in 0..LastTask, RecordsPlaced, ThreadsPlaced, ListsIssued,
         OverwrittenGone, CalmThreads, NoNewRecord, UNCHANGED <<LastTaskId, Overwritten>>,
         bg'.tasks \subseteq bg.tasks
  PROVE  RecordsPlaced' /\ ThreadsPlaced' /\ ListsIssued' /\ OverwrittenGone'
<1>1. RecordsPlaced'
  BY Zenon DEF RecordsPlaced, NoNewRecord, Issued, TaskOf
<1>2. ThreadsPlaced'
  BY Zenon, PseudoIds DEF ThreadsPlaced, CalmThreads, CalmThread, Issued, TaskOf
<1>3. ListsIssued'
  BY Zenon DEF ListsIssued, Issued
<1>4. OverwrittenGone'
  <2>1. Overwritten \subseteq TaskId
    BY Zenon, IssuedIds DEF ListsIssued
  <2> QED BY Zenon, <2>1 DEF OverwrittenGone, NoNewRecord
<1> QED BY Zenon, <1>1, <1>2, <1>3, <1>4

\* The step leaves the records alone as well.
CalmStep ==
    /\ CalmThreads /\ CalmMains /\ CalmCleanUp
    /\ UNCHANGED <<TaskTable, LastTaskId, Overwritten>>

\* Such a step keeps the invariant: nobody gets or gives up a task record.
LEMMA CalmTasks ==
  ASSUME TaskInv, CalmStep
  PROVE  TaskInv'
<1>1. /\ NoNewRecord /\ CalmThreads /\ CalmMains /\ CalmCleanUp
      /\ UNCHANGED <<TaskTable, LastTaskId, Overwritten>>
      /\ bg'.tasks \subseteq bg.tasks
  BY Zenon DEF CalmStep, CalmCleanUp, NoNewRecord
<1>2. LastTaskId' \in 0..LastTask
  BY Zenon, <1>1 DEF TaskInv
<1>3. RecordsPlaced' /\ ThreadsPlaced' /\ ListsIssued' /\ OverwrittenGone'
  BY Zenon, <1>1, CalmPlaces DEF TaskInv
<1>4. AwaitedUnknown' /\ AwaitedOnce'
  BY Zenon, <1>1, CalmAwaited DEF TaskInv
<1>5. ListedGone'
  BY Zenon, <1>1 DEF TaskInv, ListedGone
<1>6. ReservedListed'
  BY Zenon, <1>1 DEF TaskInv, ReservedListed, CalmCleanUp, TaskOf
<1>7. \A s \in InFunction' : s \in TaskSlot
  BY Zenon DEF InFunction
<1>8. \A s \in InFunction' :
        s \in InFunction /\ OSTask'[s].id = OSTask[s].id /\ OSTask'[s].app = OSTask[s].app
  BY Zenon, <1>1, <1>7 DEF CalmThreads, CalmThread
<1>9. ListedDeleted'
  BY Zenon, <1>1, <1>8 DEF TaskInv, ListedDeleted, CalmCleanUp
<1>10. AppsAgree'
  BY Zenon, <1>1, <1>8 DEF TaskInv, AppsAgree, TaskContext
<1>11. LiveRegistered'
  BY Zenon, <1>1, <1>8 DEF TaskInv, LiveRegistered, TaskContext, CalmCleanUp
<1> QED BY Zenon, <1>2, <1>3, <1>4, <1>5, <1>6, <1>9, <1>10, <1>11 DEF TaskInv

\* A step that leaves the background task alone, or takes it from one place
\* outside of a clean-up to another.
LEMMA SameCleanUp ==
  ASSUME UNCHANGED bg, Cleaning => MainTask' = MainTask
  PROVE  CalmCleanUp
<1>1. Cleaning' <=> Cleaning
  BY Zenon DEF Cleaning
<1>2. Cleaning => \A t : ToDelete(t) => ToDelete(t)'
  BY Zenon DEF ToDelete
<1> QED BY Zenon, <1>1, <1>2 DEF CalmCleanUp

\* A step of the background task that is outside CFE_ES_CleanUpApp.
LEMMA NoCleanUp ==
  ASSUME ~ Cleaning, ~ Cleaning', bg'.tasks \subseteq bg.tasks
  PROVE  CalmCleanUp
  BY Zenon DEF CalmCleanUp

\* A step that leaves the tasks alone.
LEMMA SameThreads ==
  ASSUME TaskInv, UNCHANGED OSTask
  PROVE  CalmThreads
  BY Zenon DEF TaskInv, ThreadsPlaced, CalmThreads, CalmThread, InFunction, ChildAwaits

\* A creation moves on, to anywhere but before the registration.
LEMMA OneCreator ==
  ASSUME create \in [Creator -> Creation], NEW p \in Creator, NEW r,
         create' = [create EXCEPT ![p] = r], r.pc # "register"
  PROVE  CalmMains
  BY Zenon DEF CalmMains, MainAwaits

\* CFE_ES_AppCreate where it registers no task.
LEMMA CreateCalm ==
  ASSUME AppInv, TaskInv, NEW p \in Creator,
         LoadModule(p) \/ Finalize(p) \/ Abandon(p)
  PROVE  CalmStep
<1>1. create \in [Creator -> Creation] /\ create[p] \in Creation
  BY Zenon DEF AppInv, AppTypes
<1>2. create[p].pc # "idle" /\ UNCHANGED <<TaskTable, OSTask, LastTaskId, Overwritten>>
  BY Zenon DEF LoadModule, Finalize, Abandon, esVars, osVars, history
<1>3. \E r : create' = [create EXCEPT ![p] = r] /\ r.pc # "register"
  <2>1. CASE LoadModule(p)
    <3>1. \E x \in {"task", "fail"} : create' = [create EXCEPT ![p].pc = x]
      BY Zenon, <2>1 DEF LoadModule
    <3>2. PICK x \in {"task", "fail"} : create' = [create EXCEPT ![p].pc = x]
      BY Zenon, <3>1
    <3>3. create' = [create EXCEPT ![p] = [create[p] EXCEPT !.pc = x]]
      BY Zenon, <1>1, <3>2
    <3>4. [create[p] EXCEPT !.pc = x].pc # "register"
      BY <1>1, <3>2 DEF Creation
    <3> QED BY Zenon, <3>3, <3>4
  <2>2. CASE Finalize(p) \/ Abandon(p)
    BY Zenon, <2>2 DEF Finalize, Abandon, Return, NotCreating
  <2> QED BY Zenon, <2>1, <2>2
<1>4. CalmMains
  BY Zenon, <1>1, <1>3, OneCreator
<1>5. CalmCleanUp
  <2>1. CASE bg' = bg
    <3>1. Cleaning => MainTask' = MainTask
      <4>1. /\ create[p].id \in AppId /\ AppTable[AppOf(create[p].id)].state = "INIT"
            /\ AppTable \in [AppSlot -> AppRecord]
        BY Zenon, <1>2 DEF AppInv, AppTypes, CreatorsReserve, Reserves
      <4>2. Cleaning => AppTable[AppOf(bg.app)].state \in Stopped /\ AppOf(bg.app) \in AppSlot
        BY Zenon, SlotsInTable DEF AppInv, CleanUpReserves
      <4>3. Cleaning => AppOf(bg.app) # AppOf(create[p].id)
        BY Zenon, <4>1, <4>2 DEF Stopped
      <4>4. \A s \in AppSlot : s # AppOf(create[p].id) => AppTable'[s] = AppTable[s]
        BY Zenon, <4>1 DEF LoadModule, Finalize, Abandon, esVars
      <4> QED BY Zenon, <2>1, <4>2, <4>3, <4>4 DEF MainTask, AppOf
    <3> QED BY Zenon, <2>1, <3>1, SameCleanUp
  <2>2. CASE bg' # bg
    <3>1. p = "bg" /\ bg' = NextRequest
      BY Zenon, <2>2 DEF LoadModule, Finalize, Abandon, Return
    <3>2. bg.pc = "creating"
      BY Zenon, <1>2, <3>1 DEF AppInv, CreatorsReserve
    <3>3. ~ Cleaning /\ ~ Cleaning'
      BY Zenon, <3>1, <3>2, NextRequestCalm DEF Cleaning
    <3>4. bg'.tasks = {}
      BY Zenon, <3>1, NextRequestCalm
    <3> QED BY Zenon, <3>3, <3>4, NoCleanUp
  <2> QED BY Zenon, <2>1, <2>2
<1> QED BY Zenon, <1>2, <1>4, <1>5, SameThreads DEF CalmStep

\* The first locked section of CFE_ES_AppCreate.
LEMMA ReserveCalm ==
  ASSUME AppInv, TaskInv,
         \/ \E n \in Names : StartAppCmd(n)
         \/ Restart
  PROVE  CalmStep
<1>1. create \in [Creator -> Creation] /\ bg \in TableScan /\ LastAppId \in Nat
  <2>1. create \in [Creator -> Creation] /\ bg \in TableScan /\ LastAppId \in 0..LastApp
    BY Zenon DEF AppInv, AppTypes
  <2> QED BY <2>1
<1>2. PICK p \in Creator : \E n : /\ Reserve(p, n)
                                  /\ \/ bg' = bg
                                     \/ /\ bg.pc = "restart"
                                        /\ bg' = [bg EXCEPT !.pc = "creating"]
  BY Zenon DEF StartAppCmd, Restart, Creator
<1> PICK n : /\ Reserve(p, n)
             /\ bg' = bg \/ (bg.pc = "restart" /\ bg' = [bg EXCEPT !.pc = "creating"])
  BY Zenon, <1>2
<1>3. PICK a \in AppId : Reserved(p, n, a)
  BY Zenon, <1>1, ReserveEffect
<1>4. UNCHANGED <<TaskTable, OSTask, LastTaskId, Overwritten>>
  BY Zenon DEF Reserve, osVars, history
<1>5. CalmMains
  <2> DEFINE r == [pc |-> "load", name |-> n, id |-> a, task |-> FREE]
  <2>1. create' = [create EXCEPT ![p] = r] /\ r.pc # "register"
    BY Zenon, <1>3 DEF Reserved
  <2> QED BY Zenon, <1>1, <2>1, OneCreator
<1>6. CASE bg' = bg
  <2>1. Cleaning => AppTable[AppOf(bg.app)].id = RESERVED /\ AppOf(bg.app) \in AppSlot
    BY Zenon, SlotsInTable DEF AppInv, CleanUpReserves
  <2>2. \A s \in AppSlot : s # AppOf(a) => AppTable'[s] = AppTable[s]
    BY Zenon, <1>3 DEF Reserved, AppInv, AppTypes
  <2>3. Cleaning => AppTable'[AppOf(bg.app)] = AppTable[AppOf(bg.app)]
    BY Zenon, <1>3, <2>1, <2>2, PseudoIds DEF Reserved
  <2>4. Cleaning => MainTask' = MainTask
    BY Zenon, <1>6, <2>3 DEF MainTask, AppOf
  <2> QED BY Zenon, <1>4, <1>5, <1>6, <2>4, SameCleanUp, SameThreads DEF CalmStep
<1>7. CASE bg.pc = "restart" /\ bg' = [bg EXCEPT !.pc = "creating"]
  <2>1. bg'.pc = "creating" /\ bg'.tasks = bg.tasks
    BY Zenon, <1>1, <1>7 DEF TableScan
  <2>2. CalmCleanUp
    BY Zenon, <1>7, <2>1, NoCleanUp DEF Cleaning
  <2> QED BY Zenon, <1>4, <1>5, <2>2, SameThreads DEF CalmStep
<1> QED BY Zenon, <1>6, <1>7

\* The calls and commands that only change an application record, and the scan.
LEMMA AppCalm ==
  ASSUME AppInv, TaskInv, TaskTypes,
         \/ \E a \in 1..LastAppId, req \in {"SYS_DELETE", "SYS_RESTART"} : ControlApp(a, req)
         \/ \E x \in TaskSlot : RunLoop(x)
         \/ \E e \in Elapsed : Scan(e)
         \/ RestartRefused
  PROVE  CalmStep
<1>1. /\ UNCHANGED <<TaskTable, OSTask, LastTaskId, Overwritten, create>>
  BY Zenon DEF ControlApp, RunLoop, Scan, RestartRefused, esVars, osVars, history
<1>2. CalmMains
  BY Zenon, <1>1 DEF CalmMains, MainAwaits
<1>3. AppTable \in [AppSlot -> AppRecord] /\ bg \in TableScan
  BY Zenon DEF AppInv, AppTypes
<1>4. CASE \E e \in Elapsed : Scan(e)
  <2>1. PICK x, y : bg' = [bg EXCEPT !.todo = x, !.pc = IF y THEN "scan" ELSE "process"]
    BY ZenonT(60), <1>4 DEF Scan
  <2>2. bg'.pc \in {"scan", "process"} /\ bg'.tasks = bg.tasks /\ bg.pc = "scan"
    BY Zenon, <1>3, <1>4, <2>1 DEF Scan, TableScan
  <2>3. CalmCleanUp
    BY Zenon, <2>2, NoCleanUp DEF Cleaning
  <2> QED BY Zenon, <1>1, <1>2, <2>3, SameThreads DEF CalmStep
<1>5. CASE RestartRefused
  <2>1. bg.pc = "restart" /\ bg' = NextRequest
    BY Zenon, <1>5 DEF RestartRefused
  <2>2. bg'.pc \in {"scan", "process"} /\ bg'.tasks = {}
    BY Zenon, <2>1, NextRequestCalm
  <2>3. CalmCleanUp
    BY Zenon, <2>1, <2>2, NoCleanUp DEF Cleaning
  <2> QED BY Zenon, <1>1, <1>2, <2>3, SameThreads DEF CalmStep
<1>6. CASE \/ \E a \in 1..LastAppId, req \in {"SYS_DELETE", "SYS_RESTART"} : ControlApp(a, req)
           \/ \E x \in TaskSlot : RunLoop(x)
  <2>1. bg' = bg
    BY Zenon, <1>6 DEF ControlApp, RunLoop
  <2>2. PICK k, y : \/ AppTable' = [AppTable EXCEPT ![k].req = y]
                    \/ AppTable' = [AppTable EXCEPT ![k].state = y]
    BY Zenon, <1>6 DEF ControlApp, RunLoop
  <2>3. \A s \in AppSlot : AppTable'[s].main = AppTable[s].main
    BY <1>3, <2>2 DEF AppRecord
  <2>4. Cleaning => MainTask' = MainTask
    BY Zenon, <2>1, <2>3, SlotsInTable DEF AppInv, CleanUpReserves, MainTask, AppOf
  <2> QED BY Zenon, <1>1, <1>2, <2>1, <2>4, SameThreads, SameCleanUp DEF CalmStep
<1> QED BY Zenon, <1>4, <1>5, <1>6

\* A task ends, or goes on in its function.
LEMMA OneThreadCalm ==
  ASSUME TaskTypes, TaskInv, NEW x \in TaskSlot, NEW r,
         OSTask' = [OSTask EXCEPT ![x] = r],
         \/ r.id = FREE /\ r.pc = "none"
         \/ /\ r.id = OSTask[x].id /\ r.app = OSTask[x].app
            /\ OSTask[x].pc \in {"run", "create"}
            /\ r.pc \in {"run", "create", "stopped", "exiting"}
  PROVE  CalmThreads
<1>1. \A s \in TaskSlot : OSTask'[s] = IF s = x THEN r ELSE OSTask[s]
  BY Zenon DEF TaskTypes
<1>2. ThreadsPlaced
  BY Zenon DEF TaskInv
<1>3. \A s \in TaskSlot \ {x} : CalmThread(s)
  BY ZenonT(60), <1>1, <1>2 DEF ThreadsPlaced, CalmThread, InFunction, ChildAwaits
<1>4. OSTask'[x] = r
  BY Zenon, <1>1
<1>5. CalmThread(x)
  <2>1. CASE r.id = FREE /\ r.pc = "none"
    BY Zenon, <1>4, <2>1 DEF CalmThread, InFunction, ChildAwaits
  <2>2. CASE /\ r.id = OSTask[x].id /\ r.app = OSTask[x].app
             /\ OSTask[x].pc \in {"run", "create"}
             /\ r.pc \in {"run", "create", "stopped", "exiting"}
    <3>1. x \in InFunction /\ r.pc # "register" /\ r.pc # "none" /\ r.id # FREE
      BY Zenon, <1>2, <2>2 DEF InFunction, ThreadsPlaced
    <3> QED BY Zenon, <1>4, <2>2, <3>1 DEF CalmThread, ChildAwaits
  <2> QED BY Zenon, <2>1, <2>2
<1> QED BY Zenon, <1>3, <1>5 DEF CalmThreads

\* The tasks of the applications, where they create, register and free nothing.
LEMMA ThreadCalm ==
  ASSUME AppInv, TaskInv, TaskTypes, NEW x \in TaskSlot,
         \/ PollTimeout(x) \/ ExitApp(x) \/ ExitWithoutContext(x)
         \/ CreateChildTask(x) \/ ExitChildEnd(x)
         \/ /\ StartChildTask(x) /\ UNCHANGED LastTaskId
            /\ OSTask' = [OSTask EXCEPT ![x].pc = "run"]
  PROVE  CalmStep
<1>1. UNCHANGED <<TaskTable, LastTaskId, Overwritten, create, bg>>
  BY Zenon DEF PollTimeout, ExitApp, ExitWithoutContext, CreateChildTask, ExitChildEnd,
               StartChildTask, TaskExit, esVars, history
<1>2. CalmMains
  BY Zenon, <1>1 DEF CalmMains, MainAwaits
<1>3. /\ AppTable \in [AppSlot -> AppRecord] /\ OSTask \in [TaskSlot -> Thread]
      /\ OSTask[x] \in Thread
  BY Zenon DEF AppInv, AppTypes, TaskTypes
<1>4. CASE ExitApp(x)
  <2> DEFINE k == AppOf(TaskTable[x].app)
  <2>1. AppTable' = [AppTable EXCEPT ![k].state = "STOPPED",
                    ![k].req = IF @ = "APP_RUN" THEN "APP_EXIT" ELSE @]
    BY Zenon, <1>4 DEF ExitApp
  <2> HIDE DEF k
  <2>2. \A s \in AppSlot : AppTable'[s].main = AppTable[s].main
    BY <1>3, <2>1 DEF AppRecord
  <2>3. Cleaning => MainTask' = MainTask
    BY Zenon, <1>1, <2>2, SlotsInTable DEF AppInv, CleanUpReserves, MainTask, AppOf
  <2>4. OSTask[x].pc = "run" /\ OSTask' = [OSTask EXCEPT ![x] = [OSTask[x] EXCEPT !.pc = "stopped"]]
    BY Zenon, <1>3, <1>4 DEF ExitApp
  <2>5. /\ [OSTask[x] EXCEPT !.pc = "stopped"].id = OSTask[x].id
        /\ [OSTask[x] EXCEPT !.pc = "stopped"].app = OSTask[x].app
        /\ [OSTask[x] EXCEPT !.pc = "stopped"].pc = "stopped"
    BY Zenon, <1>3 DEF Thread
  <2>6. CalmThreads
    BY Zenon, <2>4, <2>5, OneThreadCalm
  <2> QED BY Zenon, <1>1, <1>2, <2>3, <2>6, SameCleanUp DEF CalmStep
<1>5. CASE PollTimeout(x) \/ ExitWithoutContext(x) \/ ExitChildEnd(x)
  <2>1. OSTask' = [OSTask EXCEPT ![x] = NoTask] /\ UNCHANGED AppTable
    BY Zenon, <1>5 DEF PollTimeout, ExitWithoutContext, ExitChildEnd, TaskExit, esVars
  <2>2. NoTask.id = FREE /\ NoTask.pc = "none"
    BY Zenon DEF NoTask
  <2>3. CalmThreads
    BY Zenon, <2>1, <2>2, OneThreadCalm
  <2>4. MainTask' = MainTask
    BY Zenon, <1>1, <2>1 DEF MainTask, AppOf
  <2> QED BY Zenon, <1>1, <1>2, <2>3, <2>4, SameCleanUp DEF CalmStep
<1>6. CASE \/ CreateChildTask(x)
           \/ StartChildTask(x) /\ OSTask' = [OSTask EXCEPT ![x].pc = "run"]
  <2>1. PICK y \in {"run", "create"} : OSTask' = [OSTask EXCEPT ![x].pc = y]
    BY Zenon, <1>6 DEF CreateChildTask
  <2>2. OSTask[x].pc \in {"run", "create"} /\ UNCHANGED AppTable
    BY Zenon, <1>6 DEF CreateChildTask, StartChildTask, esVars
  <2> DEFINE r == [OSTask[x] EXCEPT !.pc = y]
  <2>3. OSTask' = [OSTask EXCEPT ![x] = r]
    BY Zenon, <1>3, <2>1
  <2>4. r.id = OSTask[x].id /\ r.app = OSTask[x].app /\ r.pc = y
    BY Zenon, <1>3 DEF Thread
  <2> HIDE DEF r
  <2>5. CalmThreads
    BY Zenon, <2>2, <2>3, <2>4, OneThreadCalm
  <2>6. MainTask' = MainTask
    BY Zenon, <1>1, <2>2 DEF MainTask, AppOf
  <2> QED BY Zenon, <1>1, <1>2, <2>5, <2>6, SameCleanUp DEF CalmStep
<1> QED BY Zenon, <1>4, <1>5, <1>6

\* OS_TaskDelete ends tasks, and the others go on.
LEMMA KillCalm ==
  ASSUME TaskTypes, TaskInv, NEW dead, Kill(dead)
  PROVE  CalmThreads /\ \A s \in InFunction' : OSTask[s].id \notin dead
<1>1. \A s \in TaskSlot : OSTask'[s] = IF OSTask[s].id \in dead THEN NoTask ELSE OSTask[s]
  BY Zenon DEF Kill
<1>2. NoTask.id = FREE /\ NoTask.pc = "none"
  BY Zenon DEF NoTask
<1>3. \A s \in TaskSlot : CalmThread(s)
  BY Zenon, <1>1, <1>2 DEF TaskInv, ThreadsPlaced, CalmThread, InFunction, ChildAwaits
<1>4. \A s \in InFunction' : OSTask[s].id \notin dead
  BY Zenon, <1>1, <1>2 DEF InFunction
<1> QED BY Zenon, <1>3, <1>4 DEF CalmThreads

\* CFE_ES_CleanUpApp between its locked sections.
LEMMA CleanUpCalm ==
  ASSUME AppInv, TaskInv, TaskTypes, KillChild \/ Reap \/ KillMain \/ ModuleUnload
  PROVE  CalmStep
<1>1. UNCHANGED <<TaskTable, AppTable, LastTaskId, Overwritten, create>> /\ Cleaning
  BY Zenon DEF KillChild, Reap, KillMain, ModuleUnload, esVars, history, Cleaning
<1>2. CalmMains
  BY Zenon, <1>1 DEF CalmMains, MainAwaits
<1>3. bg \in TableScan
  BY Zenon DEF AppInv, AppTypes
<1>4. CASE KillChild
  <2>1. PICK t \in bg.left : Kill({t}) /\ bg' = [bg EXCEPT !.left = @ \ {t}]
    BY Zenon, <1>4 DEF KillChild
  <2>2. /\ bg'.pc = bg.pc /\ bg'.tasks = bg.tasks /\ bg'.app = bg.app
        /\ bg'.left = bg.left \ {t} /\ bg.pc = "children"
    BY Zenon, <1>3, <1>4, <2>1 DEF TableScan, KillChild
  <2>3. CalmThreads /\ \A s \in InFunction' : OSTask[s].id \notin {t}
    BY Zenon, <2>1, KillCalm
  <2>4. MainTask' = MainTask
    BY Zenon, <1>1, <2>2 DEF MainTask, AppOf
  <2>5. \A u : u # t /\ ToDelete(u) => ToDelete(u)'
    BY Zenon, <2>2, <2>4 DEF ToDelete
  <2>6. CalmCleanUp
    BY Zenon, <1>1, <2>2, <2>3, <2>5 DEF CalmCleanUp, Cleaning
  <2> QED BY Zenon, <1>1, <1>2, <2>3, <2>6 DEF CalmStep
<1>5. CASE Reap
  <2>1. PICK x, dead : bg' = [bg EXCEPT !.pc = x] /\ Kill(dead)
    BY Zenon, <1>5 DEF Reap
  <2>2. /\ bg.pc = "children" /\ bg.left = {}
        /\ bg'.pc \in {"unload", "main", "children"}
        /\ bg'.pc = "unload" => MainTask \notin bg.tasks
    BY <1>3, <1>5 DEF Reap, TableScan
  <2>3. bg'.tasks = bg.tasks /\ bg'.app = bg.app
    BY Zenon, <1>3, <2>1 DEF TableScan
  <2>4. CalmThreads
    BY Zenon, <2>1, KillCalm
  <2>5. MainTask' = MainTask
    BY Zenon, <1>1, <2>3 DEF MainTask, AppOf
  <2>6. \A u \in bg.tasks : ToDelete(u) => ToDelete(u)'
    BY Zenon, <2>2, <2>5 DEF ToDelete
  <2>7. CalmCleanUp
    BY Zenon, <1>1, <2>2, <2>3, <2>6 DEF CalmCleanUp, Cleaning
  <2> QED BY Zenon, <1>1, <1>2, <2>4, <2>7 DEF CalmStep
<1>6. CASE KillMain
  <2>1. Kill({MainTask}) /\ bg' = [bg EXCEPT !.pc = "unload"] /\ bg.pc = "main"
    BY Zenon, <1>6 DEF KillMain
  <2>2. bg'.pc = "unload" /\ bg'.tasks = bg.tasks /\ bg'.app = bg.app
    BY Zenon, <1>3, <2>1 DEF TableScan
  <2>3. CalmThreads /\ \A s \in InFunction' : OSTask[s].id \notin {MainTask}
    BY Zenon, <2>1, KillCalm
  <2>4. \A s \in InFunction' : ~ ToDelete(OSTask[s].id)
    BY Zenon, <2>1, <2>3 DEF ToDelete
  <2>5. CalmCleanUp
    BY Zenon, <1>1, <2>2, <2>4 DEF CalmCleanUp, Cleaning
  <2> QED BY Zenon, <1>1, <1>2, <2>3, <2>5 DEF CalmStep
<1>7. CASE ModuleUnload
  <2>1. UNCHANGED OSTask /\ bg' = [bg EXCEPT !.pc = "free"] /\ bg.pc = "unload"
    BY Zenon, <1>7 DEF ModuleUnload
  <2>2. bg'.pc = "free" /\ bg'.tasks = bg.tasks /\ bg'.app = bg.app
    BY Zenon, <1>3, <2>1 DEF TableScan
  <2>3. \A t : ~ ToDelete(t)
    BY Zenon, <2>1 DEF ToDelete
  <2>4. CalmCleanUp
    BY Zenon, <1>1, <2>2, <2>3 DEF CalmCleanUp, Cleaning
  <2> QED BY Zenon, <1>1, <1>2, <2>1, <2>4, SameThreads DEF CalmStep
<1> QED BY Zenon, <1>4, <1>5, <1>6, <1>7

-----------------------------------------------------------------------------
(***************************************************************************)
(* Steps that create, register and remove tasks                            *)
(***************************************************************************)
\* CFE_ES_TaskEntryPoint finds the task's record: the task was registered, so
\* it is on no list and nobody waits to register it.
LEMMA EnterTasks ==
  ASSUME AppInv, TaskInv, TaskTypes, TasksKnown, NEW x \in TaskSlot, EnterFunction(x)
  PROVE  TaskInv'
<1>1. /\ UNCHANGED <<TaskTable, AppTable, LastTaskId, Overwritten, create, bg>>
      /\ OSTask[x].pc = "poll" /\ TaskTable[x].id = OSTask[x].id
      /\ OSTask' = [OSTask EXCEPT ![x].pc = "run", ![x].app = TaskTable[x].app]
  BY Zenon DEF EnterFunction, esVars, history, TaskContext
<1>2. OSTask \in [TaskSlot -> Thread] /\ OSTask[x] \in Thread
  BY Zenon DEF TaskTypes
<1>3. /\ OSTask'[x].pc = "run" /\ OSTask'[x].app = TaskTable[x].app
      /\ OSTask'[x].id = OSTask[x].id
      /\ \A s \in TaskSlot \ {x} : OSTask'[s] = OSTask[s]
  BY Zenon, <1>1, <1>2 DEF Thread
<1>4. /\ InFunction' = InFunction \cup {x}
      /\ \A s \in TaskSlot : ChildAwaits(s)' => ChildAwaits(s) /\ OSTask'[s].new = OSTask[s].new
  BY Zenon, <1>1, <1>3 DEF InFunction, ChildAwaits
<1>5. OSTask[x].id \in TaskId
  BY Zenon, <1>1 DEF TasksKnown, ThreadsKnown, ThreadKnown
<1>6. RecordsPlaced' /\ ListsIssued' /\ ListedGone' /\ ReservedListed' /\ OverwrittenGone'
  BY Zenon, <1>1
     DEF TaskInv, RecordsPlaced, ListsIssued, ListedGone, ReservedListed, OverwrittenGone,
         Issued, TaskOf, Cleaning
<1>7. ThreadsPlaced'
  BY ZenonT(60), <1>1, <1>3, <1>5, PseudoIds DEF TaskInv, ThreadsPlaced, Issued, TaskOf
<1>8. AwaitedUnknown'
  <2>1. \A s \in InFunction' : OSTask'[s].id = OSTask[s].id
    BY Zenon, <1>3, <1>4 DEF InFunction
  <2>2. \A t \in TaskId : Unknown(t) => Unknown(t)'
    BY ZenonT(60), <1>1, <1>4, <2>1 DEF Unknown, Issued
  <2> QED BY Zenon, <1>1, <1>4, <2>2 DEF TaskInv, AwaitedUnknown, MainAwaits
<1>9. AwaitedOnce'
  <2>1. CalmMains /\ CalmChildren
    BY Zenon, <1>1, <1>4 DEF CalmMains, CalmChildren, MainAwaits
  <2> QED BY Zenon, <2>1, CalmOnce DEF TaskInv
<1>10. \A s \in InFunction' : s # x => s \in InFunction /\ OSTask'[s] = OSTask[s]
  BY Zenon, <1>3, <1>4 DEF InFunction
<1>11. ListedDeleted'
  <2>1. MainTask' = MainTask /\ (Cleaning' <=> Cleaning)
    BY Zenon, <1>1 DEF MainTask, AppOf, Cleaning
  <2>2. \A t : ToDelete(t) <=> ToDelete(t)'
    BY Zenon, <1>1, <2>1 DEF ToDelete
  <2>3. OSTask'[x].id \notin bg.tasks
    BY Zenon, <1>1, <1>3 DEF TaskInv, ListedGone
  <2> QED BY Zenon, <1>1, <1>10, <2>1, <2>2, <2>3 DEF TaskInv, ListedDeleted
<1>12. AppsAgree'
  <2>1. \A s \in InFunction' : s # x /\ TaskContext(s)' => OSTask'[s].app = TaskTable'[s].app
    BY Zenon, <1>1, <1>10 DEF TaskInv, AppsAgree, TaskContext
  <2> QED BY Zenon, <1>1, <1>3, <2>1 DEF AppsAgree
<1>13. LiveRegistered'
  <2>1. TaskContext(x)'
    BY Zenon, <1>1, <1>3 DEF TaskContext
  <2>2. LiveRegistered /\ (Cleaning' <=> Cleaning)
    BY Zenon, <1>1 DEF TaskInv, Cleaning
  <2>3. \A s \in InFunction : s # x /\ OSTask'[s] = OSTask[s] =>
            \/ TaskContext(s)'
            \/ Cleaning' /\ OSTask'[s].app = bg'.app /\ OSTask'[s].id \in bg'.tasks
            \/ OSTask'[s].id \in Overwritten'
    <3>1. UNCHANGED <<TaskTable, Overwritten, bg>>
      BY Zenon, <1>1
    <3> QED BY Zenon, <2>2, <3>1 DEF LiveRegistered, TaskContext
  <2> QED BY Zenon, <1>10, <2>1, <2>3 DEF LiveRegistered
<1>14. LastTaskId' \in 0..LastTask
  BY Zenon, <1>1 DEF TaskInv
<1> QED BY Zenon, <1>6, <1>7, <1>8, <1>9, <1>11, <1>12, <1>13, <1>14 DEF TaskInv

\* OS_TaskCreate issues an ID that nothing knows.
LEMMA TaskCreateEffect ==
  ASSUME TaskInv, NEW t \in TaskId, TaskCreate(t)
  PROVE  /\ OSTask[TaskOf(t)].id = FREE
         /\ t \notin Issued /\ t \in Issued' /\ Issued \subseteq Issued'
         /\ LastTaskId' \in 0..LastTask
<1>1. /\ t \in LastTaskId + 1..LastTaskId + MaxTasks /\ LastTaskId' = t
      /\ t % MaxTasks \notin UsedTasks
  BY Zenon DEF TaskCreate, NextId
<1>2. LastTaskId \in 0..LastTask
  BY Zenon DEF TaskInv
<1>3. t \notin Issued /\ t \in Issued' /\ Issued \subseteq Issued' /\ LastTaskId' \in 0..LastTask
  BY <1>1, <1>2, AppAssumption DEF Issued, TaskId
<1>4. TaskOf(t) \in TaskSlot /\ TaskOf(t) \notin UsedTasks
  BY Zenon, <1>1, SlotsInTable DEF TaskOf
<1> QED BY Zenon, <1>3, <1>4 DEF UsedTasks

\* The step creates task t, for which one creation or one task waits now.
Born(t) ==
    /\ TaskCreate(t)
    /\ UNCHANGED <<TaskTable, AppTable, Overwritten, bg>>
    /\ \A s \in InFunction' :
        s \in InFunction /\ OSTask'[s].id = OSTask[s].id /\ OSTask'[s].app = OSTask[s].app
    /\ \A s \in TaskSlot :
        /\ OSTask'[s].id = FREE <=> OSTask'[s].pc = "none"
        /\ OSTask'[s].id = OSTask[s].id \/ (s = TaskOf(t) /\ OSTask'[s].id = t)
        /\ ChildAwaits(s)' =>
            (ChildAwaits(s) /\ OSTask'[s].new = OSTask[s].new) \/ OSTask'[s].new = t
    /\ \A p \in Creator : MainAwaits(p)' =>
        (MainAwaits(p) /\ create'[p].task = create[p].task) \/ create'[p].task = t

\* The new task has an ID nobody knows, so no record and no list changes its
\* meaning.
LEMMA BornTasks ==
  ASSUME TaskInv, NEW t \in TaskId, Born(t), AwaitedOnce'
  PROVE  TaskInv'
<1>1. /\ t \notin Issued /\ t \in Issued' /\ Issued \subseteq Issued'
      /\ LastTaskId' \in 0..LastTask
  BY Zenon, TaskCreateEffect DEF Born
<1>2. UNCHANGED <<TaskTable, AppTable, Overwritten, bg>>
  BY Zenon DEF Born
<1>3. \A s \in InFunction' :
        s \in InFunction /\ OSTask'[s].id = OSTask[s].id /\ OSTask'[s].app = OSTask[s].app
  BY Zenon DEF Born
<1>4. \A s \in InFunction : s \in TaskSlot
  BY Zenon DEF InFunction
<1>5. RecordsPlaced'
  BY Zenon, <1>1, <1>2 DEF TaskInv, RecordsPlaced, TaskOf
<1>6. ThreadsPlaced'
  <2>1. \A s \in TaskSlot : OSTask'[s].id \in TaskId =>
            TaskOf(OSTask'[s].id) = s /\ OSTask'[s].id \in Issued'
    BY Zenon, <1>1 DEF Born, TaskInv, ThreadsPlaced
  <2> QED BY Zenon, <2>1 DEF Born, ThreadsPlaced, TaskOf
<1>7. ListsIssued'
  BY Zenon, <1>1, <1>2 DEF TaskInv, ListsIssued
<1>8. \A s \in TaskSlot : TaskTable[s].id # t
  BY Zenon, <1>1 DEF TaskInv, RecordsPlaced
<1>9. \A s \in InFunction : OSTask[s].id # t
  BY Zenon, <1>1, <1>4 DEF TaskInv, ThreadsPlaced
<1>10. Unknown(t)'
  BY Zenon, <1>1, <1>2, <1>3, <1>8, <1>9 DEF TaskInv, ListsIssued, Unknown
<1>11. \A u \in TaskId : Unknown(u) => Unknown(u)'
  BY Zenon, <1>1, <1>2, <1>3 DEF Unknown
<1>12. AwaitedUnknown'
  <2>1. AwaitedUnknown
    BY Zenon DEF TaskInv
  <2>2. \A p \in Creator, u \in TaskId : MainAwaits(p)' /\ create'[p].task = u => Unknown(u)'
    BY Zenon, <1>10, <1>11, <2>1 DEF AwaitedUnknown, Born
  <2>3. \A s \in TaskSlot, u \in TaskId : ChildAwaits(s)' /\ OSTask'[s].new = u => Unknown(u)'
    BY Zenon, <1>10, <1>11, <2>1 DEF AwaitedUnknown, Born
  <2> QED BY Zenon, <2>2, <2>3 DEF AwaitedUnknown
<1>13. ListedGone' /\ ReservedListed' /\ OverwrittenGone'
  BY Zenon, <1>2 DEF TaskInv, ListedGone, ReservedListed, OverwrittenGone, Cleaning, TaskOf
<1>14. ListedDeleted'
  <2>1. MainTask' = MainTask /\ (Cleaning' <=> Cleaning)
    BY Zenon, <1>2 DEF MainTask, AppOf, Cleaning
  <2>2. \A u : ToDelete(u) <=> ToDelete(u)'
    BY Zenon, <1>2, <2>1 DEF ToDelete
  <2> QED BY Zenon, <1>2, <1>3, <2>1, <2>2 DEF TaskInv, ListedDeleted
<1>15. AppsAgree'
  BY Zenon, <1>2, <1>3 DEF TaskInv, AppsAgree, TaskContext
<1>16. LiveRegistered'
  <2>1. LiveRegistered /\ (Cleaning' <=> Cleaning)
    BY Zenon, <1>2 DEF TaskInv, Cleaning
  <2> QED BY Zenon, <1>2, <1>3, <2>1 DEF LiveRegistered, TaskContext
<1> QED BY Zenon, <1>1, <1>5, <1>6, <1>7, <1>12, <1>13, <1>14, <1>15, <1>16 DEF TaskInv

\* CFE_ES_StartAppTask creates a main task.
LEMMA StartMainTasks ==
  ASSUME AppInv, TaskInv, TaskTypes, NEW p \in Creator, StartMainTask(p)
  PROVE  TaskInv'
<1>1. create \in [Creator -> Creation] /\ OSTask \in [TaskSlot -> Thread] /\ create[p].pc = "task"
  BY Zenon DEF AppInv, AppTypes, TaskTypes, StartMainTask
<1>2. UNCHANGED <<TaskTable, AppTable, Overwritten, bg>>
  BY Zenon DEF StartMainTask, esVars
<1>3. CASE UNCHANGED <<OSTask, LastTaskId>> /\ create' = [create EXCEPT ![p].pc = "fail"]
  <2>1. create' = [create EXCEPT ![p] = [create[p] EXCEPT !.pc = "fail"]]
    BY Zenon, <1>1, <1>3
  <2>2. [create[p] EXCEPT !.pc = "fail"].pc = "fail"
    BY Zenon, <1>1 DEF Creation
  <2>3. CalmMains
    BY Zenon, <1>1, <2>1, <2>2, OneCreator
  <2>4. MainTask' = MainTask
    BY Zenon, <1>2 DEF MainTask, AppOf
  <2> QED BY Zenon, <1>2, <1>3, <2>3, <2>4, SameThreads, SameCleanUp, CalmTasks DEF CalmStep
<1>4. ASSUME NEW t \in TaskId, TaskCreate(t),
             OSTask' = [OSTask EXCEPT ![TaskOf(t)] = [NoTask EXCEPT !.id = t, !.pc = "poll"]],
             create' = [create EXCEPT ![p].pc = "register", ![p].task = t]
      PROVE  TaskInv'
  <2>1. OSTask[TaskOf(t)].id = FREE /\ TaskOf(t) \in TaskSlot /\ t \notin Issued
    BY Zenon, <1>4, TaskCreateEffect, SlotsInTable
  <2>2. /\ OSTask'[TaskOf(t)].id = t /\ OSTask'[TaskOf(t)].pc = "poll"
        /\ \A s \in TaskSlot : s # TaskOf(t) => OSTask'[s] = OSTask[s]
    BY Zenon, <1>1, <1>4, <2>1 DEF NoTask
  <2>3. /\ create'[p].task = t
        /\ \A q \in Creator \ {p} : create'[q] = create[q]
    BY Zenon, <1>1, <1>4 DEF Creation
  <2>4. ThreadsPlaced /\ t # FREE
    BY Zenon, PseudoIds DEF TaskInv
  <2>5. \A s \in InFunction' : s \in InFunction /\ OSTask'[s] = OSTask[s]
    BY Zenon, <2>2 DEF InFunction
  <2>6. \A s \in TaskSlot : ChildAwaits(s)' => ChildAwaits(s) /\ OSTask'[s].new = OSTask[s].new
    BY Zenon, <2>2 DEF ChildAwaits
  <2>7. \A s \in TaskSlot :
            /\ OSTask'[s].id = FREE <=> OSTask'[s].pc = "none"
            /\ OSTask'[s].id = OSTask[s].id \/ (s = TaskOf(t) /\ OSTask'[s].id = t)
    <3>1. \A s \in TaskSlot : OSTask[s].id = FREE <=> OSTask[s].pc = "none"
      BY Zenon, <2>4 DEF ThreadsPlaced
    <3>2. \A s \in TaskSlot : s # TaskOf(t) =>
            /\ OSTask'[s].id = FREE <=> OSTask'[s].pc = "none"
            /\ OSTask'[s].id = OSTask[s].id
      BY Zenon, <2>2, <3>1
    <3>3. OSTask'[TaskOf(t)].id # FREE /\ OSTask'[TaskOf(t)].pc # "none"
      BY Zenon, <2>2, <2>4
    <3>4. \A s \in TaskSlot : s = TaskOf(t) =>
            OSTask'[s].id # FREE /\ OSTask'[s].pc # "none" /\ OSTask'[s].id = t
      BY Zenon, <2>2, <3>3
    <3>5. \A s \in TaskSlot : OSTask'[s].id = FREE <=> OSTask'[s].pc = "none"
      BY Zenon, <3>2, <3>4
    <3>6. \A s \in TaskSlot : OSTask'[s].id = OSTask[s].id \/ (s = TaskOf(t) /\ OSTask'[s].id = t)
      BY Zenon, <3>2, <3>4
    <3> QED BY Zenon, <3>5, <3>6
  <2>8. \A q \in Creator \ {p} : MainAwaits(q)' => MainAwaits(q) /\ create'[q].task = create[q].task
    BY Zenon, <2>3 DEF MainAwaits
  <2>9. Born(t)
    BY Zenon, <1>2, <1>4, <2>3, <2>5, <2>6, <2>7, <2>8 DEF Born
  <2>10. AwaitedOnce'
    <3>1. /\ \A q \in Creator : MainAwaits(q) => create[q].task # t
          /\ \A s \in TaskSlot : ChildAwaits(s) => OSTask[s].new # t
      BY Zenon, <2>1 DEF TaskInv, AwaitedUnknown, Unknown
    <3>2. AwaitedOnce
      BY Zenon DEF TaskInv
    <3>3. \A q, r \in Creator :
            MainAwaits(q)' /\ MainAwaits(r)' /\ create'[q].task = create'[r].task => q = r
      BY Zenon, <2>3, <2>8, <3>1, <3>2 DEF AwaitedOnce
    <3>4. \A s, x \in TaskSlot :
            ChildAwaits(s)' /\ ChildAwaits(x)' /\ OSTask'[s].new = OSTask'[x].new => s = x
      BY Zenon, <2>6, <3>2 DEF AwaitedOnce
    <3>5. \A q \in Creator, s \in TaskSlot :
            MainAwaits(q)' /\ ChildAwaits(s)' => create'[q].task # OSTask'[s].new
      <4>1. \A q \in Creator \ {p}, s \in TaskSlot :
                MainAwaits(q)' /\ ChildAwaits(s)' => create'[q].task # OSTask'[s].new
        BY Zenon, <2>6, <2>8, <3>2 DEF AwaitedOnce
      <4>2. \A s \in TaskSlot : ChildAwaits(s)' => create'[p].task # OSTask'[s].new
        BY Zenon, <2>3, <2>6, <3>1
      <4> QED BY Zenon, <4>1, <4>2
    <3> QED BY Zenon, <3>3, <3>4, <3>5 DEF AwaitedOnce
  <2> QED BY Zenon, <2>9, <2>10, BornTasks
<1> QED BY Zenon, <1>3, <1>4 DEF StartMainTask

\* CFE_ES_CreateChildTask creates a task.
LEMMA StartChildTasks ==
  ASSUME AppInv, TaskInv, TaskTypes, NEW x \in TaskSlot, StartChildTask(x)
  PROVE  TaskInv'
<1>1. OSTask \in [TaskSlot -> Thread] /\ OSTask[x] \in Thread /\ OSTask[x].pc = "create"
  BY Zenon DEF TaskTypes, StartChildTask
<1>2. UNCHANGED <<TaskTable, AppTable, Overwritten, bg, create>>
  BY Zenon DEF StartChildTask, esVars, history
<1>3. CASE UNCHANGED LastTaskId /\ OSTask' = [OSTask EXCEPT ![x].pc = "run"]
  BY Zenon, <1>3, ThreadCalm, CalmTasks
<1>4. ASSUME NEW t \in TaskId, TaskCreate(t),
             OSTask' = [OSTask EXCEPT ![x].pc = "register", ![x].new = t,
                    ![TaskOf(t)] = [NoTask EXCEPT !.id = t, !.pc = "poll",
                                           !.creator = OSTask[x].id]]
      PROVE  TaskInv'
  <2>1. OSTask[TaskOf(t)].id = FREE /\ TaskOf(t) \in TaskSlot /\ t \notin Issued
    BY Zenon, <1>4, TaskCreateEffect, SlotsInTable
  <2>2. ThreadsPlaced /\ t # FREE
    BY Zenon, PseudoIds DEF TaskInv
  <2>3. OSTask[x].id # FREE /\ x # TaskOf(t)
    BY Zenon, <1>1, <2>1, <2>2 DEF ThreadsPlaced
  <2>4. /\ OSTask'[TaskOf(t)].id = t /\ OSTask'[TaskOf(t)].pc = "poll"
        /\ OSTask'[x].id = OSTask[x].id /\ OSTask'[x].app = OSTask[x].app
        /\ OSTask'[x].pc = "register" /\ OSTask'[x].new = t
        /\ \A s \in TaskSlot \ {x} : s # TaskOf(t) => OSTask'[s] = OSTask[s]
    <3> DEFINE n == [NoTask EXCEPT !.id = t, !.pc = "poll", !.creator = OSTask[x].id]
               r == [OSTask[x] EXCEPT !.pc = "register", !.new = t]
    <3>1. n.id = t /\ n.pc = "poll"
      BY Zenon DEF NoTask
    <3>2. r.id = OSTask[x].id /\ r.app = OSTask[x].app /\ r.pc = "register" /\ r.new = t
      BY Zenon, <1>1 DEF Thread
    <3>3. /\ OSTask'[TaskOf(t)] = n /\ OSTask'[x] = r
          /\ \A s \in TaskSlot \ {x} : s # TaskOf(t) => OSTask'[s] = OSTask[s]
      <4> HIDE DEF n
      <4>1. OSTask' = [OSTask EXCEPT ![x].pc = "register", ![x].new = t, ![TaskOf(t)] = n]
        BY Zenon, <1>4 DEF n
      <4> QED BY Zenon, <1>1, <2>1, <2>3, <4>1
    <3> QED BY Zenon, <3>1, <3>2, <3>3
  <2>5. \A s \in InFunction' :
            s \in InFunction /\ OSTask'[s].id = OSTask[s].id /\ OSTask'[s].app = OSTask[s].app
    BY Zenon, <1>1, <2>4 DEF InFunction
  <2>6. \A s \in TaskSlot \ {x} :
            ChildAwaits(s)' => ChildAwaits(s) /\ OSTask'[s].new = OSTask[s].new
    BY Zenon, <2>4 DEF ChildAwaits
  <2>7. \A s \in TaskSlot :
            /\ OSTask'[s].id = FREE <=> OSTask'[s].pc = "none"
            /\ OSTask'[s].id = OSTask[s].id \/ (s = TaskOf(t) /\ OSTask'[s].id = t)
    <3>1. \A s \in TaskSlot : OSTask[s].id = FREE <=> OSTask[s].pc = "none"
      BY Zenon, <2>2 DEF ThreadsPlaced
    <3>2. \A s \in TaskSlot \ {x} : s # TaskOf(t) =>
            /\ OSTask'[s].id = FREE <=> OSTask'[s].pc = "none"
            /\ OSTask'[s].id = OSTask[s].id
      BY ZenonT(60), <2>4, <3>1
    <3>3. /\ OSTask'[TaskOf(t)].id # FREE /\ OSTask'[TaskOf(t)].pc # "none"
          /\ OSTask'[x].id # FREE /\ OSTask'[x].pc # "none"
      BY Zenon, <2>2, <2>3, <2>4
    <3>4. \A s \in TaskSlot : s = TaskOf(t) =>
            OSTask'[s].id # FREE /\ OSTask'[s].pc # "none" /\ OSTask'[s].id = t
      BY Zenon, <2>4, <3>3
    <3>5. \A s \in TaskSlot : s = x =>
            OSTask'[s].id # FREE /\ OSTask'[s].pc # "none" /\ OSTask'[s].id = OSTask[s].id
      BY Zenon, <2>4, <3>3
    <3>6. \A s \in TaskSlot : OSTask'[s].id = FREE <=> OSTask'[s].pc = "none"
      BY Zenon, <3>2, <3>4, <3>5
    <3>7. \A s \in TaskSlot : OSTask'[s].id = OSTask[s].id \/ (s = TaskOf(t) /\ OSTask'[s].id = t)
      BY Zenon, <3>2, <3>4, <3>5
    <3> QED BY Zenon, <3>6, <3>7
  <2>8. \A p \in Creator : MainAwaits(p)' => MainAwaits(p) /\ create'[p].task = create[p].task
    BY Zenon, <1>2 DEF MainAwaits
  <2>9. Born(t)
    BY Zenon, <1>2, <1>4, <2>4, <2>5, <2>6, <2>7, <2>8 DEF Born
  <2>10. AwaitedOnce'
    <3>1. /\ \A p \in Creator : MainAwaits(p) => create[p].task # t
          /\ \A s \in TaskSlot : ChildAwaits(s) => OSTask[s].new # t
      BY Zenon, <2>1 DEF TaskInv, AwaitedUnknown, Unknown
    <3>2. AwaitedOnce
      BY Zenon DEF TaskInv
    <3>3. \A p, q \in Creator :
            MainAwaits(p)' /\ MainAwaits(q)' /\ create'[p].task = create'[q].task => p = q
      BY Zenon, <2>8, <3>2 DEF AwaitedOnce
    <3>4. \A s, y \in TaskSlot :
            ChildAwaits(s)' /\ ChildAwaits(y)' /\ OSTask'[s].new = OSTask'[y].new => s = y
      <4>1. \A s, y \in TaskSlot \ {x} :
              ChildAwaits(s)' /\ ChildAwaits(y)' /\ OSTask'[s].new = OSTask'[y].new => s = y
        BY Zenon, <2>6, <3>2 DEF AwaitedOnce
      <4>2. \A s \in TaskSlot \ {x} : ChildAwaits(s)' => OSTask'[s].new # OSTask'[x].new
        BY Zenon, <2>4, <2>6, <3>1
      <4> QED BY Zenon, <4>1, <4>2
    <3>5. \A p \in Creator, s \in TaskSlot :
            MainAwaits(p)' /\ ChildAwaits(s)' => create'[p].task # OSTask'[s].new
      <4>1. \A p \in Creator, s \in TaskSlot \ {x} :
                MainAwaits(p)' /\ ChildAwaits(s)' => create'[p].task # OSTask'[s].new
        BY Zenon, <2>6, <2>8, <3>2 DEF AwaitedOnce
      <4>2. \A p \in Creator : MainAwaits(p)' => create'[p].task # OSTask'[x].new
        BY Zenon, <2>4, <2>8, <3>1
      <4> QED BY Zenon, <4>1, <4>2
    <3> QED BY Zenon, <3>3, <3>4, <3>5 DEF AwaitedOnce
  <2> QED BY Zenon, <2>9, <2>10, BornTasks
<1> QED BY Zenon, <1>3, <1>4 DEF StartChildTask

\* The step registers task t for application a; nobody else waits for t.
Registers(t, a) ==
    /\ Unknown(t) /\ RegisterTask(t, a)
    /\ CalmThreads /\ CalmMains
    /\ \A p \in Creator : MainAwaits(p)' => create'[p].task # t
    /\ \A s \in TaskSlot : ChildAwaits(s)' => OSTask'[s].new # t
    /\ UNCHANGED <<LastTaskId, bg>>
    /\ Cleaning => MainTask' = MainTask

\* Such a step takes a record from nobody, but for a task that it notes as
\* overwritten.
LEMMA RegisterTasks ==
  ASSUME TaskInv, TaskTypes, TasksKnown, NEW t \in TaskId, NEW a, Registers(t, a)
  PROVE  TaskInv'
<1> DEFINE k == TaskOf(t)
           old == TaskTable[k].id
<1>1. k \in TaskSlot /\ RESERVED # t /\ FREE # t
  BY Zenon, SlotsInTable, PseudoIds
<1>2. /\ TaskTable' = [TaskTable EXCEPT ![k] = [id |-> t, app |-> a]]
      /\ Overwritten' = Overwritten \cup ({old} \cap TaskId)
      /\ UNCHANGED <<LastTaskId, bg>>
  BY Zenon DEF Registers, RegisterTask
<1> HIDE DEF k
<1>3. TaskTable'[k].id = t /\ \A s \in TaskSlot \ {k} : TaskTable'[s] = TaskTable[s]
  BY Zenon, <1>1, <1>2 DEF TaskTypes
<1>4. /\ t \in Issued /\ t \notin bg.tasks /\ t \notin Overwritten
      /\ \A s \in TaskSlot : TaskTable[s].id # t
      /\ \A s \in InFunction : OSTask[s].id # t
  BY Zenon DEF Registers, Unknown
<1>5. /\ CalmThreads /\ CalmMains
      /\ \A p \in Creator : MainAwaits(p)' => create'[p].task # t
      /\ \A s \in TaskSlot : ChildAwaits(s)' => OSTask'[s].new # t
      /\ Cleaning => MainTask' = MainTask
  BY Zenon DEF Registers
<1>6. /\ RecordsPlaced /\ ThreadsPlaced /\ ListsIssued /\ AwaitedUnknown /\ AwaitedOnce
      /\ ListedGone /\ ReservedListed /\ ListedDeleted /\ OverwrittenGone /\ AppsAgree
      /\ LiveRegistered /\ LastTaskId \in 0..LastTask
  BY Zenon DEF TaskInv
<1>7. Issued' = Issued
  BY Zenon, <1>2 DEF Issued
<1>8. RecordsPlaced'
  BY Zenon, <1>1, <1>3, <1>4, <1>6, <1>7 DEF RecordsPlaced, TaskOf, k
<1>9. ThreadsPlaced'
  BY Zenon, <1>5, <1>6, <1>7, PseudoIds DEF ThreadsPlaced, CalmThreads, CalmThread, TaskOf
<1>10. ListsIssued'
  <2>1. old \in TaskId => old \in Issued
    BY Zenon, <1>1, <1>6 DEF RecordsPlaced
  <2> HIDE DEF old
  <2> QED BY Zenon, <1>2, <1>6, <1>7, <2>1 DEF ListsIssued
<1>11. \A s \in InFunction' :
        s \in InFunction /\ OSTask'[s].id = OSTask[s].id /\ OSTask'[s].app = OSTask[s].app
  <2>1. \A s \in InFunction' : s \in TaskSlot
    BY Zenon DEF InFunction
  <2> QED BY Zenon, <1>5, <2>1 DEF CalmThreads, CalmThread
<1>12. \A u \in TaskId : u # t /\ Unknown(u) => Unknown(u)'
  <2>1. ASSUME NEW u \in TaskId, u # t, Unknown(u)
        PROVE  Unknown(u)'
    <3>1. u # old
      BY Zenon, <1>1, <2>1 DEF Unknown
    <3>2. u \notin Overwritten'
      BY Zenon, <1>2, <2>1, <3>1 DEF Unknown
    <3>3. \A s \in TaskSlot : TaskTable'[s].id # u
      BY Zenon, <1>3, <2>1 DEF Unknown
    <3>4. \A s \in InFunction' : OSTask'[s].id # u
      BY Zenon, <1>11, <2>1 DEF Unknown
    <3> QED BY Zenon, <1>2, <1>7, <2>1, <3>2, <3>3, <3>4 DEF Unknown
  <2> QED BY Zenon, <2>1
<1>13. CalmChildren
  BY Zenon, <1>5 DEF CalmChildren, CalmThreads, CalmThread
<1>14. AwaitedUnknown'
  <2>1. \A p \in Creator, u \in TaskId : MainAwaits(p)' /\ create'[p].task = u => Unknown(u)'
    BY Zenon, <1>5, <1>6, <1>12 DEF AwaitedUnknown, CalmMains
  <2>2. \A s \in TaskSlot, u \in TaskId : ChildAwaits(s)' /\ OSTask'[s].new = u => Unknown(u)'
    BY Zenon, <1>5, <1>6, <1>12, <1>13 DEF AwaitedUnknown, CalmChildren
  <2> QED BY Zenon, <2>1, <2>2 DEF AwaitedUnknown
<1>15. AwaitedOnce'
  BY Zenon, <1>5, <1>6, <1>13, CalmOnce
<1>16. ListedGone'
  BY Zenon, <1>2, <1>3, <1>4, <1>6 DEF ListedGone
<1>17. ReservedListed'
  BY Zenon, <1>1, <1>2, <1>3, <1>6 DEF ReservedListed, Cleaning, TaskOf
<1>18. CalmCleanUp
  BY Zenon, <1>2, <1>5, SameCleanUp
<1>19. ListedDeleted'
  BY Zenon, <1>2, <1>6, <1>11, <1>18 DEF ListedDeleted, CalmCleanUp
<1>20. OverwrittenGone'
  <2>1. \A u \in Overwritten : \A s \in TaskSlot : TaskTable'[s].id # u
    BY Zenon, <1>3, <1>4, <1>6 DEF OverwrittenGone
  <2>2. ASSUME old \in TaskId, NEW s \in TaskSlot, TaskTable'[s].id = old
        PROVE  FALSE
    <3>1. s # k
      BY Zenon, <1>1, <1>3, <1>4, <2>2
    <3>2. TaskTable[s].id = old
      BY Zenon, <1>3, <2>2, <3>1
    <3>3. TaskOf(old) = s /\ TaskOf(old) = k
      BY Zenon, <1>1, <1>6, <2>2, <3>2 DEF RecordsPlaced
    <3> QED BY Zenon, <3>1, <3>3
  <2> HIDE DEF old
  <2> QED BY Zenon, <1>2, <2>1, <2>2 DEF OverwrittenGone
<1>21. AppsAgree'
  BY Zenon, <1>3, <1>4, <1>6, <1>11 DEF AppsAgree, TaskContext, InFunction
<1>22. LiveRegistered'
  <2>1. Cleaning' <=> Cleaning
    BY Zenon, <1>2 DEF Cleaning
  <2>2. ASSUME NEW s \in InFunction'
        PROVE  \/ TaskContext(s)'
               \/ Cleaning' /\ OSTask'[s].app = bg'.app /\ OSTask'[s].id \in bg'.tasks
               \/ OSTask'[s].id \in Overwritten'
    <3>1. /\ s \in InFunction /\ OSTask'[s].id = OSTask[s].id /\ OSTask'[s].app = OSTask[s].app
          /\ s \in TaskSlot
      BY Zenon, <1>11, <2>2 DEF InFunction
    <3>2. CASE TaskContext(s) /\ s # k
      BY Zenon, <1>3, <3>1, <3>2 DEF TaskContext
    <3>3. CASE TaskContext(s) /\ s = k
      <4>1. OSTask[s].id \in TaskId
        BY Zenon, <3>1 DEF TasksKnown, ThreadsKnown, ThreadKnown, InFunction
      <4>2. OSTask[s].id = old
        BY Zenon, <3>3 DEF TaskContext
      <4> HIDE DEF old
      <4> QED BY Zenon, <1>2, <3>1, <4>1, <4>2
    <3>4. CASE ~ TaskContext(s)
      <4>1. \/ Cleaning /\ OSTask[s].app = bg.app /\ OSTask[s].id \in bg.tasks
            \/ OSTask[s].id \in Overwritten
        BY Zenon, <1>6, <3>1, <3>4 DEF LiveRegistered
      <4> QED BY Zenon, <1>2, <2>1, <3>1, <4>1
    <3> QED BY Zenon, <3>2, <3>3, <3>4
  <2> QED BY Zenon, <2>2 DEF LiveRegistered
<1>23. LastTaskId' \in 0..LastTask
  BY Zenon, <1>2, <1>6
<1> QED BY Zenon, <1>8, <1>9, <1>10, <1>14, <1>15, <1>16, <1>17, <1>19, <1>20, <1>21, <1>22, <1>23
        DEF TaskInv

\* CFE_ES_StartAppTask registers the main task.
LEMMA RegisterMainTasks ==
  ASSUME AppInv, TaskInv, TaskTypes, TasksKnown, NEW p \in Creator, RegisterMainTask(p)
  PROVE  TaskInv'
<1>1. /\ create \in [Creator -> Creation] /\ create[p] \in Creation
      /\ AppTable \in [AppSlot -> AppRecord] /\ create[p].pc = "register"
  BY Zenon DEF AppInv, AppTypes, RegisterMainTask
<1>2. PICK t \in TaskId : t = create[p].task
  BY Zenon, <1>1 DEF TasksKnown, MainsKnown
<1>3. Unknown(t) /\ RegisterTask(t, create[p].id)
  BY Zenon, <1>1, <1>2 DEF TaskInv, AwaitedUnknown, MainAwaits, RegisterMainTask
<1>4. UNCHANGED <<OSTask, LastTaskId, bg>> /\ create' = [create EXCEPT ![p].pc = "finalize"]
  BY Zenon DEF RegisterMainTask, osVars
<1>5. create' = [create EXCEPT ![p] = [create[p] EXCEPT !.pc = "finalize"]]
  BY Zenon, <1>1, <1>4
<1>6. [create[p] EXCEPT !.pc = "finalize"].pc = "finalize"
  BY Zenon, <1>1 DEF Creation
<1>7. CalmMains
  BY Zenon, <1>1, <1>5, <1>6, OneCreator
<1>8. ~ MainAwaits(p)'
  BY Zenon, <1>1, <1>5, <1>6 DEF MainAwaits
<1>9. \A q \in Creator : MainAwaits(q)' => create'[q].task # t
  BY Zenon, <1>1, <1>2, <1>7, <1>8 DEF CalmMains, MainAwaits, TaskInv, AwaitedOnce
<1>10. \A s \in TaskSlot : ChildAwaits(s)' => OSTask'[s].new # t
  BY Zenon, <1>1, <1>2, <1>4 DEF ChildAwaits, MainAwaits, TaskInv, AwaitedOnce
<1>11. Cleaning => MainTask' = MainTask
  <2> DEFINE k == AppOf(create[p].id)
  <2>1. k \in AppSlot /\ AppTable[k].state = "INIT"
    BY Zenon, <1>1, SlotsInTable DEF AppInv, CreatorsReserve, Reserves
  <2>2. AppTable' = [AppTable EXCEPT ![k].main = create[p].task]
    BY Zenon DEF RegisterMainTask
  <2> HIDE DEF k
  <2>3. \A s \in AppSlot : s # k => AppTable'[s] = AppTable[s]
    BY Zenon, <1>1, <2>2
  <2>4. Cleaning => AppOf(bg.app) \in AppSlot /\ AppOf(bg.app) # k
    BY Zenon, <2>1, SlotsInTable DEF AppInv, CleanUpReserves, Stopped
  <2> QED BY Zenon, <1>4, <2>3, <2>4 DEF MainTask, AppOf
<1>12. Registers(t, create[p].id)
  BY Zenon, <1>3, <1>4, <1>7, <1>9, <1>10, <1>11, SameThreads DEF Registers
<1> QED BY Zenon, <1>12, RegisterTasks

\* CFE_ES_CreateChildTask registers the child, for an application that may be
\* gone.
LEMMA RegisterChildTasks ==
  ASSUME AppInv, TaskInv, TaskTypes, TasksKnown, NEW x \in TaskSlot, RegisterChildTask(x)
  PROVE  TaskInv'
<1>1. /\ OSTask \in [TaskSlot -> Thread] /\ OSTask[x] \in Thread
      /\ OSTask[x].pc = "register"
  BY Zenon DEF TaskTypes, RegisterChildTask
<1>2. PICK t \in TaskId : t = OSTask[x].new
  BY Zenon, <1>1 DEF TasksKnown, ThreadsKnown, ThreadKnown
<1>3. Unknown(t) /\ RegisterTask(t, OSTask[x].app)
  BY Zenon, <1>1, <1>2 DEF TaskInv, AwaitedUnknown, ChildAwaits, RegisterChildTask
<1>4. /\ UNCHANGED <<AppTable, LastTaskId, bg, create>>
      /\ OSTask' = [OSTask EXCEPT ![x].pc = "run", ![x].new = FREE]
  BY Zenon DEF RegisterChildTask
<1>5. /\ OSTask'[x].id = OSTask[x].id /\ OSTask'[x].app = OSTask[x].app
      /\ OSTask'[x].pc = "run" /\ \A s \in TaskSlot \ {x} : OSTask'[s] = OSTask[s]
  BY Zenon, <1>1, <1>4 DEF Thread
<1>6. ThreadsPlaced /\ AwaitedOnce
  BY Zenon DEF TaskInv
<1>7. CalmThreads
  <2>1. \A s \in TaskSlot \ {x} : CalmThread(s)
    BY Zenon, <1>5, <1>6 DEF ThreadsPlaced, CalmThread, InFunction, ChildAwaits
  <2>2. x \in InFunction /\ OSTask[x].id # FREE
    BY Zenon, <1>1, <1>6 DEF InFunction, ThreadsPlaced
  <2>3. CalmThread(x)
    BY Zenon, <1>5, <2>2 DEF CalmThread, ChildAwaits
  <2> QED BY Zenon, <2>1, <2>3 DEF CalmThreads
<1>8. CalmMains
  BY Zenon, <1>4 DEF CalmMains, MainAwaits
<1>9. \A p \in Creator : MainAwaits(p)' => create'[p].task # t
  BY Zenon, <1>1, <1>2, <1>4, <1>6 DEF ChildAwaits, MainAwaits, AwaitedOnce
<1>10. \A s \in TaskSlot : ChildAwaits(s)' => OSTask'[s].new # t
  BY Zenon, <1>1, <1>2, <1>5, <1>6 DEF ChildAwaits, AwaitedOnce
<1>11. MainTask' = MainTask
  BY Zenon, <1>4 DEF MainTask, AppOf
<1>12. Registers(t, OSTask[x].app)
  BY Zenon, <1>3, <1>4, <1>7, <1>8, <1>9, <1>10, <1>11 DEF Registers
<1> QED BY Zenon, <1>12, RegisterTasks

\* CFE_ES_DeleteChildTask and ExitChildTask free the record of a task that ends.
Removes(x) ==
    /\ TaskTable' = [TaskTable EXCEPT ![x] = NoRecord]
    /\ x \notin InFunction' /\ CalmThreads
    /\ UNCHANGED <<AppTable, LastTaskId, Overwritten, create, bg>>

\* The record was the one of the task that ends, and no other task's.
LEMMA RemoveTasks ==
  ASSUME TaskInv, TaskTypes, NEW x \in TaskSlot, Removes(x)
  PROVE  TaskInv'
<1>1. /\ UNCHANGED <<AppTable, LastTaskId, Overwritten, create, bg>>
      /\ CalmThreads /\ x \notin InFunction'
  BY Zenon DEF Removes
<1>2. TaskTable'[x].id = FREE /\ \A s \in TaskSlot \ {x} : TaskTable'[s] = TaskTable[s]
  BY Zenon DEF Removes, TaskTypes, NoRecord
<1>3. NoNewRecord
  BY Zenon, <1>2, PseudoIds DEF NoNewRecord
<1>4. CalmMains
  BY Zenon, <1>1 DEF CalmMains, MainAwaits
<1>5. bg'.tasks \subseteq bg.tasks
  BY Zenon, <1>1
<1>6. LastTaskId \in 0..LastTask /\ LastTaskId' \in 0..LastTask
  BY Zenon, <1>1 DEF TaskInv
<1>7. RecordsPlaced' /\ ThreadsPlaced' /\ ListsIssued' /\ OverwrittenGone'
  BY Zenon, <1>1, <1>3, <1>5, CalmPlaces DEF TaskInv
<1>8. AwaitedUnknown' /\ AwaitedOnce'
  BY Zenon, <1>1, <1>3, <1>4, <1>5, CalmAwaited DEF TaskInv
<1>9. ListedGone'
  <2>1. \A t \in bg.tasks : t # FREE
    BY Zenon, <1>6, IssuedIds, PseudoIds DEF TaskInv, ListsIssued
  <2> QED BY Zenon, <1>1, <1>2, <2>1 DEF TaskInv, ListedGone
<1>10. ReservedListed'
  BY Zenon, <1>1, <1>2, PseudoIds DEF TaskInv, ReservedListed, Cleaning, TaskOf
<1>11. MainTask' = MainTask
  BY Zenon, <1>1 DEF MainTask, AppOf
<1>12. CalmCleanUp
  BY Zenon, <1>1, <1>11, SameCleanUp
<1>13. \A s \in InFunction' :
        /\ s \in InFunction /\ OSTask'[s].id = OSTask[s].id /\ OSTask'[s].app = OSTask[s].app
        /\ TaskTable'[s] = TaskTable[s]
  <2>1. \A s \in InFunction' : s \in TaskSlot /\ s # x
    BY Zenon, <1>1 DEF InFunction
  <2> QED BY Zenon, <1>1, <1>2, <2>1 DEF CalmThreads, CalmThread
<1>14. ListedDeleted'
  BY Zenon, <1>1, <1>12, <1>13 DEF TaskInv, ListedDeleted, CalmCleanUp
<1>15. AppsAgree'
  BY Zenon, <1>13 DEF TaskInv, AppsAgree, TaskContext
<1>16. LiveRegistered'
  <2>1. LiveRegistered /\ (Cleaning' <=> Cleaning)
    BY Zenon, <1>1 DEF TaskInv, Cleaning
  <2> QED BY Zenon, <1>1, <1>13, <2>1 DEF LiveRegistered, TaskContext
<1> QED BY Zenon, <1>6, <1>7, <1>8, <1>9, <1>10, <1>14, <1>15, <1>16 DEF TaskInv

\* CFE_ES_DeleteChildTask frees the record before OS_TaskDelete,
\* CFE_ES_ExitChildTask before OS_TaskExit.
LEMMA DeleteChildTasks ==
  ASSUME TaskInv, TaskTypes,
         \/ \E t \in TaskId : DeleteChildTask(t)
         \/ \E x \in TaskSlot : ExitChildTask(x)
  PROVE  TaskInv'
<1>1. OSTask \in [TaskSlot -> Thread]
  BY Zenon DEF TaskTypes
<1>2. ASSUME NEW t \in TaskId, DeleteChildTask(t)
      PROVE  TaskInv'
  <2> DEFINE x == TaskOf(t)
  <2>1. x \in TaskSlot
    BY Zenon, SlotsInTable
  <2>2. /\ OSTask' = [OSTask EXCEPT ![x] = NoTask]
        /\ TaskTable' = [TaskTable EXCEPT ![x] = NoRecord]
        /\ UNCHANGED <<AppTable, LastTaskId, Overwritten, create, bg>>
    BY Zenon, <1>2 DEF DeleteChildTask, history
  <2> HIDE DEF x
  <2>3. NoTask.id = FREE /\ NoTask.pc = "none"
    BY Zenon DEF NoTask
  <2>4. CalmThreads
    BY Zenon, <2>1, <2>2, <2>3, OneThreadCalm
  <2>5. x \notin InFunction'
    BY Zenon, <1>1, <2>1, <2>2, <2>3 DEF InFunction
  <2> QED BY Zenon, <2>1, <2>2, <2>4, <2>5, RemoveTasks DEF Removes
<1>3. ASSUME NEW x \in TaskSlot, ExitChildTask(x)
      PROVE  TaskInv'
  <2> DEFINE r == [OSTask[x] EXCEPT !.pc = "exiting"]
  <2>1. /\ OSTask' = [OSTask EXCEPT ![x] = r] /\ OSTask[x].pc = "run"
        /\ TaskTable' = [TaskTable EXCEPT ![x] = NoRecord]
        /\ UNCHANGED <<AppTable, LastTaskId, Overwritten, create, bg>>
    BY Zenon, <1>1, <1>3 DEF ExitChildTask, history
  <2>2. r.id = OSTask[x].id /\ r.app = OSTask[x].app /\ r.pc = "exiting"
    BY Zenon, <1>1 DEF Thread
  <2> HIDE DEF r
  <2>3. CalmThreads
    BY Zenon, <2>1, <2>2, OneThreadCalm
  <2>4. x \notin InFunction'
    BY Zenon, <1>1, <2>1, <2>2 DEF InFunction
  <2> QED BY Zenon, <2>1, <2>3, <2>4, RemoveTasks DEF Removes
<1> QED BY Zenon, <1>2, <1>3

\* CFE_ES_CleanUpApp: the tasks whose records become RESERVED are on its list.
LEMMA CollectTasks ==
  ASSUME AppInv, NextOnList, TaskInv, TaskTypes, TasksKnown, Collect
  PROVE  TaskInv'
<1>1. PICK a \in bg.todo : Collects(a)
  BY Zenon, CollectCollects
<1>2. UNCHANGED <<OSTask, LastTaskId, Overwritten, create>> /\ ~ Cleaning
  BY Zenon DEF Collect, osVars, history, Cleaning
<1>3. /\ TaskTable' = [s \in TaskSlot |->
            IF s \in Owned(a) THEN [TaskTable[s] EXCEPT !.id = RESERVED] ELSE TaskTable[s]]
      /\ bg'.pc = "children" /\ bg'.app = a
      /\ bg'.tasks = {TaskTable[s].id : s \in Owned(a)}
      /\ bg'.left = bg'.tasks \ {AppTable[AppOf(a)].main}
  BY Zenon, <1>1 DEF Collects
<1>4. /\ LastTaskId \in 0..LastTask
      /\ RecordsPlaced /\ ThreadsPlaced /\ ListsIssued /\ AwaitedUnknown /\ AwaitedOnce
      /\ ReservedListed /\ OverwrittenGone /\ AppsAgree /\ LiveRegistered
  BY Zenon DEF TaskInv
<1>5. Owned(a) \subseteq TaskSlot /\ \A s \in Owned(a) : TaskTable[s].id \in TaskId
  BY Zenon, <1>2, <1>4 DEF Owned, TaskTypes, TaskRecord, TaskRecordIsUsed, ReservedListed
<1>6. /\ \A s \in Owned(a) : TaskTable'[s].id = RESERVED
      /\ \A s \in TaskSlot \ Owned(a) : TaskTable'[s] = TaskTable[s]
  <2>1. \A s \in TaskSlot : TaskTable'[s] =
            IF s \in Owned(a) THEN [TaskTable[s] EXCEPT !.id = RESERVED] ELSE TaskTable[s]
    BY Zenon, <1>3
  <2>2. \A s \in TaskSlot : [TaskTable[s] EXCEPT !.id = RESERVED].id = RESERVED
    BY Zenon DEF TaskTypes, TaskRecord
  <2> QED BY Zenon, <1>5, <2>1, <2>2
<1>7. NoNewRecord
  BY Zenon, <1>6, PseudoIds DEF NoNewRecord
<1>8. Issued' = Issued /\ InFunction' = InFunction
  BY Zenon, <1>2 DEF Issued, InFunction
<1>9. RecordsPlaced'
  BY Zenon, <1>4, <1>7, <1>8 DEF RecordsPlaced, NoNewRecord, TaskOf
<1>10. ThreadsPlaced'
  BY Zenon, <1>2, <1>4, <1>8 DEF ThreadsPlaced, TaskOf
<1>11. ListsIssued'
  BY ZenonT(60), <1>2, <1>3, <1>4, <1>5, <1>8 DEF ListsIssued, RecordsPlaced
<1>12. \A t \in TaskId : Unknown(t) => Unknown(t)'
  <2>1. \A t \in TaskId : Unknown(t) => t \notin bg'.tasks
    BY Zenon, <1>3, <1>5 DEF Unknown
  <2>2. \A t \in TaskId : Unknown(t) => \A s \in TaskSlot : TaskTable'[s].id # t
    BY Zenon, <1>7 DEF Unknown, NoNewRecord
  <2> QED BY Zenon, <1>2, <1>8, <2>1, <2>2 DEF Unknown
<1>13. AwaitedUnknown' /\ AwaitedOnce'
  <2>1. AwaitedUnknown'
    BY Zenon, <1>2, <1>4, <1>12 DEF AwaitedUnknown, MainAwaits, ChildAwaits
  <2>2. CalmMains /\ CalmChildren
    BY Zenon, <1>2 DEF CalmMains, CalmChildren, MainAwaits, ChildAwaits
  <2> QED BY Zenon, <1>4, <2>1, <2>2, CalmOnce
<1>14. ListedGone'
  <2>1. ASSUME NEW x \in Owned(a), NEW s \in TaskSlot, TaskTable'[s].id = TaskTable[x].id
        PROVE  FALSE
    <3>1. TaskTable[x].id \in TaskId /\ x \in TaskSlot
      BY Zenon, <1>5, <2>1
    <3>2. s \notin Owned(a) /\ TaskTable[s].id = TaskTable[x].id
      BY Zenon, <1>6, <2>1, <3>1, PseudoIds
    <3>3. TaskOf(TaskTable[x].id) = s /\ TaskOf(TaskTable[x].id) = x
      BY Zenon, <1>4, <2>1, <3>1, <3>2 DEF RecordsPlaced
    <3> QED BY Zenon, <2>1, <3>2, <3>3
  <2>2. \A t \in bg'.tasks : \E x \in Owned(a) : TaskTable[x].id = t
    BY Zenon, <1>3
  <2> QED BY Zenon, <2>1, <2>2 DEF ListedGone
<1>15. ReservedListed'
  <2>1. Cleaning'
    BY Zenon, <1>3 DEF Cleaning
  <2>2. \A s \in TaskSlot : TaskTable'[s].id = RESERVED => s \in Owned(a)
    BY Zenon, <1>2, <1>4, <1>6 DEF ReservedListed
  <2>3. \A s \in Owned(a) : \E t \in bg'.tasks : TaskOf(t) = s
    BY Zenon, <1>3, <1>4, <1>5 DEF RecordsPlaced
  <2> QED BY Zenon, <2>1, <2>2, <2>3 DEF ReservedListed, TaskOf
<1>16. ListedDeleted'
  <2>1. MainTask' = AppTable[AppOf(a)].main
    <3>1. AppTable' = [AppTable EXCEPT ![AppOf(a)].id = RESERVED] /\ bg'.app = a
      BY Zenon, <1>1 DEF Collects
    <3>2. AppOf(a) \in AppSlot /\ AppTable \in [AppSlot -> AppRecord]
      BY Zenon, SlotsInTable DEF AppInv, AppTypes, TableScan
    <3>3. AppTable'[AppOf(a)].main = AppTable[AppOf(a)].main
      BY Zenon, <3>1, <3>2 DEF AppRecord
    <3> QED BY Zenon, <3>1, <3>3 DEF MainTask, AppOf
  <2>2. \A t \in bg'.tasks : ToDelete(t)'
    BY Zenon, <1>3, <2>1 DEF ToDelete
  <2> QED BY Zenon, <2>2 DEF ListedDeleted
<1>17. OverwrittenGone'
  <2>1. Overwritten \subseteq TaskId
    BY Zenon, <1>4, IssuedIds DEF ListsIssued
  <2> QED BY Zenon, <1>2, <1>4, <1>7, <2>1 DEF OverwrittenGone, NoNewRecord
<1>18. \A s \in InFunction : s \in TaskSlot /\ OSTask[s].id \in TaskId
  BY Zenon DEF InFunction, TasksKnown, ThreadsKnown, ThreadKnown
<1>19. AppsAgree'
  BY Zenon, <1>2, <1>4, <1>7, <1>8, <1>18 DEF AppsAgree, TaskContext, NoNewRecord
<1>20. LiveRegistered'
  <2>1. ASSUME NEW s \in InFunction
        PROVE  \/ TaskTable'[s].id = OSTask[s].id
               \/ Cleaning' /\ OSTask[s].app = bg'.app /\ OSTask[s].id \in bg'.tasks
               \/ OSTask[s].id \in Overwritten
    <3>1. CASE TaskContext(s) /\ s \in Owned(a)
      <4>1. OSTask[s].app = a
        BY Zenon, <1>4, <3>1 DEF AppsAgree, Owned
      <4> QED BY Zenon, <1>3, <3>1, <4>1 DEF TaskContext, Cleaning
    <3>2. CASE TaskContext(s) /\ s \notin Owned(a)
      BY Zenon, <1>6, <1>18, <3>2 DEF TaskContext
    <3>3. CASE ~ TaskContext(s)
      BY Zenon, <1>2, <1>4, <3>3 DEF LiveRegistered
    <3> QED BY Zenon, <3>1, <3>2, <3>3
  <2> QED BY Zenon, <1>2, <1>8, <2>1 DEF LiveRegistered, TaskContext
<1>21. LastTaskId' \in 0..LastTask
  BY Zenon, <1>2, <1>4
<1> QED BY ZenonT(60), <1>9, <1>10, <1>11, <1>13, <1>14, <1>15, <1>16, <1>17, <1>19, <1>20, <1>21
        DEF TaskInv

\* The last locked section of CFE_ES_CleanUpApp: the tasks on the list have been
\* deleted, and only records of theirs are freed.
LEMMA FreeTasks ==
  ASSUME AppInv, TaskInv, TaskTypes, TasksKnown, FreeRecords
  PROVE  TaskInv'
<1>1. /\ UNCHANGED <<OSTask, LastTaskId, Overwritten, create>>
      /\ bg.pc = "free" /\ Cleaning
  BY Zenon DEF FreeRecords, osVars, history, Cleaning
<1>2. bg'.tasks \subseteq bg.tasks /\ bg'.pc \in {"restart", "scan", "process"}
  <2>1. bg \in TableScan
    BY Zenon DEF AppInv, AppTypes
  <2>2. CASE bg' = [bg EXCEPT !.pc = "restart"]
    BY Zenon, <2>1, <2>2 DEF TableScan
  <2>3. CASE bg' = NextRequest
    BY Zenon, <2>3, NextRequestCalm
  <2> QED BY Zenon, <2>2, <2>3 DEF FreeRecords
<1>3. \A s \in TaskSlot : TaskTable'[s] =
        IF TaskTable[s].id = RESERVED /\ \E t \in bg.tasks : TaskOf(t) = s
        THEN NoRecord ELSE TaskTable[s]
  BY Zenon DEF FreeRecords
<1>4. NoRecord.id = FREE
  BY Zenon DEF NoRecord
<1>5. /\ \A s \in TaskSlot : TaskTable'[s].id \in {TaskTable[s].id, FREE}
      /\ \A s \in TaskSlot : TaskTable[s].id \in TaskId => TaskTable'[s] = TaskTable[s]
  BY Zenon, <1>3, <1>4, PseudoIds
<1>6. NoNewRecord
  BY Zenon, <1>5, PseudoIds DEF NoNewRecord
<1>7. CalmThreads
  BY Zenon, <1>1, SameThreads
<1>8. CalmMains
  BY Zenon, <1>1 DEF CalmMains, MainAwaits
<1>9. LastTaskId \in 0..LastTask /\ LastTaskId' \in 0..LastTask
  BY Zenon, <1>1 DEF TaskInv
<1>10. RecordsPlaced' /\ ThreadsPlaced' /\ ListsIssued' /\ OverwrittenGone'
  BY Zenon, <1>1, <1>2, <1>6, <1>7, CalmPlaces DEF TaskInv
<1>11. AwaitedUnknown' /\ AwaitedOnce'
  BY Zenon, <1>1, <1>2, <1>6, <1>7, <1>8, CalmAwaited DEF TaskInv
<1>12. ListedGone'
  <2>1. \A t \in bg.tasks : t # FREE
    BY Zenon, <1>9, IssuedIds, PseudoIds DEF TaskInv, ListsIssued
  <2> QED BY Zenon, <1>2, <1>5, <2>1 DEF TaskInv, ListedGone
<1>13. ReservedListed'
  <2>1. ASSUME NEW s \in TaskSlot, TaskTable'[s].id = RESERVED
        PROVE  FALSE
    <3>1. TaskTable[s].id = RESERVED
      BY Zenon, <1>5, <2>1, PseudoIds
    <3>2. \E t \in bg.tasks : TaskOf(t) = s
      BY Zenon, <3>1 DEF TaskInv, ReservedListed
    <3> QED BY Zenon, <1>3, <1>4, <2>1, <3>1, <3>2, PseudoIds
  <2> QED BY Zenon, <2>1 DEF ReservedListed
<1>14. ~ Cleaning'
  BY Zenon, <1>2 DEF Cleaning
<1>15. InFunction' = InFunction /\ \A s \in InFunction : s \in TaskSlot /\ OSTask[s].id \in TaskId
  BY Zenon, <1>1 DEF InFunction, TasksKnown, ThreadsKnown, ThreadKnown
<1>16. AppsAgree'
  BY Zenon, <1>1, <1>6, <1>15 DEF TaskInv, AppsAgree, TaskContext, NoNewRecord
<1>17. LiveRegistered'
  <2>1. \A s \in InFunction : OSTask[s].id \notin bg.tasks
    BY Zenon, <1>1 DEF TaskInv, ListedDeleted, ToDelete
  <2>2. \A s \in InFunction : TaskContext(s) \/ OSTask[s].id \in Overwritten
    BY Zenon, <2>1 DEF TaskInv, LiveRegistered
  <2>3. \A s \in InFunction : TaskContext(s) => TaskTable'[s].id = OSTask[s].id
    BY Zenon, <1>5, <1>15 DEF TaskContext
  <2> QED BY Zenon, <1>1, <1>15, <2>2, <2>3 DEF LiveRegistered, TaskContext
<1> QED BY Zenon, <1>9, <1>10, <1>11, <1>12, <1>13, <1>14, <1>16, <1>17
        DEF TaskInv, ListedDeleted

\* No task exists when the ES starts.
LEMMA TaskInit == Init => TaskInv
<1> SUFFICES ASSUME Init
             PROVE  TaskInv
  OBVIOUS
<1>1. /\ NoTask.pc = "none" /\ NoTask.id = FREE /\ NoRecord.id = FREE
      /\ NotCreating.pc = "idle" /\ Idle.tasks = {} /\ Idle.pc = "scan"
  BY Zenon DEF NoTask, NoRecord, NotCreating, Idle
<1>2. LastTaskId \in 0..LastTask
  BY AppAssumption DEF Init
<1>3. RecordsPlaced /\ ThreadsPlaced /\ ListsIssued
  BY Zenon, <1>1, PseudoIds DEF Init, RecordsPlaced, ThreadsPlaced, ListsIssued
<1>4. AwaitedUnknown /\ AwaitedOnce
  BY Zenon, <1>1 DEF Init, AwaitedUnknown, AwaitedOnce, MainAwaits, ChildAwaits
<1>5. ListedGone /\ ReservedListed /\ OverwrittenGone
  BY Zenon, <1>1, PseudoIds DEF Init, ListedGone, ReservedListed, OverwrittenGone
<1>6. InFunction = {}
  BY Zenon, <1>1 DEF Init, InFunction
<1>7. ListedDeleted /\ AppsAgree /\ LiveRegistered
  BY Zenon, <1>6 DEF ListedDeleted, AppsAgree, LiveRegistered
<1> QED BY Zenon, <1>2, <1>3, <1>4, <1>5, <1>7 DEF TaskInv

\* Every step keeps what TaskInv says.
LEMMA TaskStep ==
  ASSUME IInv, NextOnList, TaskInv, [Next]_vars
  PROVE  TaskInv'
<1>1. AppInv /\ TaskTypes /\ TasksKnown
  BY Zenon DEF IInv
<1>2. ASSUME NEW p \in Creator, AppCreate(p)
      PROVE  TaskInv'
  <2>1. CASE LoadModule(p) \/ Finalize(p) \/ Abandon(p)
    BY Zenon, <1>1, <2>1, CreateCalm, CalmTasks
  <2>2. CASE StartMainTask(p) \/ RegisterMainTask(p)
    BY Zenon, <1>1, <2>2, StartMainTasks, RegisterMainTasks
  <2> QED BY Zenon, <1>2, <2>1, <2>2 DEF AppCreate
<1>3. ASSUME NEW x \in TaskSlot, AppTask(x)
      PROVE  TaskInv'
  <2>1. CASE \/ PollTimeout(x) \/ ExitApp(x) \/ ExitWithoutContext(x)
             \/ CreateChildTask(x) \/ ExitChildEnd(x)
    BY Zenon, <1>1, <2>1, ThreadCalm, CalmTasks
  <2>2. CASE EnterFunction(x) \/ StartChildTask(x) \/ RegisterChildTask(x)
    BY Zenon, <1>1, <2>2, EnterTasks, StartChildTasks, RegisterChildTasks
  <2>3. CASE RunLoop(x)
    BY Zenon, <1>1, <2>3, AppCalm, CalmTasks
  <2>4. CASE ExitChildTask(x)
    BY Zenon, <1>1, <2>4, DeleteChildTasks
  <2> QED BY Zenon, <1>3, <2>1, <2>2, <2>3, <2>4 DEF AppTask
<1>4. CASE \/ \E n \in Names : StartAppCmd(n)
           \/ Restart
  BY Zenon, <1>1, <1>4, ReserveCalm, CalmTasks
<1>5. CASE \/ \E a \in 1..LastAppId, req \in {"SYS_DELETE", "SYS_RESTART"} : ControlApp(a, req)
           \/ \E e \in Elapsed : Scan(e)
           \/ RestartRefused
  BY Zenon, <1>1, <1>5, AppCalm, CalmTasks
<1>6. CASE \E t \in TaskId : DeleteChildTask(t)
  BY Zenon, <1>1, <1>6, DeleteChildTasks
<1>7. CASE KillChild \/ Reap \/ KillMain \/ ModuleUnload
  BY Zenon, <1>1, <1>7, CleanUpCalm, CalmTasks
<1>8. CASE Collect \/ FreeRecords
  BY Zenon, <1>1, <1>8, CollectTasks, FreeTasks
<1>9. CASE UNCHANGED vars
  <2>1. UNCHANGED <<TaskTable, AppTable, LastTaskId, Overwritten, OSTask, create, bg>>
    BY Zenon, <1>9 DEF vars, esVars, osVars, history
  <2>2. CalmMains /\ MainTask' = MainTask
    BY Zenon, <2>1 DEF CalmMains, MainAwaits, MainTask, AppOf
  <2> QED BY Zenon, <2>1, <2>2, SameThreads, SameCleanUp, CalmTasks DEF CalmStep
<1>10. "es" \in Creator /\ "bg" \in Creator
  BY Zenon DEF Creator
<1> QED BY Zenon, <1>2, <1>3, <1>4, <1>5, <1>6, <1>7, <1>8, <1>9, <1>10 DEF Next, Background

\* What the two invariants say of ModulesMatch.
LEMMA ModulesAgree ==
  ASSUME IInv, TaskInv, ModuleInv
  PROVE  ModulesMatch
<1>1. ASSUME NEW s \in InFunction
      PROVE  \/ \E m \in Modules : m[1] = OSTask[s].app
             \/ OSTask[s].id \in Orphans \cup Overwritten
  <2>1. s \in TaskSlot /\ OSTask[s].id \in TaskId /\ OSTask[s].app \in AppId
    BY Zenon, <1>1 DEF InFunction, IInv, TasksKnown, ThreadsKnown, ThreadKnown
  <2>2. CASE TaskContext(s)
    <3>1. TaskTable[s].id \in TaskId /\ TaskTable[s].app = OSTask[s].app
      BY Zenon, <1>1, <2>1, <2>2 DEF TaskInv, AppsAgree, TaskContext
    <3>2. \A a \in AppId : a = OSTask[s].app => Loaded(a) \/ TaskTable[s].id \in Orphans
      BY Zenon, <2>1, <3>1 DEF ModuleInv, RecordsOwned, ModulesLoaded
    <3> QED BY Zenon, <2>1, <2>2, <3>2 DEF Loaded, TaskContext
  <2>3. CASE Cleaning /\ OSTask[s].app = bg.app /\ OSTask[s].id \in bg.tasks
    <3>1. ToDelete(OSTask[s].id)
      BY Zenon, <1>1, <2>3 DEF TaskInv, ListedDeleted
    <3>2. bg.pc \in {"children", "main", "unload"}
      BY Zenon, <3>1 DEF ToDelete
    <3>3. \A a \in AppId : a = OSTask[s].app => Loaded(a)
      BY Zenon, <2>3, <3>2 DEF ModuleInv, ModulesLoaded
    <3> QED BY Zenon, <2>1, <3>3 DEF Loaded
  <2> QED BY Zenon, <1>1, <2>2, <2>3 DEF TaskInv, LiveRegistered
<1>2. ASSUME NEW m \in Modules
      PROVE  \/ AppRecordIsMatch(m[1])
             \/ \E p \in Creator : create[p].id = m[1]
             \/ Cleaning /\ bg.app = m[1]
             \/ m[1] \in Leaked
  <2>1. m[1] \in 1..LastAppId
    BY Zenon DEF ModuleInv, ModulesIssued
  <2>2. LastAppId \in 0..LastApp
    BY Zenon DEF IInv, AppInv, AppTypes
  <2>3. m[1] \in AppId
    BY <2>1, <2>2, AppAssumption DEF AppId
  <2>4. \A a \in AppId : a = m[1] => Loaded(a)
    BY Zenon DEF Loaded
  <2>5. \A a \in AppId : a = m[1] =>
             \/ AppRecordIsMatch(a)
             \/ \E p \in Creator : create[p].id = a
             \/ Cleaning /\ bg.app = a
             \/ a \in Leaked
    BY Zenon, <2>4 DEF ModuleInv, ModulesKnown
  <2> QED BY Zenon, <2>3, <2>5
<1> QED BY Zenon, <1>1, <1>2 DEF ModulesMatch
=============================================================================
