----------------------------- MODULE AppControl -----------------------------
(***************************************************************************)
(* Starting, stopping and restarting applications: Executive Services      *)
(* (cfe_es_apps.c, cfe_es_api.c).                                          *)
(*                                                                         *)
(* Three kinds of tasks share the application and the task table.  The ES  *)
(* task starts applications; the background task scans the table, removes  *)
(* the applications that stopped or were asked to, and starts some again;  *)
(* the tasks of the applications run, create and delete child tasks, and   *)
(* exit.  A section of code under the ES lock is one action; every call    *)
(* the code makes with the lock released (OS_ModuleLoad, OS_TaskCreate,    *)
(* OS_TaskDelete, OS_ModuleUnload) is an action of its own, so that the    *)
(* tasks interleave exactly where the code lets them.                      *)
(***************************************************************************)
EXTENDS Integers, FiniteSets

CONSTANTS
    Names,        \* application names
    MaxApps,      \* CFE_PLATFORM_ES_MAX_APPLICATIONS
    MaxTasks,     \* OS_MAX_TASKS, for the tasks of external applications
    KillTimer,    \* CFE_PLATFORM_ES_APP_KILL_TIMEOUT * APP_SCAN_RATE
    Elapsed,      \* what ElapsedTime may be at a scan
    LastApp,      \* bound: the last application ID the model issues
    LastTask      \* bound: the last task ID the model issues

ASSUME AppAssumption ==
    /\ MaxApps \in Nat \ {0} /\ MaxTasks \in Nat \ {0}
    /\ LastApp \in Nat /\ LastTask \in Nat
    /\ KillTimer \in Nat /\ Elapsed \subseteq Nat \ {0}

VARIABLES
    AppTable,                \* CFE_ES_Global.AppTable
    TaskTable,               \* CFE_ES_Global.TaskTable
    LastAppId,               \* CFE_ES_Global.LastAppId
    RegisteredExternalApps,  \* CFE_ES_Global.RegisteredExternalApps
    RegisteredTasks,         \* CFE_ES_Global.RegisteredTasks
    OSTask,                  \* the tasks OSAL knows, and where each one is
    LastTaskId,              \* OSAL's last issued task ID
    Modules,                 \* the modules OSAL has loaded: <<app ID, name>>
    create,                  \* CFE_ES_AppCreate in progress, per calling task
    bg,                      \* the background task in CFE_ES_RunAppTableScan
    Orphans,                 \* history: tasks registered for a removed app
    Leaked,                  \* history: apps whose main task was not created
    Overwritten              \* history: tasks whose record was overwritten

esVars == <<AppTable, TaskTable, RegisteredExternalApps, RegisteredTasks>>
osVars == <<OSTask, LastTaskId, Modules>>
history == <<Orphans, Leaked, Overwritten>>
vars == <<esVars, LastAppId, osVars, create, bg, history>>

FREE == 0
RESERVED == -1
AppId == 1..LastApp
TaskId == 1..LastTask
AppSlot == 0..MaxApps - 1
TaskSlot == 0..MaxTasks - 1
Creator == {"es", "bg"}
NoName == "none"

\* CFE_ES_AppState_Enum_t: the states before RUNNING are one, INIT.
AppState == {"INIT", "RUNNING", "WAITING", "STOPPED"}

\* CFE_ES_RunStatus_*: the two exit codes of an application are one, and so
\* are SYS_RESTART and SYS_RELOAD, which differ in the file to load.
Request == {"APP_RUN", "APP_EXIT", "SYS_DELETE", "SYS_RESTART"}

AppOf(a) == a % MaxApps
TaskOf(t) == t % MaxTasks

NoApp == [id |-> FREE, name |-> NoName, state |-> "INIT", req |-> "APP_RUN",
          timer |-> 0, main |-> FREE]
NoRecord == [id |-> FREE, app |-> FREE]
NoTask == [id |-> FREE, creator |-> FREE, pc |-> "none", app |-> FREE,
           new |-> FREE]
NotCreating == [pc |-> "idle", name |-> NoName, id |-> FREE, task |-> FREE]
Idle == [pc |-> "scan", todo |-> {}, app |-> FREE, req |-> "APP_RUN",
         name |-> NoName, tasks |-> {}, left |-> {}]

Init ==
    /\ AppTable = [s \in AppSlot |-> NoApp]
    /\ TaskTable = [s \in TaskSlot |-> NoRecord]
    /\ LastAppId = 0 /\ LastTaskId = 0
    /\ RegisteredExternalApps = 0 /\ RegisteredTasks = 0
    /\ OSTask = [s \in TaskSlot |-> NoTask]
    /\ Modules = {}
    /\ create = [p \in Creator |-> NotCreating]
    /\ bg = Idle
    /\ Orphans = {} /\ Leaked = {} /\ Overwritten = {}

-----------------------------------------------------------------------------
(***************************************************************************)
(* Looking up records                                                      *)
(***************************************************************************)
AppRecordIsUsed(s) == AppTable[s].id # FREE
AppRecordIsMatch(a) == AppTable[AppOf(a)].id = a
TaskRecordIsUsed(s) == TaskTable[s].id # FREE

\* The task in OSAL slot s finds its task record, its application record.
TaskContext(s) == TaskTable[s].id = OSTask[s].id
AppContext(s) == TaskContext(s) /\ AppRecordIsMatch(TaskTable[s].app)
IsMain(s) == AppTable[AppOf(TaskTable[s].app)].main = OSTask[s].id

\* CFE_ResourceId_FindNext: the first ID after the last one issued whose slot
\* is free; OSAL looks for a free task ID in the same way.
NextId(last, bound, size, used) ==
    {a \in last + 1..last + size :
        /\ a <= bound /\ a % size \notin used
        /\ \A b \in last + 1..a - 1 : b % size \in used}

UsedApps == {s \in AppSlot : AppRecordIsUsed(s)}
UsedTasks == {s \in TaskSlot : OSTask[s].id # FREE}

\* CFE_ES_AppRecordSetFree and TaskRecordSetFree only clear the ID.  Of what
\* stays behind nothing is read again before the record is cleared for its
\* next use, except the state of an application record (by ControlApp).
AppRecordSetFree(s) == [NoApp EXCEPT !.state = AppTable[s].state]

-----------------------------------------------------------------------------
(***************************************************************************)
(* CFE_ES_AppCreate, called by the ES task and by the background task      *)
(***************************************************************************)
\* Mutant: a reserved record does not count as a duplicate.
CannotReserveKnown(n) ==
    \/ \E s \in AppSlot : AppTable[s].id \in AppId /\ AppTable[s].name = n
    \/ NextId(LastAppId, LastApp, MaxApps, UsedApps) = {}

\* The name is known already, or there is no free slot.
CannotReserve(n) ==
    \/ \E s \in AppSlot : AppRecordIsUsed(s) /\ AppTable[s].name = n
    \/ NextId(LastAppId, LastApp, MaxApps, UsedApps) = {}

\* The record is reserved under the name, with the lock held.
Reserve(p, n) ==
    /\ ~ CannotReserve(n)
    /\ \E a \in NextId(LastAppId, LastApp, MaxApps, UsedApps) :
        /\ AppTable' = [AppTable EXCEPT
                ![AppOf(a)] = [NoApp EXCEPT !.id = RESERVED, !.name = n]]
        /\ LastAppId' = a
        /\ create' = [create EXCEPT ![p] =
                [pc |-> "load", name |-> n, id |-> a, task |-> FREE]]
    /\ UNCHANGED <<TaskTable, RegisteredExternalApps, RegisteredTasks, osVars,
                   history>>

\* CFE_ES_LoadModule: OSAL refuses a second module of the same name.
LoadModule(p) ==
    /\ create[p].pc = "load"
    /\ \/ /\ \A m \in Modules : m[2] # create[p].name
          /\ Modules' = Modules \cup {<<create[p].id, create[p].name>>}
          /\ create' = [create EXCEPT ![p].pc = "task"]
       \/ /\ create' = [create EXCEPT ![p].pc = "fail"]
          /\ UNCHANGED Modules
    /\ UNCHANGED <<esVars, LastAppId, OSTask, LastTaskId, bg, history>>

\* OS_TaskCreate: the new task starts to run at once.
TaskCreate(t) ==
    /\ t \in NextId(LastTaskId, LastTask, MaxTasks, UsedTasks)
    /\ LastTaskId' = t

\* CFE_ES_StartAppTask, before it takes the lock.  When the task cannot be
\* created the module stays loaded.
StartMainTask(p) ==
    /\ create[p].pc = "task"
    /\ \/ \E t \in TaskId :
            /\ TaskCreate(t)
            /\ OSTask' = [OSTask EXCEPT ![TaskOf(t)] =
                    [NoTask EXCEPT !.id = t, !.pc = "poll"]]
            /\ create' = [create EXCEPT ![p].pc = "register", ![p].task = t]
            /\ UNCHANGED Leaked
       \/ /\ create' = [create EXCEPT ![p].pc = "fail"]
          /\ Leaked' = Leaked \cup {create[p].id}
          /\ UNCHANGED <<OSTask, LastTaskId>>
    /\ UNCHANGED <<esVars, LastAppId, Modules, bg, Orphans, Overwritten>>

\* CFE_ES_StartAppTask under the lock: a record in use is logged, and cleared.
RegisterTask(t, a) ==
    /\ TaskTable' = [TaskTable EXCEPT ![TaskOf(t)] = [id |-> t, app |-> a]]
    /\ RegisteredTasks' = RegisteredTasks + 1
    /\ Overwritten' = Overwritten \cup ({TaskTable[TaskOf(t)].id} \cap TaskId)

RegisterMainTask(p) ==
    /\ create[p].pc = "register"
    /\ RegisterTask(create[p].task, create[p].id)
    /\ AppTable' = [AppTable EXCEPT
            ![AppOf(create[p].id)].main = create[p].task]
    /\ create' = [create EXCEPT ![p].pc = "finalize"]
    /\ UNCHANGED <<RegisteredExternalApps, LastAppId, osVars, bg, Orphans,
                   Leaked>>

\* The background task after a request: the next one of the list, or the end
\* of the scan.
NextRequest == [Idle EXCEPT !.pc = IF bg.todo = {} THEN "scan" ELSE "process",
                            !.todo = bg.todo]

\* CFE_ES_AppCreate returns to its caller.
Return(p) ==
    /\ create' = [create EXCEPT ![p] = NotCreating]
    /\ bg' = IF p = "bg" THEN NextRequest ELSE bg

\* The record gets its ID, which makes the application known.
Finalize(p) ==
    /\ create[p].pc = "finalize"
    /\ AppTable' = [AppTable EXCEPT ![AppOf(create[p].id)].id = create[p].id]
    /\ RegisteredExternalApps' = RegisteredExternalApps + 1
    /\ Return(p)
    /\ UNCHANGED <<TaskTable, RegisteredTasks, LastAppId, osVars, history>>

\* Loading the module or creating the task failed: the record is free again.
Abandon(p) ==
    /\ create[p].pc = "fail"
    /\ LET s == AppOf(create[p].id)
       IN  AppTable' = [AppTable EXCEPT ![s] = AppRecordSetFree(s)]
    /\ Return(p)
    /\ UNCHANGED <<TaskTable, RegisteredExternalApps, RegisteredTasks,
                   LastAppId, osVars, history>>

AppCreate(p) ==
    \/ LoadModule(p) \/ StartMainTask(p) \/ RegisterMainTask(p)
    \/ Finalize(p) \/ Abandon(p)

-----------------------------------------------------------------------------
(***************************************************************************)
(* Commands and calls that ask for a change                                *)
(***************************************************************************)
\* CFE_ES_StartAppCmd: the ES task handles one command at a time.
StartAppCmd(n) ==
    /\ create["es"].pc = "idle"
    /\ Reserve("es", n)
    /\ UNCHANGED bg

\* CFE_ES_RestartApp, ReloadApp and DeleteApp, called by a command handler or
\* by an application with an ID that was issued at some time.  None of them
\* compares the ID with the record's: they look at the state in its slot, and
\* a call that finds it not RUNNING is refused.
ControlApp(a, req) ==
    /\ AppTable[AppOf(a)].state = "RUNNING"
    /\ AppTable' = [AppTable EXCEPT ![AppOf(a)].req = req]
    /\ UNCHANGED <<TaskTable, RegisteredExternalApps, RegisteredTasks,
                   LastAppId, osVars, create, bg, history>>

-----------------------------------------------------------------------------
(***************************************************************************)
(* The tasks of the applications                                           *)
(***************************************************************************)
\* CFE_ES_GetTaskFunction: the new task polls until its record is there.
EnterFunction(s) ==
    /\ OSTask[s].pc = "poll" /\ TaskContext(s)
    /\ OSTask' = [OSTask EXCEPT ![s].pc = "run", ![s].app = TaskTable[s].app]
    /\ UNCHANGED <<esVars, LastAppId, LastTaskId, Modules, create, bg, history>>

\* OS_TaskExit: OSAL forgets the task.
TaskExit(s) ==
    /\ OSTask' = [OSTask EXCEPT ![s] = NoTask]
    /\ UNCHANGED <<esVars, LastAppId, LastTaskId, Modules, create, bg, history>>

\* The record did not come in time: the entry point returns.
PollTimeout(s) ==
    /\ OSTask[s].pc = "poll" /\ ~ TaskContext(s)
    /\ TaskExit(s)

\* Mutant: the task record alone leads to the application record.
RunLoopByTask(s) ==
    /\ OSTask[s].pc = "run" /\ TaskContext(s)
    /\ AppTable[AppOf(TaskTable[s].app)].state = "INIT"
    /\ AppTable' = [AppTable EXCEPT
            ![AppOf(TaskTable[s].app)].state = "RUNNING"]
    /\ UNCHANGED <<TaskTable, RegisteredExternalApps, RegisteredTasks,
                   LastAppId, osVars, create, bg, history>>

\* CFE_ES_RunLoop: the first call makes the application RUNNING.
RunLoop(s) ==
    /\ OSTask[s].pc = "run" /\ AppContext(s)
    /\ AppTable[AppOf(TaskTable[s].app)].state = "INIT"
    /\ AppTable' = [AppTable EXCEPT
            ![AppOf(TaskTable[s].app)].state = "RUNNING"]
    /\ UNCHANGED <<TaskTable, RegisteredExternalApps, RegisteredTasks,
                   LastAppId, osVars, create, bg, history>>

\* Mutant: the exit code replaces a request from outside.
ExitAppAlways(s) ==
    /\ OSTask[s].pc = "run" /\ AppContext(s)
    /\ AppTable' = [AppTable EXCEPT
            ![AppOf(TaskTable[s].app)].state = "STOPPED",
            ![AppOf(TaskTable[s].app)].req = "APP_EXIT"]
    /\ OSTask' = [OSTask EXCEPT ![s].pc = "stopped"]
    /\ UNCHANGED <<TaskTable, RegisteredExternalApps, RegisteredTasks,
                   LastAppId, LastTaskId, Modules, create, bg, history>>

\* CFE_ES_ExitApp: a request from outside is not replaced.  The caller loops
\* until it is deleted.
ExitApp(s) ==
    /\ OSTask[s].pc = "run" /\ AppContext(s)
    /\ AppTable' = [AppTable EXCEPT
            ![AppOf(TaskTable[s].app)].state = "STOPPED",
            ![AppOf(TaskTable[s].app)].req = IF @ = "APP_RUN" THEN "APP_EXIT"
                                             ELSE @]
    /\ OSTask' = [OSTask EXCEPT ![s].pc = "stopped"]
    /\ UNCHANGED <<TaskTable, RegisteredExternalApps, RegisteredTasks,
                   LastAppId, LastTaskId, Modules, create, bg, history>>

\* Without an application record CFE_ES_RunLoop says no and CFE_ES_ExitApp
\* returns: the function ends, and the task with it.
ExitWithoutContext(s) ==
    /\ OSTask[s].pc = "run" /\ ~ AppContext(s)
    /\ TaskExit(s)

\* CFE_ES_CreateChildTask: only the main task may, the check is locked.
CreateChildTask(s) ==
    /\ OSTask[s].pc = "run" /\ AppContext(s) /\ IsMain(s)
    /\ OSTask' = [OSTask EXCEPT ![s].pc = "create"]
    /\ UNCHANGED <<esVars, LastAppId, LastTaskId, Modules, create, bg, history>>

StartChildTask(s) ==
    /\ OSTask[s].pc = "create"
    /\ \/ \E t \in TaskId :
            /\ TaskCreate(t)
            /\ OSTask' = [OSTask EXCEPT
                    ![s].pc = "register", ![s].new = t,
                    ![TaskOf(t)] = [NoTask EXCEPT !.id = t, !.pc = "poll",
                                           !.creator = OSTask[s].id]]
       \/ /\ OSTask' = [OSTask EXCEPT ![s].pc = "run"]
          /\ UNCHANGED LastTaskId
    /\ UNCHANGED <<esVars, LastAppId, Modules, create, bg, history>>

\* The child is registered for the application of the check, which may have
\* been removed since.
RegisterChildTask(s) ==
    /\ OSTask[s].pc = "register"
    /\ RegisterTask(OSTask[s].new, OSTask[s].app)
    /\ OSTask' = [OSTask EXCEPT ![s].pc = "run", ![s].new = FREE]
    /\ Orphans' = IF AppRecordIsMatch(OSTask[s].app) THEN Orphans
                  ELSE Orphans \cup {OSTask[s].new}
    /\ UNCHANGED <<AppTable, RegisteredExternalApps, LastAppId, LastTaskId,
                   Modules, create, bg, Leaked>>

\* CFE_ES_DeleteChildTask, for any registered task but a main task.
DeleteChildTask(t) ==
    /\ TaskTable[TaskOf(t)].id = t
    /\ \A s \in AppSlot : AppRecordIsUsed(s) => AppTable[s].main # t
    /\ OSTask[TaskOf(t)].id = t
    /\ OSTask' = [OSTask EXCEPT ![TaskOf(t)] = NoTask]
    /\ TaskTable' = [TaskTable EXCEPT ![TaskOf(t)] = NoRecord]
    /\ RegisteredTasks' = RegisteredTasks - 1
    /\ UNCHANGED <<AppTable, RegisteredExternalApps, LastAppId, LastTaskId,
                   Modules, create, bg, history>>

\* CFE_ES_ExitChildTask: the record is freed under the lock, the task ends
\* after it.
ExitChildTask(s) ==
    /\ OSTask[s].pc = "run" /\ AppContext(s) /\ ~ IsMain(s)
    /\ TaskTable' = [TaskTable EXCEPT ![s] = NoRecord]
    /\ RegisteredTasks' = RegisteredTasks - 1
    /\ OSTask' = [OSTask EXCEPT ![s].pc = "exiting"]
    /\ UNCHANGED <<AppTable, RegisteredExternalApps, LastAppId, LastTaskId,
                   Modules, create, bg, history>>

ExitChildEnd(s) ==
    /\ OSTask[s].pc = "exiting"
    /\ TaskExit(s)

AppTask(s) ==
    \/ EnterFunction(s) \/ PollTimeout(s) \/ RunLoop(s) \/ ExitApp(s)
    \/ ExitWithoutContext(s) \/ CreateChildTask(s) \/ StartChildTask(s)
    \/ RegisterChildTask(s) \/ ExitChildTask(s) \/ ExitChildEnd(s)

-----------------------------------------------------------------------------
(***************************************************************************)
(* The background task: CFE_ES_RunAppTableScan and what it calls           *)
(***************************************************************************)
\* Mutant: only an application that was asked to go is removed.
TimedOutWaiting(s, e) ==
    /\ AppRecordIsUsed(s)
    /\ AppTable[s].state = "WAITING"
    /\ AppTable[s].timer <= e

\* The scan of the table, one locked section.  RESERVED records are scanned
\* too.  When the scan becomes due (its timer, the command counter) is left
\* open, and a call that finds it not due changes nothing here.
TimedOut(s, e) ==
    /\ AppRecordIsUsed(s)
    /\ AppTable[s].state \in {"WAITING", "STOPPED"}
    /\ AppTable[s].timer <= e

ScanRecord(s, e) ==
    CASE AppRecordIsUsed(s) /\ AppTable[s].state \in {"WAITING", "STOPPED"} ->
            [AppTable[s] EXCEPT !.timer = IF @ > e THEN @ - e ELSE 0]
      [] AppRecordIsUsed(s) /\ AppTable[s].state = "RUNNING"
                            /\ AppTable[s].req # "APP_RUN" ->
            [AppTable[s] EXCEPT !.state = "WAITING", !.timer = KillTimer]
      [] OTHER -> AppTable[s]

Scan(e) ==
    /\ bg.pc = "scan"
    /\ AppTable' = [s \in AppSlot |-> ScanRecord(s, e)]
    /\ LET due == {s \in AppSlot : TimedOut(s, e)}
       IN  bg' = [bg EXCEPT !.todo = {AppTable[s].id : s \in due},
                            !.pc = IF due = {} THEN "scan" ELSE "process"]
    /\ UNCHANGED <<TaskTable, RegisteredExternalApps, RegisteredTasks,
                   LastAppId, osVars, create, history>>

\* CFE_ES_ProcessControlRequest, for each application of the list in turn, in
\* the order of the table: it takes a snapshot of the request and the name,
\* and the first locked section of CFE_ES_CleanUpApp collects what the
\* application owns and makes every record of it RESERVED.  The two sections
\* are one action: a request that is not APP_RUN is not replaced once the
\* application is WAITING or STOPPED.  The ID still matches, because only this
\* task removes a record.
NextOf(todo) ==
    CHOOSE a \in todo : \A b \in todo : AppOf(a) <= AppOf(b)
Owned(a) == {s \in TaskSlot : TaskRecordIsUsed(s) /\ TaskTable[s].app = a}

\* Mutant: the main task, which has the application's record, is not counted.
CollectMiscounted ==
    /\ bg.pc = "process"
    /\ LET app == NextOf(bg.todo)
           mine == Owned(app)
           list == {TaskTable[s].id : s \in mine}
           rest == list \ {AppTable[AppOf(app)].main}
       IN  /\ TaskTable' = [s \in TaskSlot |->
                    IF s \in mine THEN [TaskTable[s] EXCEPT !.id = RESERVED]
                    ELSE TaskTable[s]]
           /\ AppTable' = [AppTable EXCEPT ![AppOf(app)].id = RESERVED]
           /\ RegisteredTasks' = RegisteredTasks - Cardinality(rest)
           /\ bg' = [pc |-> "children", todo |-> bg.todo \ {app},
                     app |-> app, req |-> AppTable[AppOf(app)].req,
                     name |-> AppTable[AppOf(app)].name, tasks |-> list,
                     left |-> rest]
    /\ RegisteredExternalApps' = RegisteredExternalApps - 1
    /\ UNCHANGED <<LastAppId, osVars, create, history>>

\* Mutant: the module is unloaded before the tasks are deleted.
CollectUnload ==
    /\ bg.pc = "process"
    /\ LET app == NextOf(bg.todo)
           mine == Owned(app)
           list == {TaskTable[s].id : s \in mine}
       IN  /\ TaskTable' = [s \in TaskSlot |->
                    IF s \in mine THEN [TaskTable[s] EXCEPT !.id = RESERVED]
                    ELSE TaskTable[s]]
           /\ AppTable' = [AppTable EXCEPT ![AppOf(app)].id = RESERVED]
           /\ Modules' = {m \in Modules : m[1] # app}
           /\ RegisteredTasks' = RegisteredTasks - Cardinality(mine)
           /\ bg' = [pc |-> "children", todo |-> bg.todo \ {app},
                     app |-> app, req |-> AppTable[AppOf(app)].req,
                     name |-> AppTable[AppOf(app)].name, tasks |-> list,
                     left |-> list \ {AppTable[AppOf(app)].main}]
    /\ RegisteredExternalApps' = RegisteredExternalApps - 1
    /\ UNCHANGED <<LastAppId, OSTask, LastTaskId, create, history>>

Collect ==
    /\ bg.pc = "process"
    /\ LET app == NextOf(bg.todo)
           mine == Owned(app)
           list == {TaskTable[s].id : s \in mine}
       IN  /\ TaskTable' = [s \in TaskSlot |->
                    IF s \in mine THEN [TaskTable[s] EXCEPT !.id = RESERVED]
                    ELSE TaskTable[s]]
           /\ AppTable' = [AppTable EXCEPT ![AppOf(app)].id = RESERVED]
           /\ RegisteredTasks' = RegisteredTasks - Cardinality(mine)
           /\ bg' = [pc |-> "children", todo |-> bg.todo \ {app},
                     app |-> app, req |-> AppTable[AppOf(app)].req,
                     name |-> AppTable[AppOf(app)].name, tasks |-> list,
                     left |-> list \ {AppTable[AppOf(app)].main}]
    /\ RegisteredExternalApps' = RegisteredExternalApps - 1
    /\ UNCHANGED <<LastAppId, osVars, create, history>>

\* The tasks that are alive and may be killed by OS_TaskDelete.
Kill(dead) ==
    OSTask' = [s \in TaskSlot |-> IF OSTask[s].id \in dead THEN NoTask
                                  ELSE OSTask[s]]

MainTask == AppTable[AppOf(bg.app)].main
ChildrenOf(t) == {OSTask[s].id : s \in {x \in TaskSlot : OSTask[x].creator = t}}

\* CFE_ES_CleanupTaskResources for the child tasks, which own no task.
KillChild ==
    /\ bg.pc = "children"
    /\ \E t \in bg.left : Kill({t}) /\ bg' = [bg EXCEPT !.left = @ \ {t}]
    /\ UNCHANGED <<esVars, LastAppId, LastTaskId, Modules, create, history>>

\* Then for the main task, if its record was there: OS_ForEachObject deletes
\* what it created until nothing is left ...
Reap ==
    /\ bg.pc = "children" /\ bg.left = {}
    /\ bg' = [bg EXCEPT !.pc = IF MainTask \notin bg.tasks THEN "unload"
                               ELSE IF ChildrenOf(MainTask) = {} THEN "main"
                               ELSE @]
    /\ Kill(IF MainTask \in bg.tasks THEN ChildrenOf(MainTask) ELSE {})
    /\ UNCHANGED <<esVars, LastAppId, LastTaskId, Modules, create, history>>

\* ... and OS_TaskDelete the task itself.
KillMain ==
    /\ bg.pc = "main"
    /\ Kill({MainTask})
    /\ bg' = [bg EXCEPT !.pc = "unload"]
    /\ UNCHANGED <<esVars, LastAppId, LastTaskId, Modules, create, history>>

ModuleUnload ==
    /\ bg.pc = "unload"
    /\ Modules' = {m \in Modules : m[1] # bg.app}
    /\ bg' = [bg EXCEPT !.pc = "free"]
    /\ UNCHANGED <<esVars, LastAppId, OSTask, LastTaskId, create, history>>

\* Mutant: the slots are freed whoever has them now.
FreeRecordsAll ==
    /\ bg.pc = "free"
    /\ TaskTable' = [s \in TaskSlot |->
            IF \E t \in bg.tasks : TaskOf(t) = s THEN NoRecord ELSE TaskTable[s]]
    /\ LET s == AppOf(bg.app)
       IN  AppTable' = [AppTable EXCEPT ![s] = AppRecordSetFree(s)]
    /\ RegisteredTasks' = Cardinality({s \in TaskSlot : TaskTable'[s].id # FREE})
                          + Cardinality(Overwritten)
    /\ bg' = IF bg.req = "SYS_RESTART" THEN [bg EXCEPT !.pc = "restart"]
             ELSE NextRequest
    /\ UNCHANGED <<RegisteredExternalApps, LastAppId, osVars, create, history>>

\* The last locked section: the records that are still RESERVED become free.
\* A restart goes on to CFE_ES_AppCreate.
FreeRecords ==
    /\ bg.pc = "free"
    /\ TaskTable' = [s \in TaskSlot |->
            IF TaskTable[s].id = RESERVED /\ \E t \in bg.tasks : TaskOf(t) = s
            THEN NoRecord ELSE TaskTable[s]]
    /\ LET s == AppOf(bg.app)
       IN  AppTable' = [AppTable EXCEPT ![s] =
                IF @.id = RESERVED THEN AppRecordSetFree(s) ELSE @]
    /\ bg' = IF bg.req = "SYS_RESTART" THEN [bg EXCEPT !.pc = "restart"]
             ELSE NextRequest
    /\ UNCHANGED <<RegisteredExternalApps, RegisteredTasks, LastAppId, osVars,
                   create, history>>

\* CFE_ES_AppCreate under the name of the snapshot.
Restart ==
    /\ bg.pc = "restart"
    /\ Reserve("bg", bg.name)
    /\ bg' = [bg EXCEPT !.pc = "creating"]

RestartRefused ==
    /\ bg.pc = "restart" /\ CannotReserve(bg.name)
    /\ bg' = NextRequest
    /\ UNCHANGED <<esVars, LastAppId, osVars, create, history>>

Background ==
    \/ \E e \in Elapsed : Scan(e)
    \/ Collect \/ KillChild \/ Reap \/ KillMain \/ ModuleUnload
    \/ FreeRecords \/ Restart \/ RestartRefused
    \/ AppCreate("bg")

-----------------------------------------------------------------------------
Next ==
    \/ \E n \in Names : StartAppCmd(n)
    \/ \E a \in 1..LastAppId, req \in {"SYS_DELETE", "SYS_RESTART"} :
            ControlApp(a, req)
    \/ AppCreate("es")
    \/ \E s \in TaskSlot : AppTask(s)
    \/ \E t \in TaskId : DeleteChildTask(t)
    \/ Background

Spec == Init /\ [][Next]_vars

\* The background task keeps running.  Nothing is assumed of the ES task and
\* of the applications' own tasks.
FairSpec == Spec /\ WF_vars(Background)

-----------------------------------------------------------------------------
(***************************************************************************)
(* Properties                                                              *)
(***************************************************************************)
\* Every record, count and step of the tasks stays within its type; the
\* counts of CFE_ES_Global never go below zero.
TypeOK ==
    /\ AppTable \in [AppSlot ->
            [id : AppId \cup {FREE, RESERVED}, name : Names \cup {NoName},
             state : AppState, req : Request, timer : 0..KillTimer,
             main : TaskId \cup {FREE}]]
    /\ TaskTable \in [TaskSlot ->
            [id : TaskId \cup {FREE, RESERVED}, app : AppId \cup {FREE}]]
    /\ LastAppId \in 0..LastApp /\ LastTaskId \in 0..LastTask
    /\ RegisteredExternalApps \in 0..MaxApps
    /\ RegisteredTasks \in 0..LastTask
    /\ OSTask \in [TaskSlot ->
            [id : TaskId \cup {FREE}, creator : TaskId \cup {FREE},
             pc : {"none", "poll", "run", "create", "register", "stopped",
                   "exiting"},
             app : AppId \cup {FREE}, new : TaskId \cup {FREE}]]
    /\ Modules \subseteq AppId \X Names
    /\ create \in [Creator ->
            [pc : {"idle", "load", "task", "register", "finalize", "fail"},
             name : Names \cup {NoName}, id : AppId \cup {FREE},
             task : TaskId \cup {FREE}]]
    /\ bg \in [pc : {"scan", "process", "children", "main",
                     "unload", "free", "restart", "creating"},
               todo : SUBSET AppId, app : AppId \cup {FREE}, req : Request,
               name : Names \cup {NoName}, tasks : SUBSET TaskId,
               left : SUBSET TaskId]
    /\ Orphans \subseteq TaskId /\ Leaked \subseteq AppId
    /\ Overwritten \subseteq TaskId

Registered == {s \in TaskSlot : TaskTable[s].id \in TaskId}

\* The tasks that execute code of their application's module.
InFunction ==
    {s \in TaskSlot :
        OSTask[s].pc \in {"run", "create", "register", "stopped"}}

\* CFE_ES_CleanUpApp is between its two locked sections.
Cleaning == bg.pc \in {"children", "main", "unload", "free"}

\* RegisteredExternalApps and RegisteredTasks, which telemetry reports, count
\* the registered records, however the creations, exits, deletions and the
\* clean-up interleave; the task count only keeps, for good, the records that
\* CFE_ES_StartAppTask found in use and overwrote.
CountsExact ==
    /\ TypeOK
    /\ RegisteredExternalApps =
            Cardinality({s \in AppSlot : AppTable[s].id \in AppId})
    /\ RegisteredTasks = Cardinality(Registered) + Cardinality(Overwritten)

\* No two records, reserved ones included, carry the same name: a start
\* command cannot slip in beside an application that is being created,
\* removed or restarted.
NamesUnique ==
    \A s, x \in AppSlot :
        AppRecordIsUsed(s) /\ AppRecordIsUsed(x)
            /\ AppTable[s].name = AppTable[x].name => s = x

\* A record in state RUNNING is a registered application's.  The control calls
\* test nothing else, so this is what makes a stale ID harmless while its slot
\* is free or reserved.
RunningRegistered ==
    \A s \in AppSlot : AppTable[s].state = "RUNNING" => AppTable[s].id \in AppId

\* A task that runs its application's code can find its own record, unless the
\* clean-up of its application is about to delete it or its record was
\* overwritten: a clean-up never frees the record of a task that took over
\* the slot in the meantime.
LiveRegistered ==
    \A s \in InFunction :
        \/ TaskContext(s)
        \/ Cleaning /\ OSTask[s].app = bg.app /\ OSTask[s].id \in bg.tasks
        \/ OSTask[s].id \in Overwritten

\* A module stays loaded while a task executes in it.  The exceptions are the
\* child a main task registers while CFE_ES_CleanUpApp is removing its
\* application, and a task whose record was overwritten: neither is on the
\* list of tasks to delete.  And a loaded module belongs to an application that
\* is registered, being created or being removed.  The exception is the module
\* of an application whose main task could not be created: CFE_ES_AppCreate
\* forgets it.
ModulesMatch ==
    /\ \A s \in InFunction :
        \/ \E m \in Modules : m[1] = OSTask[s].app
        \/ OSTask[s].id \in Orphans \cup Overwritten
    /\ \A m \in Modules :
        \/ AppRecordIsMatch(m[1])
        \/ \E p \in Creator : create[p].id = m[1]
        \/ Cleaning /\ bg.app = m[1]
        \/ m[1] \in Leaked

\* "The app startup will delay until the app creation is completed and
\* verified" (the comment on CFE_ES_TaskEntryPoint): no main task executes its
\* function while CFE_ES_AppCreate has not made its application known.
EntryAfterCreation ==
    \A s \in InFunction, p \in Creator :
        create[p].pc = "finalize" => create[p].task # OSTask[s].id

\* A restart that was accepted is carried out, although the application
\* answers it by calling CFE_ES_ExitApp: only a stop command replaces it, and
\* the clean-up that takes the record away goes on to CFE_ES_AppCreate.
RestartKept ==
    [][\A s \in AppSlot :
        AppTable[s].id \in AppId /\ AppTable[s].req = "SYS_RESTART" =>
            IF AppTable'[s].id = AppTable[s].id
            THEN AppTable'[s].req \in {"SYS_RESTART", "SYS_DELETE"}
            ELSE bg'.app = AppTable[s].id /\ bg'.req = "SYS_RESTART"]_vars

\* An application that exits, or is asked to stop or restart, is removed in
\* the end, whatever its tasks do (CFE_ES_RunAppTableScan).
RemovalEnds ==
    \A s \in AppSlot :
        AppTable[s].id \in AppId /\ AppTable[s].req # "APP_RUN"
            ~> AppTable[s].id \notin AppId
=============================================================================
