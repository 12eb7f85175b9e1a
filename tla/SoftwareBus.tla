---------------------------- MODULE SoftwareBus ----------------------------
(***************************************************************************)
(* The cFE Software Bus (SB): pipes, subscriptions, message buffers and    *)
(* the tasks that use them, from cfe/fsw/cfe-core/src/sb.                  *)
(*                                                                         *)
(* Every section of the code that runs between CFE_SB_LockSharedData and   *)
(* CFE_SB_UnlockSharedData is one action; a function that drops the lock   *)
(* in the middle is split there, and the task's pc[t] says where it is.    *)
(* OSAL queue calls made without the lock are actions of their own, those  *)
(* made under the lock are part of the locked action.                      *)
(***************************************************************************)
EXTENDS Integers, Sequences, FiniteSets

CONSTANTS
    Task,       \* the tasks that call the SB API
    App,        \* the applications
    AppOf,      \* the application a task belongs to
    Roles,      \* the API calls each task of this instance makes
    MsgId,      \* the valid message IDs
    TlmId,      \* those of telemetry messages (the only auto-sequenced ones)
    Buf,        \* the blocks of the SB memory pool
    NULL,       \* the null buffer pointer
    NoApp,      \* CFE_ES_APPID_UNDEFINED
    CFE_PLATFORM_SB_MAX_PIPES,
    CFE_PLATFORM_SB_MAX_MSG_IDS,
    CFE_PLATFORM_SB_MAX_DEST_PER_PKT,
    QueueDepth, \* the Depth given to CFE_SB_CreatePipe
    MsgLim,     \* the MsgLim given to CFE_SB_SubscribeEx for each pipe
    MaxPipeId,  \* bound: pipe IDs handed out (the serial number does not wrap)
    MaxSeq      \* bound: sequence counts handed out per message ID

(***************************************************************************)
(* The API calls a task may make; Roles picks some of them for each task.  *)
(***************************************************************************)
ApiCall == {"create", "delete", "subscribe", "unsubscribe", "send", "receive",
            "zerocopy", "opts", "byname", "route", "exit", "cleanup"}

ASSUME SBAssumption ==
    /\ CFE_PLATFORM_SB_MAX_PIPES \in Nat \ {0}
    /\ CFE_PLATFORM_SB_MAX_MSG_IDS \in Nat
    /\ CFE_PLATFORM_SB_MAX_DEST_PER_PKT \in Nat
    /\ QueueDepth \in Nat \ {0}
    /\ MsgLim \in [1..MaxPipeId -> Nat]
    /\ MaxPipeId \in Nat
    /\ MaxSeq \in Nat
    /\ IsFiniteSet(Task)
    /\ IsFiniteSet(Buf)
    /\ IsFiniteSet(MsgId)
    /\ NULL \notin Buf \cup MsgId
    /\ NoApp \notin App
    /\ AppOf \in [Task -> App]
    /\ Roles \in [Task -> SUBSET ApiCall]
    /\ TlmId \subseteq MsgId

FREE     == 0      \* CFE_RESOURCEID_UNDEFINED in a pipe descriptor
RESERVED == -1     \* CFE_RESOURCEID_RESERVED

PID  == 1..MaxPipeId                          \* serial numbers of pipe IDs
Slot == 0..(CFE_PLATFORM_SB_MAX_PIPES - 1)    \* indices of PipeTbl

\* CFE_SB_PipeId_ToIndex: the table index is the serial modulo the table size.
SlotOf(p) == p % CFE_PLATFORM_SB_MAX_PIPES

VARIABLES
    \* CFE_SB_Global.PipeTbl, by field, and LastPipeId
    PipeId, PipeApp, IgnoreMine, SysQueueId, LastBuffer, CurrentQueueDepth,
    LastPipeId,
    \* the routing table: routes added, sequence counters, destinations
    Routes, SeqCnt, Dests, Active, BuffCount,
    \* the OSAL message queues
    QLive, Queue,
    \* the buffer descriptors; a block with UseCount 0 is in the pool
    UseCount, Tracked, BufApp, BufMsgId, BufSeq,
    \* the gauges of the statistics packet
    PipesInUse, SubscriptionsInUse, SBBuffersInUse,
    \* the tasks: where each is, its locals, and the zero copy handle it holds
    pc, tPipe, tQueue, tBuf, tMsg, tRoute, zcHandle,
    \* CFE_SB_CleanUpApp: the application and the pipes still to delete
    tApp, tDelList

pipeVars  == <<PipeId, PipeApp, IgnoreMine, SysQueueId, LastBuffer,
               CurrentQueueDepth, LastPipeId>>
routeVars == <<Routes, SeqCnt, Dests, Active, BuffCount>>
osVars    == <<QLive, Queue>>
bufVars   == <<UseCount, Tracked, BufApp, BufMsgId, BufSeq, SBBuffersInUse>>
taskVars  == <<pc, tPipe, tQueue, tBuf, tMsg, tRoute, zcHandle, tApp, tDelList>>
vars == <<pipeVars, routeVars, osVars, bufVars, PipesInUse,
          SubscriptionsInUse, taskVars>>

PC == {"idle", "create_queue", "create_fill", "create_fail",
       "delete_unref", "delete_get", "delete_queue", "delete_free",
       "send_alloc", "broadcast", "send_events",
       "receive_get", "receive_store", "byname_scan", "byname_return",
       "cleanup", "exited"}

-----------------------------------------------------------------------------
(***************************************************************************)
(* Helpers                                                                 *)
(***************************************************************************)
\* CFE_SB_PipeDescIsMatch on the descriptor CFE_SB_LocatePipeDescByID finds.
PipeDescIsMatch(p) == p \in PID /\ PipeId[SlotOf(p)] = p

\* The task is not in an SB call and may make this one.
MayCall(t, call) == pc[t] = "idle" /\ call \in Roles[t]

\* The task goes to another point of the call it is in.
Goto(t, label) == pc' = [pc EXCEPT ![t] = label]

\* The call returns: the task's locals are gone.
Return(t) ==
    /\ Goto(t, "idle")
    /\ tPipe'  = [tPipe  EXCEPT ![t] = FREE]
    /\ tQueue' = [tQueue EXCEPT ![t] = FREE]
    /\ tBuf'   = [tBuf   EXCEPT ![t] = NULL]

FreeBufs == {b \in Buf : UseCount[b] = 0}

\* CFE_SB_GetBufferFromPool when CFE_ES_GetPoolBuf hands out block b.
GetBufferFromPool(b, msg, app, list) ==
    /\ b \in FreeBufs
    /\ UseCount' = [UseCount EXCEPT ![b] = 1]
    /\ SBBuffersInUse' = SBBuffersInUse + 1
    /\ BufMsgId' = [BufMsgId EXCEPT ![b] = msg]
    /\ BufSeq' = [BufSeq EXCEPT ![b] = 0]
    /\ BufApp' = [BufApp EXCEPT ![b] = app]
    /\ Tracked' = [Tracked EXCEPT ![b] = list]

\* Mutant: the gauge goes down on every release, not only on the last one.
DecrGaugeAlways(S) ==
    LET Released == {b \in S : UseCount[b] = 1}
    IN  /\ UseCount' = [b \in Buf |-> IF b \in S THEN UseCount[b] - 1 ELSE UseCount[b]]
        /\ Tracked' = [b \in Buf |-> IF b \in Released THEN "none" ELSE Tracked[b]]
        /\ SBBuffersInUse' = SBBuffersInUse - Cardinality(S)

\* CFE_SB_DecrBufUseCnt and, at zero, CFE_SB_ReturnBufferToPool, once for
\* each buffer of S.
DecrBufUseCnt(S) ==
    LET Released == {b \in S : UseCount[b] = 1}
    IN  /\ UseCount' = [b \in Buf |-> IF b \in S /\ UseCount[b] > 0
                                      THEN UseCount[b] - 1 ELSE UseCount[b]]
        /\ Tracked' = [b \in Buf |-> IF b \in Released THEN "none"
                                     ELSE Tracked[b]]
        /\ SBBuffersInUse' = SBBuffersInUse - Cardinality(Released)

-----------------------------------------------------------------------------
(***************************************************************************)
(* CFE_SB_CreatePipe                                                       *)
(***************************************************************************)
\* Mutant: the search starts at the table's first entry every time.
NextPipeIdFromStart ==
    LET Candidate == {p \in 1..CFE_PLATFORM_SB_MAX_PIPES : PipeId[SlotOf(p)] = FREE}
    IN  {p \in Candidate : \A r \in Candidate : p <= r}

\* CFE_ResourceId_FindNext: the next serial whose slot is not in use.
NextPipeId ==
    LET Candidate == {p \in (LastPipeId + 1)..(LastPipeId + CFE_PLATFORM_SB_MAX_PIPES) :
                        PipeId[SlotOf(p)] = FREE}
    IN  {p \in Candidate : \A r \in Candidate : p <= r}

\* The memset of the descriptor, for the depth it held.
ClearedDepth(old) == 0

\* First locked section: reserve a descriptor, or return MAX_PIPES_MET.
CreatePipe(t) ==
    /\ MayCall(t, "create")
    /\ \E p \in NextPipeId \cap PID :
        /\ PipeId' = [PipeId EXCEPT ![SlotOf(p)] = RESERVED]
        /\ PipeApp' = [PipeApp EXCEPT ![SlotOf(p)] = NoApp]
        /\ IgnoreMine' = [IgnoreMine EXCEPT ![SlotOf(p)] = FALSE]
        /\ SysQueueId' = [SysQueueId EXCEPT ![SlotOf(p)] = FREE]
        /\ LastBuffer' = [LastBuffer EXCEPT ![SlotOf(p)] = NULL]
        /\ CurrentQueueDepth' = [CurrentQueueDepth EXCEPT ![SlotOf(p)] = ClearedDepth(@)]
        /\ LastPipeId' = p
        /\ tPipe' = [tPipe EXCEPT ![t] = p]
    /\ Goto(t, "create_queue")
    /\ UNCHANGED <<routeVars, osVars, bufVars, PipesInUse, SubscriptionsInUse,
                   tQueue, tBuf, tMsg, tRoute, zcHandle, tApp, tDelList>>

\* OS_QueueCreate, without the lock. A fresh OSAL object is named after the
\* pipe ID it is created for.
CreateQueue(t) ==
    /\ pc[t] = "create_queue"
    /\ \/ /\ QLive' = QLive \cup {tPipe[t]}
          /\ Queue' = [Queue EXCEPT ![tPipe[t]] = <<>>]
          /\ tQueue' = [tQueue EXCEPT ![t] = tPipe[t]]
          /\ Goto(t, "create_fill")
       \/ /\ Goto(t, "create_fail")       \* name taken, no free IDs, ...
          /\ UNCHANGED <<osVars, tQueue>>
    /\ UNCHANGED <<pipeVars, routeVars, bufVars, PipesInUse,
                   SubscriptionsInUse, tPipe, tBuf, tMsg, tRoute, zcHandle,
                   tApp, tDelList>>

\* Second locked section, the queue exists: the pipe comes into being.
CreateFill(t) ==
    /\ pc[t] = "create_fill"
    /\ PipeId' = [PipeId EXCEPT ![SlotOf(tPipe[t])] = tPipe[t]]
    /\ PipeApp' = [PipeApp EXCEPT ![SlotOf(tPipe[t])] = AppOf[t]]
    /\ SysQueueId' = [SysQueueId EXCEPT ![SlotOf(tPipe[t])] = tQueue[t]]
    /\ PipesInUse' = PipesInUse + 1
    /\ Return(t)
    /\ UNCHANGED <<IgnoreMine, LastBuffer, CurrentQueueDepth, LastPipeId,
                   routeVars, osVars, bufVars, SubscriptionsInUse, tMsg,
                   tRoute, zcHandle, tApp, tDelList>>

\* Second locked section, OS_QueueCreate failed: the descriptor is freed.
CreateFail(t) ==
    /\ pc[t] = "create_fail"
    /\ PipeId' = [PipeId EXCEPT ![SlotOf(tPipe[t])] = FREE]
    /\ Return(t)
    /\ UNCHANGED <<PipeApp, IgnoreMine, SysQueueId, LastBuffer,
                   CurrentQueueDepth, LastPipeId, routeVars, osVars, bufVars,
                   PipesInUse, SubscriptionsInUse, tMsg, tRoute, zcHandle,
                   tApp, tDelList>>

-----------------------------------------------------------------------------
(***************************************************************************)
(* CFE_SB_DeletePipe and CFE_SB_DeletePipeWithAppId: CFE_SB_DeletePipeFull *)
(* on behalf of the owner, DeleteFor(t).                                   *)
(***************************************************************************)
DeleteFor(t) == IF tApp[t] = NoApp THEN AppOf[t] ELSE tApp[t]

\* Mutant: the pipe is deleted but stays a destination.
RoutesKept(p) == Dests

\* CFE_SB_RemovePipeFromRoute for every route.
RoutesWithout(p) == [m \in MsgId |-> Dests[m] \ {p}]

\* Mutant: the buffer the reader last got is forgotten.
DrainOnly(p) == "delete_get"

\* The drain loop starts with the pipe's LastBuffer, if there is one.
FirstDrainStep(p) == IF LastBuffer[SlotOf(p)] = NULL THEN "delete_get" ELSE "delete_unref"

\* First locked section: drop every route to the pipe, remember its queue and
\* the buffer its reader holds, and invalidate the pipe ID.
DeletePipeReserve(t, p) ==
    /\ PipeDescIsMatch(p)
    /\ PipeApp[SlotOf(p)] = DeleteFor(t)
    /\ Dests' = RoutesWithout(p)
    /\ Active' = [m \in MsgId |-> Active[m] \ {p}]
    /\ BuffCount' = [m \in MsgId |-> [BuffCount[m] EXCEPT ![p] = 0]]
    /\ SubscriptionsInUse' =
          SubscriptionsInUse - Cardinality({m \in MsgId : p \in Dests[m]})
    /\ tPipe' = [tPipe EXCEPT ![t] = p]
    /\ tQueue' = [tQueue EXCEPT ![t] = SysQueueId[SlotOf(p)]]
    /\ tBuf' = [tBuf EXCEPT ![t] = LastBuffer[SlotOf(p)]]
    /\ Goto(t, FirstDrainStep(p))
    /\ PipeId' = [PipeId EXCEPT ![SlotOf(p)] = RESERVED]
    /\ UNCHANGED <<PipeApp, IgnoreMine, SysQueueId, LastBuffer,
                   CurrentQueueDepth, LastPipeId, Routes, SeqCnt, osVars,
                   bufVars, PipesInUse, tMsg, tRoute, zcHandle, tApp>>

DeletePipe(t, p) ==
    /\ MayCall(t, "delete")
    /\ DeletePipeReserve(t, p)
    /\ UNCHANGED tDelList

\* The locked section of the drain loop: release the buffer just taken.
DeleteUnref(t) ==
    /\ pc[t] = "delete_unref"
    /\ DecrBufUseCnt({tBuf[t]})
    /\ tBuf' = [tBuf EXCEPT ![t] = NULL]
    /\ Goto(t, "delete_get")
    /\ UNCHANGED <<pipeVars, routeVars, osVars, BufApp, BufMsgId, BufSeq,
                   PipesInUse, SubscriptionsInUse, tPipe, tQueue, tMsg,
                   tRoute, zcHandle, tApp, tDelList>>

\* Mutant: the drain waits for a message instead of polling.
DeleteGetPend(t) ==
    /\ pc[t] = "delete_get"
    /\ Queue[tQueue[t]] # <<>>
    /\ tBuf' = [tBuf EXCEPT ![t] = Head(Queue[tQueue[t]])]
    /\ Queue' = [Queue EXCEPT ![tQueue[t]] = Tail(@)]
    /\ Goto(t, "delete_unref")
    /\ UNCHANGED <<pipeVars, routeVars, QLive, bufVars, PipesInUse,
                   SubscriptionsInUse, tPipe, tQueue, tMsg, tRoute, zcHandle,
                   tApp, tDelList>>

\* OS_QueueGet with OS_CHECK, without the lock.
DeleteGet(t) ==
    /\ pc[t] = "delete_get"
    /\ IF Queue[tQueue[t]] # <<>>
       THEN /\ tBuf' = [tBuf EXCEPT ![t] = Head(Queue[tQueue[t]])]
            /\ Queue' = [Queue EXCEPT ![tQueue[t]] = Tail(@)]
            /\ Goto(t, "delete_unref")
       ELSE /\ Goto(t, "delete_queue")
            /\ UNCHANGED <<Queue, tBuf>>
    /\ UNCHANGED <<pipeVars, routeVars, QLive, bufVars, PipesInUse,
                   SubscriptionsInUse, tPipe, tQueue, tMsg, tRoute, zcHandle,
                   tApp, tDelList>>

\* Mutant: the pipe's queue is not deleted.
DeleteQueueForgotten(t) ==
    /\ pc[t] = "delete_queue"
    /\ Goto(t, "delete_free")
    /\ UNCHANGED <<pipeVars, routeVars, osVars, bufVars, PipesInUse,
                   SubscriptionsInUse, tPipe, tQueue, tBuf, tMsg, tRoute,
                   zcHandle, tApp, tDelList>>

\* OS_QueueDelete, without the lock.
DeleteQueue(t) ==
    /\ pc[t] = "delete_queue"
    /\ QLive' = QLive \ {tQueue[t]}
    /\ Goto(t, "delete_free")
    /\ UNCHANGED <<pipeVars, routeVars, Queue, bufVars, PipesInUse,
                   SubscriptionsInUse, tPipe, tQueue, tBuf, tMsg, tRoute,
                   zcHandle, tApp, tDelList>>

\* Final locked section: the descriptor can be used again. A deletion made by
\* CFE_SB_CleanUpApp goes on with its list.
DeleteFree(t) ==
    /\ pc[t] = "delete_free"
    /\ PipeId' = [PipeId EXCEPT ![SlotOf(tPipe[t])] = FREE]
    /\ PipesInUse' = PipesInUse - 1
    /\ Goto(t, IF tApp[t] = NoApp THEN "idle" ELSE "cleanup")
    /\ tPipe' = [tPipe EXCEPT ![t] = FREE]
    /\ tQueue' = [tQueue EXCEPT ![t] = FREE]
    /\ UNCHANGED <<PipeApp, IgnoreMine, SysQueueId, LastBuffer,
                   CurrentQueueDepth, LastPipeId, routeVars, osVars, bufVars,
                   SubscriptionsInUse, tBuf, tMsg, tRoute, zcHandle, tApp,
                   tDelList>>

-----------------------------------------------------------------------------
(***************************************************************************)
(* Pipe options and lookup by name                                         *)
(***************************************************************************)
\* CFE_SB_SetPipeOpts
SetPipeOpts(t, p, ignore) ==
    /\ MayCall(t, "opts")
    /\ PipeDescIsMatch(p)
    /\ PipeApp[SlotOf(p)] = AppOf[t]
    /\ IgnoreMine' = [IgnoreMine EXCEPT ![SlotOf(p)] = ignore]
    /\ UNCHANGED <<PipeId, PipeApp, SysQueueId, LastBuffer, CurrentQueueDepth,
                   LastPipeId, routeVars, osVars, bufVars, PipesInUse,
                   SubscriptionsInUse, taskVars>>

\* CFE_SB_GetPipeIdByName: OS_QueueGetIdByName, without the lock.
GetPipeIdByName(t, q) ==
    /\ MayCall(t, "byname")
    /\ q \in QLive
    /\ tQueue' = [tQueue EXCEPT ![t] = q]
    /\ Goto(t, "byname_scan")
    /\ UNCHANGED <<pipeVars, routeVars, osVars, bufVars, PipesInUse,
                   SubscriptionsInUse, tPipe, tBuf, tMsg, tRoute, zcHandle,
                   tApp, tDelList>>

\* ... then, locked, the scan of PipeTbl for the queue: CFE_SUCCESS and the ID
\* found in the descriptor, or BAD_ARGUMENT.
ByNameScan(t) ==
    LET Found == {s \in Slot : SysQueueId[s] = tQueue[t]}
    IN  /\ pc[t] = "byname_scan"
        /\ IF Found = {}
           THEN Goto(t, "idle") /\ UNCHANGED tPipe
           ELSE /\ Goto(t, "byname_return")
                /\ \E s \in Found :
                     /\ \A r \in Found : s <= r
                     /\ tPipe' = [tPipe EXCEPT ![t] = PipeId[s]]
        /\ tQueue' = [tQueue EXCEPT ![t] = FREE]
        /\ UNCHANGED <<pipeVars, routeVars, osVars, bufVars, PipesInUse,
                       SubscriptionsInUse, tBuf, tMsg, tRoute, zcHandle, tApp,
                       tDelList>>

ByNameReturn(t) ==
    /\ pc[t] = "byname_return"
    /\ Return(t)
    /\ UNCHANGED <<pipeVars, routeVars, osVars, bufVars, PipesInUse,
                   SubscriptionsInUse, tMsg, tRoute, zcHandle, tApp, tDelList>>

-----------------------------------------------------------------------------
(***************************************************************************)
(* Subscriptions. The destination list of a route is a set of pipe IDs:    *)
(* delivery to one destination does not depend on the others, so their     *)
(* order is not observable here.                                           *)
(***************************************************************************)
\* CFE_SB_SubscribeFull past its argument checks. The route that
\* CFE_SBR_AddRoute adds stays even if no destination block can be had.
Subscribe(t, m, p) ==
    /\ MayCall(t, "subscribe")
    /\ PipeDescIsMatch(p)
    /\ PipeApp[SlotOf(p)] = AppOf[t]
    /\ p \notin Dests[m]                        \* else a duplicate: no change
    /\ m \in Routes \/ Cardinality(Routes) < CFE_PLATFORM_SB_MAX_MSG_IDS
    /\ Routes' = Routes \cup {m}
    /\ \/ /\ Cardinality(Dests[m]) < CFE_PLATFORM_SB_MAX_DEST_PER_PKT
          /\ Dests' = [Dests EXCEPT ![m] = @ \cup {p}]
          /\ Active' = [Active EXCEPT ![m] = @ \cup {p}]
          /\ BuffCount' = [BuffCount EXCEPT ![m][p] = 0]
          /\ SubscriptionsInUse' = SubscriptionsInUse + 1
       \/ UNCHANGED <<Dests, Active, BuffCount, SubscriptionsInUse>>
    /\ UNCHANGED <<pipeVars, SeqCnt, osVars, bufVars, PipesInUse, taskVars>>

\* CFE_SB_UnsubscribeFull past its argument checks.
Unsubscribe(t, m, p) ==
    /\ MayCall(t, "unsubscribe")
    /\ PipeDescIsMatch(p)
    /\ PipeApp[SlotOf(p)] = AppOf[t]
    /\ p \in Dests[m]
    /\ Dests' = [Dests EXCEPT ![m] = @ \ {p}]
    /\ Active' = [Active EXCEPT ![m] = @ \ {p}]
    /\ BuffCount' = [BuffCount EXCEPT ![m][p] = 0]
    /\ SubscriptionsInUse' = SubscriptionsInUse - 1
    /\ UNCHANGED <<pipeVars, Routes, SeqCnt, osVars, bufVars, PipesInUse,
                   taskVars>>

\* CFE_SB_EnableRouteCmd and CFE_SB_DisableRouteCmd
SetRoute(t, m, p, enable) ==
    /\ MayCall(t, "route")
    /\ PipeDescIsMatch(p)
    /\ p \in Dests[m]
    /\ Active' = [Active EXCEPT ![m] = IF enable THEN @ \cup {p} ELSE @ \ {p}]
    /\ UNCHANGED <<pipeVars, Routes, SeqCnt, Dests, BuffCount, osVars, bufVars,
                   PipesInUse, SubscriptionsInUse, taskVars>>

-----------------------------------------------------------------------------
(***************************************************************************)
(* Sending                                                                 *)
(***************************************************************************)
\* CFE_SB_TransmitMsg: CFE_SB_TransmitMsgValidate looks the route up under the
\* lock. Without a route there is nothing to send and the call returns.
TransmitMsg(t, m) ==
    /\ MayCall(t, "send")
    /\ m \in Routes
    /\ tMsg' = [tMsg EXCEPT ![t] = m]
    /\ tRoute' = [tRoute EXCEPT ![t] = TRUE]
    /\ Goto(t, "send_alloc")
    /\ UNCHANGED <<pipeVars, routeVars, osVars, bufVars, PipesInUse,
                   SubscriptionsInUse, tPipe, tQueue, tBuf, zcHandle, tApp,
                   tDelList>>

\* Mutant: the sequence count is taken before the broadcast's locked section.
SendAllocSequenced(t) ==
    /\ pc[t] = "send_alloc"
    /\ SeqCnt[tMsg[t]] < MaxSeq
    /\ SeqCnt' = [SeqCnt EXCEPT ![tMsg[t]] = @ + 1]
    /\ \E b \in FreeBufs :
         /\ UseCount' = [UseCount EXCEPT ![b] = 1]
         /\ BufMsgId' = [BufMsgId EXCEPT ![b] = tMsg[t]]
         /\ BufSeq' = [BufSeq EXCEPT ![b] = SeqCnt[tMsg[t]] + 1]
         /\ tBuf' = [tBuf EXCEPT ![t] = b]
    /\ SBBuffersInUse' = SBBuffersInUse + 1
    /\ Goto(t, "broadcast")
    /\ UNCHANGED <<pipeVars, Routes, Dests, Active, BuffCount, osVars, Tracked, BufApp,
                   PipesInUse, SubscriptionsInUse, tPipe, tQueue, tMsg, tRoute,
                   zcHandle, tApp, tDelList>>

\* ... the second locked section gets a buffer, which the task then fills, or
\* fails with BUF_ALOC_ERR.
SendAlloc(t) ==
    /\ pc[t] = "send_alloc"
    /\ \/ \E b \in Buf :
            /\ GetBufferFromPool(b, tMsg[t], NoApp, "none")
            /\ tBuf' = [tBuf EXCEPT ![t] = b]
            /\ Goto(t, "broadcast")
            /\ UNCHANGED <<tMsg, tRoute>>
       \/ /\ Goto(t, "idle")
          /\ tMsg' = [tMsg EXCEPT ![t] = NULL]
          /\ tRoute' = [tRoute EXCEPT ![t] = FALSE]
          /\ UNCHANGED <<bufVars, tBuf>>
    /\ UNCHANGED <<pipeVars, routeVars, osVars, PipesInUse,
                   SubscriptionsInUse, tPipe, tQueue, zcHandle, tApp, tDelList>>

\* The destinations CFE_SB_BroadcastBufferToRoute tries for a message of t.
Eligible(t, m) ==
    {p \in Active[m] : /\ PipeDescIsMatch(p)
                       /\ ~ (IgnoreMine[SlotOf(p)] /\ PipeApp[SlotOf(p)] = AppOf[t])}

\* Those it delivers to: the message limit is not reached and OS_QueuePut
\* finds the queue, and finds room in it.
Accepting(t, m) ==
    {p \in Eligible(t, m) : /\ BuffCount[m][p] < MsgLim[p]
                            /\ SysQueueId[SlotOf(p)] \in QLive
                            /\ Len(Queue[SysQueueId[SlotOf(p)]]) < QueueDepth}

\* One CFE_SB_IncrBufUseCnt for each of n destinations, one DecrBufUseCnt for
\* the sender, which leaves a count of zero alone.
UseAfter(b, n) == IF UseCount[b] + n > 0 THEN UseCount[b] + n - 1 ELSE 0

\* The buffer is moved to InTransitList, and leaves it if it goes to the pool.
ListAfter(b, use) == IF use = 0 THEN "none" ELSE "transit"

\* CFE_SB_BroadcastBufferToRoute, the locked section. The buffer is put on the
\* queue of each accepting destination, and the sender's own reference is
\* given up. Gets from these queues are not locked out, but each commutes with
\* the puts to other queues, so the loop is one step.
Broadcast(t) ==
    LET b == tBuf[t]
        m == BufMsgId[b]
        Acc == IF tRoute[t] THEN Accepting(t, m) ELSE {}
        AccQueues == {SysQueueId[SlotOf(p)] : p \in Acc}
        Use == UseAfter(b, Cardinality(Acc))
        Err == tRoute[t] /\ Acc # Eligible(t, m)
    IN  /\ pc[t] = "broadcast"
        /\ \E auto \in BOOLEAN :
             IF auto /\ tRoute[t] /\ m \in TlmId
             THEN /\ SeqCnt[m] < MaxSeq
                  /\ SeqCnt' = [SeqCnt EXCEPT ![m] = @ + 1]
                  /\ BufSeq' = [BufSeq EXCEPT ![b] = SeqCnt[m] + 1]
             ELSE UNCHANGED <<SeqCnt, BufSeq>>
        /\ Queue' = [q \in PID |-> IF q \in AccQueues THEN Append(Queue[q], b)
                                   ELSE Queue[q]]
        /\ BuffCount' = [BuffCount EXCEPT ![m] =
                           [p \in PID |-> IF p \in Acc THEN @[p] + 1 ELSE @[p]]]
        /\ CurrentQueueDepth' =
             [s \in Slot |-> IF \E p \in Acc : SlotOf(p) = s
                             THEN CurrentQueueDepth[s] + 1
                             ELSE CurrentQueueDepth[s]]
        /\ BufApp' = [BufApp EXCEPT ![b] = NoApp]
        /\ UseCount' = [UseCount EXCEPT ![b] = Use]
        /\ Tracked' = [Tracked EXCEPT ![b] = ListAfter(b, Use)]
        /\ SBBuffersInUse' = IF Use = 0 THEN SBBuffersInUse - 1 ELSE SBBuffersInUse
        /\ IF Err
           THEN Goto(t, "send_events") /\ UNCHANGED <<tBuf, tMsg>>
           ELSE /\ Goto(t, "idle")
                /\ tBuf' = [tBuf EXCEPT ![t] = NULL]
                /\ tMsg' = [tMsg EXCEPT ![t] = NULL]
        /\ tRoute' = [tRoute EXCEPT ![t] = FALSE]
        /\ UNCHANGED <<PipeId, PipeApp, IgnoreMine, SysQueueId, LastBuffer,
                       LastPipeId, Routes, Dests, Active, QLive, BufMsgId,
                       PipesInUse, SubscriptionsInUse, tPipe, tQueue, zcHandle,
                       tApp, tDelList>>

\* Mutant: the buffer is written after the reference was given up.
SendEventsStamp(t) ==
    /\ pc[t] = "send_events"
    /\ Goto(t, "idle")
    /\ BufSeq' = [BufSeq EXCEPT ![tBuf[t]] = 0]
    /\ tBuf' = [tBuf EXCEPT ![t] = NULL]
    /\ tMsg' = [tMsg EXCEPT ![t] = NULL]
    /\ UNCHANGED <<pipeVars, routeVars, osVars, UseCount, Tracked, BufApp,
                   BufMsgId, SBBuffersInUse, PipesInUse, SubscriptionsInUse,
                   tPipe, tQueue, tRoute, zcHandle, tApp, tDelList>>

\* ... after the lock is released, the events for the destinations that did
\* not take the message; their text reads BufDscPtr->MsgId.
SendEvents(t) ==
    /\ pc[t] = "send_events"
    /\ Goto(t, "idle")
    /\ tBuf' = [tBuf EXCEPT ![t] = NULL]
    /\ tMsg' = [tMsg EXCEPT ![t] = NULL]
    /\ UNCHANGED <<pipeVars, routeVars, osVars, bufVars, PipesInUse,
                   SubscriptionsInUse, tPipe, tQueue, tRoute, zcHandle, tApp,
                   tDelList>>

-----------------------------------------------------------------------------
(***************************************************************************)
(* Zero copy buffers. The handle a task got belongs to that task.          *)
(***************************************************************************)
\* CFE_SB_ZeroCopyGetPtr, when the pool has a block.
ZeroCopyGetPtr(t) ==
    /\ MayCall(t, "zerocopy")
    /\ zcHandle[t] = NULL
    /\ \E b \in Buf :
         /\ GetBufferFromPool(b, NULL, AppOf[t], "zerocopy")
         /\ zcHandle' = [zcHandle EXCEPT ![t] = b]
    /\ UNCHANGED <<pipeVars, routeVars, osVars, PipesInUse,
                   SubscriptionsInUse, pc, tPipe, tQueue, tBuf, tMsg, tRoute,
                   tApp, tDelList>>

\* CFE_SB_ZeroCopyHandleValidate
HandleValidate(t) == zcHandle[t] # NULL /\ BufApp[zcHandle[t]] # NoApp

\* CFE_SB_ZeroCopyReleasePtr
ZeroCopyReleasePtr(t) ==
    /\ MayCall(t, "zerocopy")
    /\ HandleValidate(t)
    /\ BufApp' = [BufApp EXCEPT ![zcHandle[t]] = NoApp]
    /\ DecrBufUseCnt({zcHandle[t]})
    /\ zcHandle' = [zcHandle EXCEPT ![t] = NULL]
    /\ UNCHANGED <<pipeVars, routeVars, osVars, BufMsgId, BufSeq, PipesInUse,
                   SubscriptionsInUse, pc, tPipe, tQueue, tBuf, tMsg, tRoute,
                   tApp, tDelList>>

\* CFE_SB_TransmitBuffer up to the broadcast: here a missing route does not
\* end the call, the broadcast then only consumes the buffer.
TransmitBuffer(t, m) ==
    /\ MayCall(t, "zerocopy")
    /\ HandleValidate(t)
    /\ BufMsgId' = [BufMsgId EXCEPT ![zcHandle[t]] = m]
    /\ tBuf' = [tBuf EXCEPT ![t] = zcHandle[t]]
    /\ zcHandle' = [zcHandle EXCEPT ![t] = NULL]
    /\ tMsg' = [tMsg EXCEPT ![t] = m]
    /\ tRoute' = [tRoute EXCEPT ![t] = m \in Routes]
    /\ Goto(t, "broadcast")
    /\ UNCHANGED <<pipeVars, routeVars, osVars, UseCount, Tracked, BufApp,
                   BufSeq, SBBuffersInUse, PipesInUse, SubscriptionsInUse,
                   tPipe, tQueue, tApp, tDelList>>

-----------------------------------------------------------------------------
(***************************************************************************)
(* CFE_SB_ReceiveBuffer. A pipe has one reader at a time: each call hands  *)
(* back the buffer of the call before it (cfe_sb_api.c:1942-1956).         *)
(***************************************************************************)
Receiving(t, p) == tPipe[t] = p /\ pc[t] \in {"receive_get", "receive_store"}

\* First locked section: release the previous buffer, look up the queue.
ReceiveBuffer(t, p) ==
    /\ MayCall(t, "receive")
    /\ PipeDescIsMatch(p)
    /\ \A u \in Task : ~ Receiving(u, p)
    /\ tPipe' = [tPipe EXCEPT ![t] = p]
    /\ tQueue' = [tQueue EXCEPT ![t] = SysQueueId[SlotOf(p)]]
    /\ DecrBufUseCnt({LastBuffer[SlotOf(p)]} \ {NULL})
    /\ LastBuffer' = [LastBuffer EXCEPT ![SlotOf(p)] = NULL]
    /\ Goto(t, "receive_get")
    /\ UNCHANGED <<PipeId, PipeApp, IgnoreMine, SysQueueId, CurrentQueueDepth,
                   LastPipeId, routeVars, osVars, BufApp, BufMsgId, BufSeq,
                   PipesInUse, SubscriptionsInUse, tBuf, tMsg, tRoute,
                   zcHandle, tApp, tDelList>>

\* OS_QueueGet, without the lock, finds a message.
ReceiveGet(t) ==
    /\ pc[t] = "receive_get"
    /\ tQueue[t] \in QLive
    /\ Queue[tQueue[t]] # <<>>
    /\ tBuf' = [tBuf EXCEPT ![t] = Head(Queue[tQueue[t]])]
    /\ Queue' = [Queue EXCEPT ![tQueue[t]] = Tail(@)]
    /\ Goto(t, "receive_store")
    /\ UNCHANGED <<pipeVars, routeVars, QLive, bufVars, PipesInUse,
                   SubscriptionsInUse, tPipe, tQueue, tMsg, tRoute, zcHandle,
                   tApp, tDelList>>

\* OS_QueueGet times out (or polls) on an empty queue, or the queue is gone.
ReceiveNone(t) ==
    /\ pc[t] = "receive_get"
    /\ tQueue[t] \in QLive => Queue[tQueue[t]] = <<>>
    /\ Return(t)
    /\ UNCHANGED <<pipeVars, routeVars, osVars, bufVars, PipesInUse,
                   SubscriptionsInUse, tMsg, tRoute, zcHandle, tApp, tDelList>>

\* Mutant: the pipe is assumed to be the one that was looked up before the get.
SamePipeAssumed(p) == TRUE

\* The pipe may have been deleted, and its slot used again, during the get.
SamePipe(p) == PipeDescIsMatch(p)

\* Mutant: the count of the destination is not taken back.
CountKept(m, p) == BuffCount

\* The destination's BuffCount goes down if the pipe is still subscribed.
CountAfterReceive(m, p) ==
    IF p \in Dests[m] /\ BuffCount[m][p] > 0 THEN [BuffCount EXCEPT ![m][p] = @ - 1]
    ELSE BuffCount

\* Second locked section: the descriptor takes over the queue's reference if
\* it is still the same pipe's, else the buffer is released.
ReceiveStore(t) ==
    LET p == tPipe[t]
        b == tBuf[t]
        m == BufMsgId[b]
    IN  /\ pc[t] = "receive_store"
        /\ IF SamePipe(p)
           THEN /\ LastBuffer' = [LastBuffer EXCEPT ![SlotOf(p)] = b]
                /\ BuffCount' = CountAfterReceive(m, p)
                /\ CurrentQueueDepth' =
                     [CurrentQueueDepth EXCEPT ![SlotOf(p)] = IF @ > 0 THEN @ - 1 ELSE @]
                \* IncrBufUseCnt for LastBuffer, DecrBufUseCnt for the queue
                /\ UNCHANGED <<UseCount, Tracked, SBBuffersInUse>>
           ELSE /\ DecrBufUseCnt({b})
                /\ UNCHANGED <<LastBuffer, BuffCount, CurrentQueueDepth>>
        /\ Return(t)
        /\ UNCHANGED <<PipeId, PipeApp, IgnoreMine, SysQueueId, LastPipeId,
                       Routes, SeqCnt, Dests, Active, osVars, BufApp, BufMsgId,
                       BufSeq, PipesInUse, SubscriptionsInUse, tMsg, tRoute,
                       zcHandle, tApp, tDelList>>

-----------------------------------------------------------------------------
(***************************************************************************)
(* The end of an application. CFE_ES_ExitApp leaves the calling task in a  *)
(* delay loop; once all of an application's tasks are there, the Executive *)
(* Services (ES) background task calls CFE_SB_CleanUpApp.                  *)
(***************************************************************************)
ExitApp(t) ==
    /\ MayCall(t, "exit")
    /\ Goto(t, "exited")
    /\ UNCHANGED <<pipeVars, routeVars, osVars, bufVars, PipesInUse,
                   SubscriptionsInUse, tPipe, tQueue, tBuf, tMsg, tRoute,
                   zcHandle, tApp, tDelList>>

\* Mutant: the scan starts at the second descriptor.
OwnedPipesFromOne(a) ==
    {PipeId[s] : s \in {r \in Slot \ {0} : PipeId[r] # FREE /\ PipeApp[r] = a}}

\* The IDs in the descriptors in use that the application owns.
OwnedPipes(a) == {PipeId[s] : s \in {r \in Slot : PipeId[r] # FREE /\ PipeApp[r] = a}}

\* CFE_SB_CleanUpApp: collect the IDs in the application's descriptors.
CleanUpApp(t, a) ==
    /\ MayCall(t, "cleanup")
    /\ \A u \in Task : AppOf[u] = a => pc[u] = "exited"
    /\ tApp' = [tApp EXCEPT ![t] = a]
    /\ tDelList' = [tDelList EXCEPT ![t] = OwnedPipes(a)]
    /\ Goto(t, "cleanup")
    /\ UNCHANGED <<pipeVars, routeVars, osVars, bufVars, PipesInUse,
                   SubscriptionsInUse, tPipe, tQueue, tBuf, tMsg, tRoute,
                   zcHandle>>

\* ... CFE_SB_DeletePipeWithAppId for each of them: it starts a deletion, or
\* returns at once if the ID is no pipe's any more.
CleanUpPipe(t, p) ==
    /\ pc[t] = "cleanup"
    /\ p \in tDelList[t]
    /\ tDelList' = [tDelList EXCEPT ![t] = @ \ {p}]
    /\ IF PipeDescIsMatch(p) /\ PipeApp[SlotOf(p)] = tApp[t]
       THEN DeletePipeReserve(t, p)
       ELSE UNCHANGED <<pipeVars, routeVars, osVars, bufVars, PipesInUse,
                        SubscriptionsInUse, pc, tPipe, tQueue, tBuf, tMsg,
                        tRoute, zcHandle, tApp>>

\* Mutant: zero copy buffers are not released.
ZeroCopyNone(a) == {}

\* The buffers on ZeroCopyList that the application owns.
ZeroCopyOf(a) == {b \in Buf : Tracked[b] = "zerocopy" /\ BufApp[b] = a}

\* ... and last CFE_SB_ZeroCopyReleaseAppId. The handles of the exited tasks
\* are not used again.
CleanUpZeroCopy(t) ==
    /\ pc[t] = "cleanup"
    /\ tDelList[t] = {}
    /\ DecrBufUseCnt(ZeroCopyOf(tApp[t]))
    /\ zcHandle' = [u \in Task |-> IF AppOf[u] = tApp[t] THEN NULL ELSE zcHandle[u]]
    /\ tApp' = [tApp EXCEPT ![t] = NoApp]
    /\ Goto(t, "idle")
    /\ UNCHANGED <<pipeVars, routeVars, osVars, BufApp, BufMsgId, BufSeq,
                   PipesInUse, SubscriptionsInUse, tPipe, tQueue, tBuf, tMsg,
                   tRoute, tDelList>>

-----------------------------------------------------------------------------
(***************************************************************************)
(* CFE_SB_EarlyInit: no pipes, no routes, every block in the pool.         *)
(***************************************************************************)
Init ==
    /\ PipeId = [s \in Slot |-> FREE]
    /\ PipeApp = [s \in Slot |-> NoApp]
    /\ IgnoreMine = [s \in Slot |-> FALSE]
    /\ SysQueueId = [s \in Slot |-> FREE]
    /\ LastBuffer = [s \in Slot |-> NULL]
    /\ CurrentQueueDepth = [s \in Slot |-> 0]
    /\ LastPipeId = 0
    /\ Routes = {}
    /\ SeqCnt = [m \in MsgId |-> 0]
    /\ Dests = [m \in MsgId |-> {}]
    /\ Active = [m \in MsgId |-> {}]
    /\ BuffCount = [m \in MsgId |-> [p \in PID |-> 0]]
    /\ QLive = {}
    /\ Queue = [q \in PID |-> <<>>]
    /\ UseCount = [b \in Buf |-> 0]
    /\ Tracked = [b \in Buf |-> "none"]
    /\ BufApp = [b \in Buf |-> NoApp]
    /\ BufMsgId = [b \in Buf |-> NULL]
    /\ BufSeq = [b \in Buf |-> 0]
    /\ SBBuffersInUse = 0
    /\ PipesInUse = 0
    /\ SubscriptionsInUse = 0
    /\ pc = [t \in Task |-> "idle"]
    /\ tPipe = [t \in Task |-> FREE]
    /\ tQueue = [t \in Task |-> FREE]
    /\ tBuf = [t \in Task |-> NULL]
    /\ tMsg = [t \in Task |-> NULL]
    /\ tRoute = [t \in Task |-> FALSE]
    /\ zcHandle = [t \in Task |-> NULL]
    /\ tApp = [t \in Task |-> NoApp]
    /\ tDelList = [t \in Task |-> {}]

\* A task inside an SB call runs on; only ReceiveGet and ReceiveNone can wait.
Continue(t) ==
    \/ CreateQueue(t) \/ CreateFill(t) \/ CreateFail(t)
    \/ DeleteUnref(t) \/ DeleteGet(t) \/ DeleteQueue(t) \/ DeleteFree(t)
    \/ ByNameScan(t) \/ ByNameReturn(t)
    \/ SendAlloc(t) \/ Broadcast(t) \/ SendEvents(t)
    \/ ReceiveGet(t) \/ ReceiveStore(t)
    \/ CleanUpZeroCopy(t)
    \/ \E p \in PID \cup {RESERVED} : CleanUpPipe(t, p)

Call(t) ==
    \/ CreatePipe(t)
    \/ \E p \in PID : DeletePipe(t, p) \/ ReceiveBuffer(t, p) \/ GetPipeIdByName(t, p)
    \/ \E p \in PID, on \in BOOLEAN : SetPipeOpts(t, p, on)
    \/ \E m \in MsgId, p \in PID : Subscribe(t, m, p) \/ Unsubscribe(t, m, p)
    \/ \E m \in MsgId, p \in PID, on \in BOOLEAN : SetRoute(t, m, p, on)
    \/ \E m \in MsgId : TransmitMsg(t, m) \/ TransmitBuffer(t, m)
    \/ ZeroCopyGetPtr(t) \/ ZeroCopyReleasePtr(t)
    \/ ExitApp(t)
    \/ \E a \in App : CleanUpApp(t, a)

\* Any call can also be refused (bad argument, not the owner, table full, name
\* taken, duplicate subscription, no route): the state it finds is unchanged.
Refused(t) ==
    /\ pc[t] = "idle"
    /\ UNCHANGED vars

Next == \E t \in Task : Call(t) \/ Continue(t) \/ ReceiveNone(t) \/ Refused(t)

Spec == Init /\ [][Next]_vars

-----------------------------------------------------------------------------
(***************************************************************************)
(* Properties                                                              *)
(***************************************************************************)
\* Every variable holds what its C declaration says, within the bounds.
TypeOK ==
    /\ PipeId \in [Slot -> PID \cup {FREE, RESERVED}]
    /\ PipeApp \in [Slot -> App \cup {NoApp}]
    /\ IgnoreMine \in [Slot -> BOOLEAN]
    /\ SysQueueId \in [Slot -> PID \cup {FREE}]
    /\ LastBuffer \in [Slot -> Buf \cup {NULL}]
    /\ CurrentQueueDepth \in [Slot -> Nat]
    /\ LastPipeId \in 0..MaxPipeId
    /\ Routes \subseteq MsgId
    /\ SeqCnt \in [MsgId -> 0..MaxSeq]
    /\ Dests \in [MsgId -> SUBSET PID]
    /\ Active \in [MsgId -> SUBSET PID]
    /\ BuffCount \in [MsgId -> [PID -> Nat]]
    /\ QLive \subseteq PID
    /\ Queue \in [PID -> Seq(Buf)]
    /\ UseCount \in [Buf -> Nat]
    /\ Tracked \in [Buf -> {"none", "zerocopy", "transit"}]
    /\ BufApp \in [Buf -> App \cup {NoApp}]
    /\ BufMsgId \in [Buf -> MsgId \cup {NULL}]
    /\ BufSeq \in [Buf -> 0..MaxSeq]
    /\ SBBuffersInUse \in Int
    /\ PipesInUse \in Int
    /\ SubscriptionsInUse \in Int
    /\ pc \in [Task -> PC]
    /\ tPipe \in [Task -> PID \cup {FREE, RESERVED}]
    /\ tQueue \in [Task -> PID \cup {FREE}]
    /\ tBuf \in [Task -> Buf \cup {NULL}]
    /\ tMsg \in [Task -> MsgId \cup {NULL}]
    /\ tRoute \in [Task -> BOOLEAN]
    /\ zcHandle \in [Task -> Buf \cup {NULL}]
    /\ tApp \in [Task -> App \cup {NoApp}]
    /\ tDelList \in [Task -> SUBSET (PID \cup {RESERVED})]

\* Who holds a counted reference to buffer b: the queues it is on, the pipes
\* whose reader was last given it, and the tasks that are working on it or own
\* it as a zero copy buffer.
QueuesOf(b) == {q \in PID : \E i \in 1..Len(Queue[q]) : Queue[q][i] = b}
ReadersOf(b) == {s \in Slot : PipeId[s] \in PID /\ LastBuffer[s] = b}
WorkersOf(b) == {t \in Task : tBuf[t] = b /\ pc[t] # "send_events"}
OwnersOf(b) == {t \in Task : zcHandle[t] = b}

References(b) ==
    {<<"queue", q>> : q \in QueuesOf(b)} \cup {<<"reader", s>> : s \in ReadersOf(b)}
    \cup {<<"worker", t>> : t \in WorkersOf(b)} \cup {<<"owner", t>> : t \in OwnersOf(b)}

\* UseCount is exactly the number of references to the buffer, at every point
\* between two locked sections: a buffer goes back to the pool when its last
\* reference goes, neither earlier (its content would be overwritten under a
\* reader or on a queue) nor later (the pool would run dry). This is what
\* CFE_SB_IncrBufUseCnt and CFE_SB_DecrBufUseCnt are for.
UseCountExact == \A b \in Buf : UseCount[b] = Cardinality(References(b))

\* Every destination of every route is a pipe that exists, so a broadcast never
\* writes to the queue of a pipe that is being deleted: CFE_SB_DeletePipeFull
\* drops the routes and the pipe ID in one locked section.
DestinationsLive ==
    \A m \in MsgId : \A p \in Dests[m] :
        /\ PipeDescIsMatch(p)
        /\ SysQueueId[SlotOf(p)] \in QLive
        /\ m \in Routes

\* The descriptor s is in use and q is its queue.
OwnsQueue(s, q) == PipeId[s] \in PID /\ SysQueueId[s] = q

\* The task is creating or deleting a pipe and q is its queue.
HoldsQueue(t, q) ==
    /\ tQueue[t] = q
    /\ pc[t] \in {"create_fill", "delete_unref", "delete_get", "delete_queue"}

\* No OSAL queue is orphaned or shared: each is the queue of exactly one pipe,
\* or else of the one task that is creating or deleting the pipe.
QueueOwned ==
    \A q \in QLive :
        /\ (\E s \in Slot : OwnsQueue(s, q)) # (\E t \in Task : HoldsQueue(t, q))
        /\ \A r, s \in Slot : OwnsQueue(r, q) /\ OwnsQueue(s, q) => r = s
        /\ \A t, u \in Task : HoldsQueue(t, q) /\ HoldsQueue(u, q) => t = u

\* The content of a buffer that is on a queue or with a reader is never
\* written: no step of any task changes its message ID or sequence count. The
\* buffer would otherwise have been handed out again while still in use.
ContentStable ==
    [][\A b \in Buf : QueuesOf(b) # {} \/ ReadersOf(b) # {} =>
           BufMsgId'[b] = BufMsgId[b] /\ BufSeq'[b] = BufSeq[b]]_vars
=============================================================================
