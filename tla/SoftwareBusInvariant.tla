------------------------ MODULE SoftwareBusInvariant ------------------------
(***************************************************************************)
(* The inductive invariants of SoftwareBus.  PipeInv, behind               *)
(* DestinationsLive and QueueOwned, says who has which pipe descriptor and *)
(* which OSAL queue, and every step keeps it.                              *)
(*                                                                         *)
(* BufferInv, behind UseCountExact and ContentStable, says on top of that  *)
(* who may hold a buffer where (LocalsInv), and that a buffer which a task *)
(* is about to broadcast or owns as a zero copy buffer has no other        *)
(* reference (SharingInv).  Each operation keeps these and changes the     *)
(* references to a buffer and its use count together (Counted);            *)
(* SoftwareBusProofs counts the references.                                *)
(*                                                                         *)
(* MessageInv, behind SequenceInOrder and the refinement of MessageBus, is *)
(* about the messages in the buffers, and CountInv, behind                 *)
(* PipeCountsExact, about how many of them are on a pipe.                  *)
(***************************************************************************)
EXTENDS SoftwareBusProperties, TLAPS

Creating == {"create_queue", "create_fill", "create_fail"}
Draining == {"delete_unref", "delete_get", "delete_queue"}
PipeWork == Creating \cup Draining \cup {"delete_free"}

\* The types of the variables the invariant is about.
PipeTypes ==
    /\ PipeId \in [Slot -> PID \cup {FREE, RESERVED}]
    /\ SysQueueId \in [Slot -> PID \cup {FREE}]
    /\ LastPipeId \in 0..MaxPipeId
    /\ Dests \in [MsgId -> SUBSET PID]
    /\ QLive \subseteq PID
    /\ pc \in [Task -> PC]
    /\ tPipe \in [Task -> PID \cup {FREE, RESERVED}]
    /\ tQueue \in [Task -> PID \cup {FREE}]

\* A task that is creating or deleting a pipe has the descriptor reserved, and
\* the queue in its local variable is the pipe's.
ReservedBy(t) ==
    /\ pc[t] \in PipeWork =>
         /\ tPipe[t] \in PID
         /\ tPipe[t] <= LastPipeId
         /\ PipeId[SlotOf(tPipe[t])] = RESERVED
    /\ pc[t] \in Draining \cup {"create_fill"} =>
         tQueue[t] = tPipe[t] /\ tPipe[t] \in QLive
    /\ pc[t] \in {"create_queue", "create_fail", "delete_free"} =>
         tPipe[t] \notin QLive
Reserved == \A t \in Task : ReservedBy(t)

\* A reserved descriptor belongs to one creation or deletion.
OneReserver ==
    \A t, u \in Task :
        /\ pc[t] \in PipeWork
        /\ pc[u] \in PipeWork
        /\ SlotOf(tPipe[t]) = SlotOf(tPipe[u])
        => t = u

\* A descriptor in use is that of the pipe whose ID it holds.
SlotsOK ==
    \A s \in Slot : PipeId[s] \in PID =>
        /\ SlotOf(PipeId[s]) = s
        /\ SysQueueId[s] = PipeId[s]
        /\ PipeId[s] <= LastPipeId
        /\ PipeId[s] \in QLive

\* A queue is that of the pipe with its ID, or of the task that is creating or
\* deleting this pipe.
QueuesKept ==
    \A q \in QLive :
        /\ q <= LastPipeId
        /\ PipeDescIsMatch(q) \/ \E t \in Task : HoldsQueue(t, q)

\* The destinations of a route are pipes.
DestsOK ==
    \A m \in MsgId :
        /\ Dests[m] # {} => m \in Routes
        /\ \A p \in Dests[m] : PipeDescIsMatch(p)

\* The inductive invariant. It holds whenever no code holds the SB lock
\* (CFE_SB_LockSharedData).
PipeInv ==
    /\ PipeTypes
    /\ Reserved
    /\ OneReserver
    /\ SlotsOK
    /\ QueuesKept
    /\ DestsOK

-----------------------------------------------------------------------------
(***************************************************************************)
(* Steps that have nothing to do with the life of a pipe                   *)
(***************************************************************************)
\* CFE_SB_PipeId_ToIndex stays within the pipe table.
LEMMA SlotOfInTable == \A p \in PID : SlotOf(p) \in Slot
  BY SBAssumption DEF SlotOf, Slot, PID

\* The pseudo IDs of a descriptor are no pipe IDs.
LEMMA PseudoIds == FREE \notin PID /\ RESERVED \notin PID /\ FREE # RESERVED
  BY SMTT(60) DEF FREE, RESERVED, PID

\* A step of task t.
Step(t) == Call(t) \/ Continue(t) \/ ReceiveNone(t) \/ Refused(t)

\* CFE_SB_DeletePipeFull starts, for the owner or for the clean-up.
Reserving(t) ==
    \E p \in PID : pc[t] \in {"idle", "cleanup"} /\ DeletePipeReserve(t, p)

\* The steps that create or delete a pipe or change a subscription.
PipeStep(t) ==
    \/ CreatePipe(t) \/ CreateQueue(t) \/ CreateFill(t) \/ CreateFail(t)
    \/ Reserving(t) \/ DeleteQueue(t) \/ DeleteFree(t)
    \/ \E m \in MsgId, p \in PID : Subscribe(t, m, p) \/ Unsubscribe(t, m, p)

\* The step changes at most the locals of t, and keeps t out of the creation
\* and deletion of pipes or in the drain loop of the same deletion.
Quiet(t) ==
    /\ UNCHANGED <<PipeId, SysQueueId, LastPipeId, Routes, Dests, QLive>>
    /\ pc' \in [Task -> PC]
    /\ tPipe' \in [Task -> PID \cup {FREE, RESERVED}]
    /\ tQueue' \in [Task -> PID \cup {FREE}]
    /\ \A u \in Task \ {t} :
         pc'[u] = pc[u] /\ tPipe'[u] = tPipe[u] /\ tQueue'[u] = tQueue[u]
    /\ \/ pc[t] \notin PipeWork /\ pc'[t] \notin PipeWork
       \/ /\ pc[t] \in Draining /\ pc'[t] \in Draining
          /\ tPipe'[t] = tPipe[t] /\ tQueue'[t] = tQueue[t]

\* Every step of a task is one of the two kinds.
LEMMA TwoKinds ==
  ASSUME PipeTypes, NEW t \in Task, Step(t)
  PROVE  Quiet(t) \/ PipeStep(t)
<1> /\ pc \in [Task -> PC] /\ tPipe \in [Task -> PID \cup {FREE, RESERVED}]
    /\ tQueue \in [Task -> PID \cup {FREE}] /\ SysQueueId \in [Slot -> PID \cup {FREE}]
    /\ PipeId \in [Slot -> PID \cup {FREE, RESERVED}]
  BY Zenon DEF PipeTypes
<1> FREE \in PID \cup {FREE} /\ \A p \in PID : SlotOf(p) \in Slot
  BY Zenon, SlotOfInTable
<1>1. ASSUME NEW p \in PID, ReceiveBuffer(t, p)
      PROVE  Quiet(t)
  BY Zenon, <1>1
     DEF ReceiveBuffer, routeVars, osVars, MayCall, Goto, Quiet, PC,
         PipeWork, Creating, Draining
<1>2. ASSUME NEW p \in PID, GetPipeIdByName(t, p)
      PROVE  Quiet(t)
  BY Zenon, <1>2
     DEF GetPipeIdByName, pipeVars, routeVars, osVars, MayCall, Goto, Quiet,
         PC, PipeWork, Creating, Draining
<1>3. ASSUME NEW p \in PID, NEW on \in BOOLEAN, SetPipeOpts(t, p, on)
      PROVE  Quiet(t)
  BY Zenon, <1>3
     DEF SetPipeOpts, routeVars, osVars, taskVars, MayCall, Goto, Quiet, PC,
         PipeWork, Creating, Draining
<1>4. ASSUME NEW m \in MsgId, NEW p \in PID, NEW on \in BOOLEAN, SetRoute(t, m, p, on)
      PROVE  Quiet(t)
  BY Zenon, <1>4
     DEF SetRoute, pipeVars, osVars, taskVars, MayCall, Goto, Quiet, PC, PipeWork,
         Creating, Draining
<1>5. ASSUME NEW m \in MsgId, TransmitMsg(t, m)
      PROVE  Quiet(t)
  BY Zenon, <1>5
     DEF TransmitMsg, pipeVars, routeVars, osVars, MayCall, Goto, Quiet, PC,
         PipeWork, Creating, Draining
<1>6. ASSUME NEW m \in MsgId, TransmitBuffer(t, m)
      PROVE  Quiet(t)
  BY Zenon, <1>6
     DEF TransmitBuffer, pipeVars, routeVars, osVars, MayCall, Goto, Quiet,
         PC, PipeWork, Creating, Draining
<1>7. CASE ZeroCopyGetPtr(t)
  BY Zenon, <1>7
     DEF ZeroCopyGetPtr, pipeVars, routeVars, osVars, MayCall, Goto, Quiet,
         PC, PipeWork, Creating, Draining
<1>8. CASE ZeroCopyReleasePtr(t)
  BY Zenon, <1>8
     DEF ZeroCopyReleasePtr, pipeVars, routeVars, osVars, MayCall, Goto,
         Quiet, PC, PipeWork, Creating, Draining
<1>9. CASE ExitApp(t)
  BY Zenon, <1>9
     DEF ExitApp, pipeVars, routeVars, osVars, MayCall, Goto, Quiet, PC,
         PipeWork, Creating, Draining
<1>10. ASSUME NEW a \in App, CleanUpApp(t, a)
      PROVE  Quiet(t)
  BY Zenon, <1>10
     DEF CleanUpApp, pipeVars, routeVars, osVars, MayCall, Goto, Quiet, PC,
         PipeWork, Creating, Draining
<1>11. CASE DeleteUnref(t)
  BY Zenon, <1>11
     DEF DeleteUnref, pipeVars, routeVars, osVars, Goto, Quiet, PC, PipeWork,
         Creating, Draining
<1>12. CASE DeleteGet(t)
  BY Zenon, <1>12
     DEF DeleteGet, pipeVars, routeVars, Goto, Quiet, PC, PipeWork, Creating,
         Draining
<1>13. CASE ByNameScan(t)
  BY Zenon, <1>13
     DEF ByNameScan, pipeVars, routeVars, osVars, Goto, Quiet, PC, PipeWork,
         Creating, Draining
<1>14. CASE ByNameReturn(t)
  BY Zenon, <1>14
     DEF ByNameReturn, pipeVars, routeVars, osVars, Return, Goto, Quiet, PC,
         PipeWork, Creating, Draining
<1>15. CASE SendAlloc(t)
  BY Zenon, <1>15
     DEF SendAlloc, pipeVars, routeVars, osVars, Goto, Quiet, PC, PipeWork,
         Creating, Draining
<1>16. CASE Broadcast(t)
  BY Zenon, <1>16
     DEF Broadcast, Goto, Quiet, PC, PipeWork, Creating, Draining
<1>17. CASE SendEvents(t)
  BY Zenon, <1>17
     DEF SendEvents, pipeVars, routeVars, osVars, Goto, Quiet, PC, PipeWork,
         Creating, Draining
<1>18. CASE ReceiveGet(t)
  BY Zenon, <1>18
     DEF ReceiveGet, pipeVars, routeVars, Goto, Quiet, PC, PipeWork,
         Creating, Draining
<1>19. CASE ReceiveStore(t)
  BY Zenon, <1>19
     DEF ReceiveStore, osVars, Return, Goto, Quiet, PC, PipeWork, Creating,
         Draining
<1>20. CASE CleanUpZeroCopy(t)
  BY Zenon, <1>20
     DEF CleanUpZeroCopy, pipeVars, routeVars, osVars, Goto, Quiet, PC,
         PipeWork, Creating, Draining
<1>21. CASE ReceiveNone(t)
  BY Zenon, <1>21
     DEF ReceiveNone, pipeVars, routeVars, osVars, Return, Goto, Quiet, PC,
         PipeWork, Creating, Draining
<1>22. CASE Refused(t)
  BY Zenon, <1>22
     DEF Refused, vars, pipeVars, routeVars, osVars, taskVars, Goto, Quiet,
         PC, PipeWork, Creating, Draining
<1>23. ASSUME NEW p \in PID, DeletePipe(t, p)
      PROVE  PipeStep(t)
  BY Zenon, <1>23 DEF DeletePipe, MayCall, Reserving, PipeStep
<1>24. ASSUME NEW p \in PID \cup {RESERVED}, CleanUpPipe(t, p)
      PROVE  Quiet(t) \/ PipeStep(t)
  <2>1. CASE DeletePipeReserve(t, p)
    BY ZenonT(60), <1>24, <2>1
       DEF CleanUpPipe, DeletePipeReserve, PipeDescIsMatch, Reserving,
           PipeStep
  <2>2. CASE UNCHANGED <<pipeVars, routeVars, osVars, pc, tPipe, tQueue>>
    BY Zenon, <1>24, <2>2
       DEF CleanUpPipe, pipeVars, routeVars, osVars, Quiet, PipeWork,
       Creating, Draining
  <2> QED BY Zenon, <1>24, <2>1, <2>2 DEF CleanUpPipe
<1> QED
  BY ZenonT(60), <1>1, <1>2, <1>3, <1>4, <1>5, <1>6, <1>7, <1>8, <1>9, <1>10, <1>11,
     <1>12, <1>13, <1>14, <1>15, <1>16, <1>17, <1>18, <1>19, <1>20, <1>21,
     <1>22, <1>23, <1>24
     DEF Step, Call, Continue, PipeStep

\* The quiet steps keep the invariant.
LEMMA QuietStep ==
  ASSUME PipeInv, NEW t \in Task, Quiet(t)
  PROVE  PipeInv'
<1>1. PipeTypes'
  BY Zenon DEF PipeInv, PipeTypes, Quiet
<1>2. Reserved'
  BY ZenonT(60) DEF PipeInv, Reserved, ReservedBy, Quiet, Draining, PipeWork, Creating
<1>3. OneReserver'
  BY DEF PipeInv, OneReserver, Quiet, Draining, PipeWork
<1>4. SlotsOK'
  BY Zenon DEF PipeInv, SlotsOK, Quiet
<1>5. QueuesKept'
  <2>1. \A q, u : u \in Task /\ HoldsQueue(u, q) => HoldsQueue(u, q)'
    BY Zenon DEF HoldsQueue, Quiet, Draining, PipeWork, Creating
  <2> QED BY Zenon, <2>1 DEF PipeInv, QueuesKept, PipeDescIsMatch, Quiet
<1>6. DestsOK'
  BY Zenon DEF PipeInv, DestsOK, PipeDescIsMatch, Quiet
<1> QED BY Zenon, <1>1, <1>2, <1>3, <1>4, <1>5, <1>6 DEF PipeInv

-----------------------------------------------------------------------------
(***************************************************************************)
(* Steps that create or delete a pipe or change a subscription             *)
(***************************************************************************)
\* CFE_ResourceId_FindNext yields a new ID, for a free slot.
LEMMA NextPipeIdFresh ==
  ASSUME PipeTypes, NEW p \in NextPipeId \cap PID
  PROVE  p > LastPipeId /\ PipeId[SlotOf(p)] = FREE /\ p \in 0..MaxPipeId
  BY SBAssumption DEF NextPipeId, PID, PipeTypes

\* PipeInv is inductive.
LEMMA StepInv == PipeInv /\ [Next]_vars => PipeInv'
\* A step of task t keeps the reservations of the other tasks when it leaves
\* their local variables, their descriptors and their queues alone.
<1>ReservedKept.
  ASSUME PipeTypes, PipeTypes', Reserved, NEW t \in Task, ReservedBy(t)',
         LastPipeId <= LastPipeId',
         \A u \in Task \ {t} :
             pc'[u] = pc[u] /\ tPipe'[u] = tPipe[u] /\ tQueue'[u] = tQueue[u],
         \A u \in Task \ {t} : pc[u] \in PipeWork =>
             /\ PipeId'[SlotOf(tPipe[u])] = PipeId[SlotOf(tPipe[u])]
             /\ tPipe[u] \in QLive' <=> tPipe[u] \in QLive
  PROVE  Reserved'
  <2> USE <1>ReservedKept
  <2>1. ASSUME NEW u \in Task \ {t}
        PROVE  ReservedBy(u)'
    <3>1. ReservedBy(u)
      BY Zenon DEF Reserved
    <3>2. tPipe[u] \in PID /\ tPipe[u] <= LastPipeId => tPipe[u] <= LastPipeId'
      BY DEF PipeTypes, PID
    <3> QED BY Zenon, <3>1, <3>2 DEF ReservedBy, PipeWork, Creating, Draining
  <2> QED BY Zenon, <2>1 DEF Reserved

\* CFE_SB_CreatePipe reserves a descriptor.
<1>CreatePipeStep.
  ASSUME PipeInv, NEW t \in Task, CreatePipe(t)
  PROVE  PipeInv'
  <2> USE <1>CreatePipeStep
  <2> PipeTypes
    BY Zenon DEF PipeInv
  <2>1. PICK p \in NextPipeId \cap PID :
          /\ PipeId' = [PipeId EXCEPT ![SlotOf(p)] = RESERVED]
          /\ SysQueueId' = [SysQueueId EXCEPT ![SlotOf(p)] = FREE]
          /\ LastPipeId' = p
          /\ tPipe' = [tPipe EXCEPT ![t] = p]
    BY ZenonT(60) DEF CreatePipe
  <2>2. /\ p > LastPipeId /\ PipeId[SlotOf(p)] = FREE /\ p \in 0..MaxPipeId
        /\ p \in PID /\ SlotOf(p) \in Slot
    BY Zenon, NextPipeIdFresh, SlotOfInTable
  <2>3. /\ pc[t] = "idle" /\ pc' = [pc EXCEPT ![t] = "create_queue"]
        /\ UNCHANGED <<Routes, Dests, QLive, tQueue>>
    BY Zenon DEF CreatePipe, MayCall, Goto, routeVars, osVars
  <2>4. PipeTypes'
    BY Zenon, <2>1, <2>2, <2>3 DEF PipeTypes, PC
  <2>5. p \notin QLive
    BY <2>2 DEF PipeInv, QueuesKept, PipeTypes, PID
  <2>6. Reserved'
    <3>1. \A u \in Task \ {t} :
            pc'[u] = pc[u] /\ tPipe'[u] = tPipe[u] /\ tQueue'[u] = tQueue[u]
      BY Zenon, <2>1, <2>3 DEF PipeTypes
    <3>2. ReservedBy(t)'
      BY <2>1, <2>2, <2>3, <2>5
         DEF ReservedBy, PipeTypes, PipeWork, Creating, Draining
    <3>3. \A u \in Task \ {t} : pc[u] \in PipeWork =>
               /\ PipeId'[SlotOf(tPipe[u])] = PipeId[SlotOf(tPipe[u])]
               /\ tPipe[u] \in QLive' <=> tPipe[u] \in QLive
      BY Zenon, <2>1, <2>2, <2>3, SlotOfInTable, PseudoIds
         DEF PipeTypes, PipeInv, Reserved, ReservedBy, PID
    <3>4. LastPipeId <= LastPipeId'
      BY <2>1, <2>2 DEF PipeTypes
    <3> QED BY Zenon, <2>4, <3>1, <3>2, <3>3, <3>4, <1>ReservedKept DEF PipeInv
  <2>7. OneReserver'
    BY ZenonT(60), <2>1, <2>2, <2>3, PseudoIds
       DEF PipeInv, OneReserver, Reserved, ReservedBy, PipeTypes, PipeWork, Creating, Draining
  <2>8. SlotsOK'
    BY <2>1, <2>2, <2>3, PseudoIds DEF PipeInv, SlotsOK, PipeTypes, PID
  <2>9. QueuesKept'
    <3>1. \A q, u : u \in Task /\ HoldsQueue(u, q) => HoldsQueue(u, q)'
      BY Zenon, <2>3 DEF HoldsQueue, PipeTypes
    <3>2. \A q \in QLive : PipeDescIsMatch(q) => PipeDescIsMatch(q)'
      BY Zenon, <2>1, <2>2, PseudoIds, SlotOfInTable DEF PipeDescIsMatch, PipeTypes
    <3>3. \A q \in QLive : q <= LastPipeId'
      BY <2>1, <2>2 DEF PipeInv, QueuesKept, PipeTypes, PID
    <3> QED BY Zenon, <2>3, <3>1, <3>2, <3>3 DEF PipeInv, QueuesKept
  <2>10. DestsOK'
    BY ZenonT(60), <2>1, <2>2, <2>3, PseudoIds, SlotOfInTable
       DEF PipeInv, DestsOK, PipeDescIsMatch, PipeTypes
  <2> QED BY Zenon, <2>4, <2>6, <2>7, <2>8, <2>9, <2>10 DEF PipeInv

\* OS_QueueCreate, or its failure.
<1>CreateQueueStep.
  ASSUME PipeInv, NEW t \in Task, CreateQueue(t)
  PROVE  PipeInv'
  <2> USE <1>CreateQueueStep
  <2> PipeTypes
    BY Zenon DEF PipeInv
  <2>1. /\ pc[t] = "create_queue" /\ tPipe[t] \in PID /\ tPipe[t] <= LastPipeId
        /\ PipeId[SlotOf(tPipe[t])] = RESERVED /\ tPipe[t] \notin QLive
    BY Zenon DEF CreateQueue, PipeInv, Reserved, ReservedBy, PipeWork, Creating
  <2>2. \/ /\ QLive' = QLive \cup {tPipe[t]}
           /\ tQueue' = [tQueue EXCEPT ![t] = tPipe[t]]
           /\ pc' = [pc EXCEPT ![t] = "create_fill"]
        \/ /\ pc' = [pc EXCEPT ![t] = "create_fail"]
           /\ UNCHANGED <<QLive, tQueue>>
    BY Zenon DEF CreateQueue, Goto, osVars
  <2>3. UNCHANGED <<PipeId, SysQueueId, LastPipeId, Routes, Dests, tPipe>>
    BY Zenon DEF CreateQueue, pipeVars, routeVars
  <2>4. PipeTypes'
    BY Zenon, <2>1, <2>2, <2>3 DEF PipeTypes, PC
  <2>5. \A u \in Task \ {t} : pc[u] \in PipeWork => tPipe[u] # tPipe[t]
    BY Zenon, <2>1 DEF PipeInv, OneReserver, PipeWork, Creating
  <2>6. Reserved'
    <3>1. \A u \in Task \ {t} :
            pc'[u] = pc[u] /\ tPipe'[u] = tPipe[u] /\ tQueue'[u] = tQueue[u]
      BY Zenon, <2>2, <2>3 DEF PipeTypes
    <3>2. ReservedBy(t)'
      <4>1. \/ pc'[t] = "create_fill" /\ tQueue'[t] = tPipe[t] /\ tPipe[t] \in QLive'
            \/ pc'[t] = "create_fail" /\ tPipe[t] \notin QLive'
        BY Zenon, <2>1, <2>2 DEF PipeTypes
      <4> QED BY Zenon, <2>1, <2>3, <4>1 DEF ReservedBy, PipeWork, Creating, Draining
    <3>3. \A u \in Task \ {t} : pc[u] \in PipeWork =>
               /\ PipeId'[SlotOf(tPipe[u])] = PipeId[SlotOf(tPipe[u])]
               /\ tPipe[u] \in QLive' <=> tPipe[u] \in QLive
      BY Zenon, <2>1, <2>2, <2>3, <2>5 DEF PipeTypes
    <3>4. LastPipeId <= LastPipeId'
      BY <2>3 DEF PipeTypes
    <3> QED BY Zenon, <2>4, <3>1, <3>2, <3>3, <3>4, <1>ReservedKept DEF PipeInv
  <2>7. OneReserver'
    <3>1. \A u \in Task : pc'[u] \in PipeWork => pc[u] \in PipeWork /\ tPipe'[u] = tPipe[u]
      BY Zenon, <2>1, <2>2, <2>3 DEF PipeTypes, PipeWork, Creating, Draining
    <3> QED BY Zenon, <3>1 DEF PipeInv, OneReserver
  <2>8. SlotsOK'
    BY Zenon, <2>2, <2>3 DEF PipeInv, SlotsOK
  <2>9. QueuesKept'
    <3>1. \A q, u : u \in Task /\ HoldsQueue(u, q) => HoldsQueue(u, q)'
      BY Zenon, <2>1, <2>2 DEF HoldsQueue, PipeTypes
    <3>2. QLive' = QLive \/ HoldsQueue(t, tPipe[t])'
      BY Zenon, <2>2, <2>3 DEF HoldsQueue, PipeTypes
    <3> QED BY Zenon, <2>1, <2>2, <2>3, <3>1, <3>2
               DEF PipeInv, QueuesKept, PipeDescIsMatch
  <2>10. DestsOK'
    BY Zenon, <2>3 DEF PipeInv, DestsOK, PipeDescIsMatch
  <2> QED BY Zenon, <2>4, <2>6, <2>7, <2>8, <2>9, <2>10 DEF PipeInv

\* The creation ends: the descriptor is filled in or freed.
<1>CreateEndStep.
  ASSUME PipeInv, NEW t \in Task, CreateFill(t) \/ CreateFail(t)
  PROVE  PipeInv'
  <2> USE <1>CreateEndStep
  <2> PipeTypes
    BY Zenon DEF PipeInv
  <2> DEFINE s == SlotOf(tPipe[t])
  <2>1. /\ pc[t] \in {"create_fill", "create_fail"} /\ tPipe[t] \in PID
        /\ tPipe[t] <= LastPipeId /\ PipeId[s] = RESERVED /\ s \in Slot
        /\ pc[t] = "create_fill" => tQueue[t] = tPipe[t] /\ tPipe[t] \in QLive
        /\ pc[t] = "create_fail" => tPipe[t] \notin QLive
    BY Zenon, SlotOfInTable
       DEF CreateFill, CreateFail, PipeInv, Reserved, ReservedBy, PipeWork,
           Creating
  <2>2. \/ /\ pc[t] = "create_fill"
           /\ PipeId' = [PipeId EXCEPT ![s] = tPipe[t]]
           /\ SysQueueId' = [SysQueueId EXCEPT ![s] = tPipe[t]]
        \/ /\ pc[t] = "create_fail"
           /\ PipeId' = [PipeId EXCEPT ![s] = FREE]
           /\ SysQueueId' = SysQueueId
    BY Zenon, <2>1 DEF CreateFill, CreateFail
  <2>3. /\ pc' = [pc EXCEPT ![t] = "idle"]
        /\ tPipe' = [tPipe EXCEPT ![t] = FREE] /\ tQueue' = [tQueue EXCEPT ![t] = FREE]
        /\ UNCHANGED <<LastPipeId, Routes, Dests, QLive>>
    BY Zenon DEF CreateFill, CreateFail, Return, Goto, routeVars, osVars
  <2> HIDE DEF s
  <2>4. PipeTypes'
    BY Zenon, <2>1, <2>2, <2>3 DEF PipeTypes, PC
  <2>5. \A u \in Task \ {t} : pc[u] \in PipeWork => SlotOf(tPipe[u]) # s
    BY Zenon, <2>1 DEF PipeInv, OneReserver, PipeWork, Creating, s
  <2>6. Reserved'
    <3>1. \A u \in Task \ {t} :
            pc'[u] = pc[u] /\ tPipe'[u] = tPipe[u] /\ tQueue'[u] = tQueue[u]
      BY Zenon, <2>3 DEF PipeTypes
    <3>2. ReservedBy(t)'
      BY Zenon, <2>3 DEF ReservedBy, PipeTypes, PipeWork, Creating, Draining
    <3>3. \A u \in Task \ {t} : pc[u] \in PipeWork =>
               /\ PipeId'[SlotOf(tPipe[u])] = PipeId[SlotOf(tPipe[u])]
               /\ tPipe[u] \in QLive' <=> tPipe[u] \in QLive
      <4>1. \A u \in Task : pc[u] \in PipeWork => SlotOf(tPipe[u]) \in Slot
        BY Zenon, SlotOfInTable DEF PipeInv, Reserved, ReservedBy
      <4> QED BY Zenon, <2>2, <2>3, <2>5, <4>1 DEF PipeTypes
    <3>4. LastPipeId <= LastPipeId'
      BY <2>3 DEF PipeTypes
    <3> QED BY Zenon, <2>4, <3>1, <3>2, <3>3, <3>4, <1>ReservedKept DEF PipeInv
  <2>7. OneReserver'
    <3>1. \A u \in Task : pc'[u] \in PipeWork => pc[u] \in PipeWork /\ tPipe'[u] = tPipe[u]
      BY Zenon, <2>3 DEF PipeTypes, PipeWork, Creating, Draining
    <3> QED BY Zenon, <3>1 DEF PipeInv, OneReserver
  <2>8. SlotsOK'
    <3>1. \A r \in Slot \ {s} : PipeId'[r] = PipeId[r] /\ SysQueueId'[r] = SysQueueId[r]
      BY Zenon, <2>2 DEF PipeTypes
    <3>2. PipeId'[s] \in PID => PipeId'[s] = tPipe[t] /\ SysQueueId'[s] = tPipe[t] /\ tPipe[t] \in QLive
      BY Zenon, <2>1, <2>2, PseudoIds DEF PipeTypes
    <3>3. SlotOf(tPipe[t]) = s
      BY Zenon DEF s
    <3> QED BY Zenon, <2>1, <2>3, <3>1, <3>2, <3>3 DEF PipeInv, SlotsOK
  <2>9. \A q \in PID : PipeDescIsMatch(q) => PipeDescIsMatch(q)'
    BY Zenon, <2>1, <2>2, PseudoIds, SlotOfInTable
       DEF PipeDescIsMatch, PipeTypes
  <2>10. QueuesKept'
    <3>1. \A q, u : u \in Task \ {t} /\ HoldsQueue(u, q) => HoldsQueue(u, q)'
      BY Zenon, <2>3 DEF HoldsQueue, PipeTypes
    <3>2. \A q : HoldsQueue(t, q) => q = tPipe[t] /\ PipeDescIsMatch(q)'
      BY Zenon, <2>1, <2>2 DEF HoldsQueue, PipeDescIsMatch, PipeTypes, s
    <3> QED BY Zenon, <2>3, <2>9, <3>1, <3>2 DEF PipeInv, QueuesKept, PipeTypes
  <2>11. DestsOK'
    BY Zenon, <2>3, <2>9 DEF PipeInv, DestsOK, PipeTypes
  <2> QED BY Zenon, <2>4, <2>6, <2>7, <2>8, <2>10, <2>11 DEF PipeInv

\* CFE_SB_DeletePipeFull drops the routes to the pipe and reserves its
\* descriptor.
<1>ReservingStep.
  ASSUME PipeInv, NEW t \in Task, Reserving(t)
  PROVE  PipeInv'
  <2> USE <1>ReservingStep
  <2> PipeTypes
    BY Zenon DEF PipeInv
  <2>1. PICK p \in PID : pc[t] \in {"idle", "cleanup"} /\ DeletePipeReserve(t, p)
    BY Zenon DEF Reserving
  <2>2. /\ PipeId[SlotOf(p)] = p /\ SlotOf(p) \in Slot /\ p \in QLive
        /\ SysQueueId[SlotOf(p)] = p /\ p <= LastPipeId
    <3>1. PipeId[SlotOf(p)] = p /\ SlotOf(p) \in Slot
      BY Zenon, <2>1, SlotOfInTable DEF DeletePipeReserve, PipeDescIsMatch
    <3> QED BY Zenon, <3>1 DEF PipeInv, SlotsOK
  <2>3. /\ PipeId' = [PipeId EXCEPT ![SlotOf(p)] = RESERVED]
        /\ Dests' = [m \in MsgId |-> Dests[m] \ {p}]
        /\ tPipe' = [tPipe EXCEPT ![t] = p] /\ tQueue' = [tQueue EXCEPT ![t] = p]
        /\ \E l \in {"delete_get", "delete_unref"} : pc' = [pc EXCEPT ![t] = l]
        /\ UNCHANGED <<SysQueueId, LastPipeId, Routes, QLive>>
    BY ZenonT(60), <2>1, <2>2
       DEF DeletePipeReserve, RoutesWithout, FirstDrainStep, Goto, osVars
  <2>4. PipeTypes'
    BY Zenon, <2>2, <2>3 DEF PipeTypes, PC
  <2>5. \A u \in Task : pc[u] \in PipeWork => SlotOf(tPipe[u]) # SlotOf(p)
    BY Zenon, <2>2, PseudoIds DEF PipeInv, Reserved, ReservedBy
  <2>6. Reserved'
    <3>1. \A u \in Task \ {t} :
            pc'[u] = pc[u] /\ tPipe'[u] = tPipe[u] /\ tQueue'[u] = tQueue[u]
      BY Zenon, <2>3 DEF PipeTypes
    <3>2. ReservedBy(t)'
      BY Zenon, <2>2, <2>3 DEF ReservedBy, PipeTypes, PipeWork, Creating, Draining
    <3>3. \A u \in Task \ {t} : pc[u] \in PipeWork =>
               /\ PipeId'[SlotOf(tPipe[u])] = PipeId[SlotOf(tPipe[u])]
               /\ tPipe[u] \in QLive' <=> tPipe[u] \in QLive
      <4>1. \A u \in Task : pc[u] \in PipeWork => SlotOf(tPipe[u]) \in Slot
        BY Zenon, SlotOfInTable DEF PipeInv, Reserved, ReservedBy
      <4> QED BY Zenon, <2>3, <2>5, <4>1 DEF PipeTypes
    <3>4. LastPipeId <= LastPipeId'
      BY SMTT(60), <2>3 DEF PipeTypes
    <3> QED BY Zenon, <2>4, <3>1, <3>2, <3>3, <3>4, <1>ReservedKept DEF PipeInv
  <2>7. OneReserver'
    BY Zenon, <2>1, <2>3, <2>5
       DEF PipeInv, OneReserver, PipeTypes, PipeWork, Creating, Draining
  <2>8. SlotsOK'
    BY Zenon, <2>2, <2>3, PseudoIds DEF PipeInv, SlotsOK, PipeTypes
  <2>9. \A q \in PID : PipeDescIsMatch(q) => q = p \/ PipeDescIsMatch(q)'
    BY Zenon, <2>2, <2>3, SlotOfInTable DEF PipeDescIsMatch, PipeTypes
  <2>10. QueuesKept'
    <3>1. \A q, u : u \in Task /\ HoldsQueue(u, q) => HoldsQueue(u, q)'
      BY Zenon, <2>1, <2>3 DEF HoldsQueue, PipeTypes
    <3>2. HoldsQueue(t, p)'
      BY Zenon, <2>3 DEF HoldsQueue, PipeTypes
    <3> QED BY ZenonT(60), <2>3, <2>9, <3>1, <3>2
               DEF PipeInv, QueuesKept, PipeTypes
  <2>11. DestsOK'
    BY Zenon, <2>3, <2>9 DEF PipeInv, DestsOK, PipeTypes
  <2> QED BY Zenon, <2>4, <2>6, <2>7, <2>8, <2>10, <2>11 DEF PipeInv

\* The deletion ends: the queue goes, then the descriptor is freed.
<1>DeleteEndStep.
  ASSUME PipeInv, NEW t \in Task, DeleteQueue(t) \/ DeleteFree(t)
  PROVE  PipeInv'
  <2> USE <1>DeleteEndStep
  <2> PipeTypes
    BY Zenon DEF PipeInv
  <2> DEFINE s == SlotOf(tPipe[t])
  <2>1. /\ pc[t] \in {"delete_queue", "delete_free"} /\ tPipe[t] \in PID
        /\ tPipe[t] <= LastPipeId
        /\ PipeId[s] = RESERVED /\ s \in Slot
        /\ pc[t] = "delete_queue" => tQueue[t] = tPipe[t]
        /\ pc[t] = "delete_free" => tPipe[t] \notin QLive
    BY Zenon, SlotOfInTable
       DEF DeleteQueue, DeleteFree, PipeInv, Reserved, ReservedBy, PipeWork,
           Draining
  <2>2. \/ /\ pc[t] = "delete_queue"
           /\ pc' = [pc EXCEPT ![t] = "delete_free"]
           /\ QLive' = QLive \ {tPipe[t]}
           /\ UNCHANGED <<PipeId, tPipe, tQueue>>
        \/ /\ pc[t] = "delete_free"
           /\ \E l \in {"idle", "cleanup"} : pc' = [pc EXCEPT ![t] = l]
           /\ PipeId' = [PipeId EXCEPT ![s] = FREE]
           /\ tPipe' = [tPipe EXCEPT ![t] = FREE] /\ tQueue' = [tQueue EXCEPT ![t] = FREE]
           /\ QLive' = QLive
    BY Zenon, <2>1 DEF DeleteQueue, DeleteFree, Goto, pipeVars, osVars
  <2>3. UNCHANGED <<SysQueueId, LastPipeId, Routes, Dests>>
    BY ZenonT(60) DEF DeleteQueue, DeleteFree, pipeVars, routeVars
  <2> HIDE DEF s
  <2>4. PipeTypes'
    BY Zenon, <2>1, <2>2, <2>3 DEF PipeTypes, PC
  <2>5. \A u \in Task \ {t} : pc[u] \in PipeWork => SlotOf(tPipe[u]) # s
    BY Zenon, <2>1 DEF PipeInv, OneReserver, PipeWork, Draining, s
  <2>6. Reserved'
    <3>1. \A u \in Task \ {t} :
            pc'[u] = pc[u] /\ tPipe'[u] = tPipe[u] /\ tQueue'[u] = tQueue[u]
      BY Zenon, <2>2 DEF PipeTypes
    <3>2. ReservedBy(t)'
      <4>1. \/ pc'[t] = "delete_free" /\ tPipe'[t] = tPipe[t] /\ tPipe[t] \notin QLive'
               /\ PipeId' = PipeId
            \/ pc'[t] \in {"idle", "cleanup"}
        BY Zenon, <2>2 DEF PipeTypes
      <4> QED BY Zenon, <2>1, <2>3, <4>1 DEF ReservedBy, PipeWork, Creating, Draining, s
    <3>3. \A u \in Task \ {t} : pc[u] \in PipeWork =>
               /\ PipeId'[SlotOf(tPipe[u])] = PipeId[SlotOf(tPipe[u])]
               /\ tPipe[u] \in QLive' <=> tPipe[u] \in QLive
      <4>1. \A u \in Task : pc[u] \in PipeWork => SlotOf(tPipe[u]) \in Slot
        BY Zenon, SlotOfInTable DEF PipeInv, Reserved, ReservedBy
      <4>2. \A u \in Task \ {t} : pc[u] \in PipeWork => tPipe[u] # tPipe[t]
        BY Zenon, <2>5 DEF s
      <4> QED BY Zenon, <2>2, <2>5, <4>1, <4>2 DEF PipeTypes
    <3>4. LastPipeId <= LastPipeId'
      BY <2>3 DEF PipeTypes
    <3> QED BY Zenon, <2>4, <3>1, <3>2, <3>3, <3>4, <1>ReservedKept DEF PipeInv
  <2>7. OneReserver'
    <3>1. \A u \in Task : pc'[u] \in PipeWork => pc[u] \in PipeWork /\ tPipe'[u] = tPipe[u]
      BY Zenon, <2>1, <2>2 DEF PipeTypes, PipeWork, Creating, Draining
    <3> QED BY Zenon, <3>1 DEF PipeInv, OneReserver
  <2>8. SlotsOK'
    BY ZenonT(60), <2>1, <2>2, <2>3, PseudoIds DEF PipeInv, SlotsOK, PipeTypes, s
  <2>9. \A q \in PID : PipeDescIsMatch(q) => PipeDescIsMatch(q)'
    BY Zenon, <2>1, <2>2, PseudoIds, SlotOfInTable
       DEF PipeDescIsMatch, PipeTypes
  <2>10. QueuesKept'
    <3>1. \A q, u : u \in Task \ {t} /\ HoldsQueue(u, q) => HoldsQueue(u, q)'
      BY Zenon, <2>2 DEF HoldsQueue, PipeTypes
    <3>2. \A q : HoldsQueue(t, q) => q \notin QLive'
      BY Zenon, <2>1, <2>2 DEF HoldsQueue, PipeTypes
    <3> QED BY ZenonT(60), <2>2, <2>3, <2>9, <3>1, <3>2
               DEF PipeInv, QueuesKept, PipeTypes
  <2>11. DestsOK'
    BY Zenon, <2>3, <2>9 DEF PipeInv, DestsOK, PipeTypes
  <2> QED BY Zenon, <2>4, <2>6, <2>7, <2>8, <2>10, <2>11 DEF PipeInv

\* A subscription or its end.
<1>SubscriptionStep.
  ASSUME PipeInv, NEW t \in Task, NEW m \in MsgId, NEW p \in PID,
         Subscribe(t, m, p) \/ Unsubscribe(t, m, p)
  PROVE  PipeInv'
  <2> USE <1>SubscriptionStep
  <2>1. UNCHANGED <<PipeId, SysQueueId, LastPipeId, QLive, pc, tPipe, tQueue>>
    BY Zenon DEF Subscribe, Unsubscribe, pipeVars, osVars, taskVars
  <2>2. /\ PipeDescIsMatch(p)
        /\ \/ Dests' = Dests /\ Routes \subseteq Routes'
           \/ Dests' = [Dests EXCEPT ![m] = @ \cup {p}] /\ Routes' = Routes \cup {m}
           \/ Dests' = [Dests EXCEPT ![m] = @ \ {p}] /\ Routes' = Routes
    BY Zenon DEF Subscribe, Unsubscribe
  <2>3. PipeTypes'
    BY ZenonT(60), <2>1, <2>2 DEF PipeInv, PipeTypes
  <2>4. Reserved' /\ OneReserver' /\ SlotsOK'
    BY Zenon, <2>1 DEF PipeInv, Reserved, ReservedBy, OneReserver, SlotsOK
  <2>5. QueuesKept'
    BY Zenon, <2>1 DEF PipeInv, QueuesKept, HoldsQueue, PipeDescIsMatch
  <2>6. DestsOK'
    BY <2>1, <2>2 DEF PipeInv, PipeTypes, DestsOK, PipeDescIsMatch
  <2> QED BY Zenon, <2>3, <2>4, <2>5, <2>6 DEF PipeInv

<1> SUFFICES ASSUME PipeInv, [Next]_vars
             PROVE  PipeInv'
  OBVIOUS
<1>1. CASE UNCHANGED vars
  BY Zenon, <1>1 DEF vars, pipeVars, routeVars, osVars, taskVars, PipeInv, PipeTypes,
     Reserved, ReservedBy, OneReserver, SlotsOK, QueuesKept, HoldsQueue, DestsOK, PipeDescIsMatch
<1>2. ASSUME NEW t \in Task, Step(t)
      PROVE  PipeInv'
  <2>1. Quiet(t) \/ PipeStep(t)
    BY Zenon, <1>2, TwoKinds DEF PipeInv
  <2> QED BY Zenon, <2>1, QuietStep, <1>CreatePipeStep, <1>CreateQueueStep, <1>CreateEndStep,
             <1>ReservingStep, <1>DeleteEndStep, <1>SubscriptionStep DEF PipeStep
<1> QED BY Zenon, <1>1, <1>2 DEF Next, Step

\* PipeInv holds when the cFE starts.
LEMMA InitInv == Init => PipeInv
<1> SUFFICES ASSUME Init
             PROVE  PipeInv
  OBVIOUS
<1>1. PipeTypes
  BY SBAssumption DEF Init, PipeTypes, PC
<1>2. Reserved /\ OneReserver
  BY Zenon DEF Init, Reserved, ReservedBy, OneReserver, PipeWork, Creating, Draining
<1>3. SlotsOK /\ QueuesKept /\ DestsOK
  BY Zenon, PseudoIds DEF Init, SlotsOK, QueuesKept, DestsOK
<1> QED BY Zenon, <1>1, <1>2, <1>3 DEF PipeInv

-----------------------------------------------------------------------------
(***************************************************************************)
(* Buffers and references                                                  *)
(***************************************************************************)
\* Where a task has a buffer in its local variable, and where it reads a pipe.
HasBuffer == {"delete_unref", "broadcast", "send_events", "receive_store"}
InReceive == {"receive_get", "receive_store"}

\* The types of the variables the counts are about.
BufferTypes ==
    /\ LastBuffer \in [Slot -> Buf \cup {NULL}]
    /\ Queue \in [PID -> Seq(Buf)]
    /\ UseCount \in [Buf -> Nat]
    /\ Tracked \in [Buf -> {"none", "zerocopy", "transit"}]
    /\ BufApp \in [Buf -> App \cup {NoApp}]
    /\ tBuf \in [Task -> Buf \cup {NULL}]
    /\ zcHandle \in [Task -> Buf \cup {NULL}]
    /\ tApp \in [Task -> App \cup {NoApp}]
    /\ BufMsgId = [b \in Buf |-> BufMsgId[b]]
    /\ BufSeq = [b \in Buf |-> BufSeq[b]]

\* A task has a buffer in its local variable exactly while it works on it.
BufLocal == \A t \in Task : tBuf[t] # NULL <=> pc[t] \in HasBuffer

\* A reader has the queue of a pipe that was created. No other task reads this
\* pipe, nor is it being created (again), and if it still exists the reader
\* has given back the pipe's last buffer.
ReaderOf(t) ==
    pc[t] \in InReceive =>
        /\ tPipe[t] \in PID
        /\ tPipe[t] <= LastPipeId
        /\ tQueue[t] = tPipe[t]
        /\ PipeDescIsMatch(tPipe[t]) => LastBuffer[SlotOf(tPipe[t])] = NULL
        /\ \A u \in Task : pc[u] \in InReceive /\ tPipe[u] = tPipe[t] => u = t
        /\ \A u \in Task : pc[u] \in Creating => tPipe[u] # tPipe[t]
Readers == \A t \in Task : ReaderOf(t)

\* The memset of CFE_SB_CreatePipe: a new pipe has no last buffer.
NewPipes ==
    \A t \in Task : pc[t] \in Creating => LastBuffer[SlotOf(tPipe[t])] = NULL

\* Only queues that exist hold messages, and one that is about to be deleted
\* holds none.
EmptyQueues ==
    /\ \A q \in PID \ QLive : Queue[q] = <<>>
    /\ \A t \in Task : pc[t] = "delete_queue" => Queue[tQueue[t]] = <<>>

\* The tasks of an application that is being cleaned up have exited.
Exits ==
    \A t, u \in Task : tApp[t] = AppOf[u] => pc[u] = "exited"

LocalsInv ==
    /\ BufferTypes
    /\ BufLocal
    /\ Readers
    /\ NewPipes
    /\ EmptyQueues
    /\ Exits

\* The buffer a task is about to broadcast has no other reference.
SoleSender(t) ==
    pc[t] = "broadcast" => References(tBuf[t]) = {<<"worker", t>>}

\* Neither has a zero copy buffer; it is on ZeroCopyList under the task's
\* application.
SoleOwner(t) ==
    zcHandle[t] # NULL =>
        /\ References(zcHandle[t]) = {<<"owner", t>>}
        /\ Tracked[zcHandle[t]] = "zerocopy"
        /\ BufApp[zcHandle[t]] = AppOf[t]

\* ZeroCopyList has no other buffers, except those being sent.
Listed(b) ==
    Tracked[b] = "zerocopy" =>
        \E t \in Task : \/ zcHandle[t] = b
                        \/ /\ pc[t] = "broadcast"
                           /\ tBuf[t] = b
                           /\ BufApp[b] = AppOf[t]

\* A queue holds a buffer at most once.
QueuedOnce ==
    \A q \in PID : \A i, j \in 1..Len(Queue[q]) : Queue[q][i] = Queue[q][j] => i = j

SharingInv ==
    /\ \A t \in Task : SoleSender(t) /\ SoleOwner(t)
    /\ \A b \in Buf : Listed(b)
    /\ QueuedOnce

\* The inductive invariant.
BufferInv == PipeInv /\ LocalsInv /\ SharingInv /\ UseCountExact

-----------------------------------------------------------------------------
(***************************************************************************)
(* References                                                              *)
(***************************************************************************)
\* The four kinds of reference.
LEMMA RefKinds ==
  ASSUME NEW b
  PROVE  /\ \A x : <<"queue", x>> \in References(b) <=> x \in QueuesOf(b)
         /\ \A x : <<"reader", x>> \in References(b) <=> x \in ReadersOf(b)
         /\ \A x : <<"worker", x>> \in References(b) <=> x \in WorkersOf(b)
         /\ \A x : <<"owner", x>> \in References(b) <=> x \in OwnersOf(b)
         /\ \A r \in References(b) :
              \/ \E x \in QueuesOf(b) : r = <<"queue", x>>
              \/ \E x \in ReadersOf(b) : r = <<"reader", x>>
              \/ \E x \in WorkersOf(b) : r = <<"worker", x>>
              \/ \E x \in OwnersOf(b) : r = <<"owner", x>>
  BY Zenon DEF References

-----------------------------------------------------------------------------
(***************************************************************************)
(* Steps that hold no buffer and touch no pipe                             *)
(***************************************************************************)
\* The other tasks are where they were.
Others(t) ==
    \A u \in Task \ {t} :
        /\ pc'[u] = pc[u] /\ tPipe'[u] = tPipe[u] /\ tQueue'[u] = tQueue[u]
        /\ tBuf'[u] = tBuf[u] /\ tApp'[u] = tApp[u]

\* What every step of task t does with its own variables.
LocalStep(t) ==
    /\ Others(t)
    /\ pc[t] # "exited"
    /\ tBuf' \in [Task -> Buf \cup {NULL}]
    /\ tApp' \in [Task -> App \cup {NoApp}]
    /\ tBuf'[t] # NULL <=> pc'[t] \in HasBuffer
    /\ \/ tApp'[t] \in {tApp[t], NoApp}
       \/ \A u \in Task : AppOf[u] = tApp'[t] => pc[u] = "exited"

\* The step neither starts nor ends work on a buffer, and leaves the pipes,
\* the queues and the buffers alone.
Idle(t) ==
    /\ LocalStep(t)
    /\ UNCHANGED <<PipeId, LastBuffer, LastPipeId, QLive, Queue>>
    /\ UNCHANGED <<UseCount, Tracked, BufApp, BufMsgId, BufSeq, zcHandle>>
    /\ pc[t] \notin {"broadcast", "receive_store", "delete_unref"}
    /\ pc'[t] \notin HasBuffer \cup InReceive \cup Creating \cup {"delete_queue"}

\* The other steps.
Busy(t) ==
    \/ CreatePipe(t) \/ CreateQueue(t) \/ CreateFill(t) \/ CreateFail(t)
    \/ Reserving(t) \/ DeleteUnref(t) \/ DeleteGet(t) \/ DeleteQueue(t)
    \/ DeleteFree(t)
    \/ (SendAlloc(t) /\ tBuf' # tBuf) \/ Broadcast(t)
    \/ ZeroCopyGetPtr(t) \/ ZeroCopyReleasePtr(t)
    \/ \E m \in MsgId : TransmitBuffer(t, m)
    \/ \E p \in PID : ReceiveBuffer(t, p)
    \/ ReceiveGet(t) \/ ReceiveStore(t) \/ CleanUpZeroCopy(t)

\* Every step of a task is one of the two kinds.
LEMMA IdleOrBusy ==
  ASSUME PipeTypes, BufferTypes, BufLocal, NEW t \in Task, Step(t)
  PROVE  Idle(t) \/ Busy(t)
<1> /\ pc \in [Task -> PC] /\ tPipe \in [Task -> PID \cup {FREE, RESERVED}]
    /\ tQueue \in [Task -> PID \cup {FREE}] /\ tBuf \in [Task -> Buf \cup {NULL}]
    /\ tApp \in [Task -> App \cup {NoApp}]
  BY Zenon DEF PipeTypes, BufferTypes
<1> tBuf[t] # NULL <=> pc[t] \in HasBuffer
  BY Zenon DEF BufLocal
<1> USE DEF Idle, LocalStep, Others, HasBuffer, InReceive, Creating
<1>1. ASSUME NEW p \in PID, GetPipeIdByName(t, p)
      PROVE  Idle(t)
  BY Zenon, <1>1 DEF GetPipeIdByName, pipeVars, osVars, bufVars, MayCall, Goto
<1>2. ASSUME NEW p \in PID, NEW on \in BOOLEAN, SetPipeOpts(t, p, on)
      PROVE  Idle(t)
  BY Zenon, <1>2 DEF SetPipeOpts, osVars, bufVars, taskVars, MayCall
<1>3. ASSUME NEW m \in MsgId, NEW p \in PID, Subscribe(t, m, p) \/ Unsubscribe(t, m, p)
      PROVE  Idle(t)
  BY Zenon, <1>3 DEF Subscribe, Unsubscribe, pipeVars, osVars, bufVars, taskVars, MayCall
<1>4. ASSUME NEW m \in MsgId, NEW p \in PID, NEW on \in BOOLEAN, SetRoute(t, m, p, on)
      PROVE  Idle(t)
  BY Zenon, <1>4 DEF SetRoute, pipeVars, osVars, bufVars, taskVars, MayCall
<1>5. ASSUME NEW m \in MsgId, TransmitMsg(t, m)
      PROVE  Idle(t)
  BY Zenon, <1>5 DEF TransmitMsg, pipeVars, osVars, bufVars, MayCall, Goto
<1>6. CASE ExitApp(t)
  BY Zenon, <1>6 DEF ExitApp, pipeVars, osVars, bufVars, MayCall, Goto
<1>7. ASSUME NEW a \in App, CleanUpApp(t, a)
      PROVE  Idle(t)
  BY Zenon, <1>7 DEF CleanUpApp, pipeVars, osVars, bufVars, MayCall, Goto
<1>8. CASE ByNameScan(t)
  BY Zenon, <1>8 DEF ByNameScan, pipeVars, osVars, bufVars, Goto
<1>9. CASE ByNameReturn(t)
  BY Zenon, <1>9 DEF ByNameReturn, pipeVars, osVars, bufVars, Goto, Return
<1>10. CASE SendAlloc(t) /\ tBuf' = tBuf
  <2>1. pc' = [pc EXCEPT ![t] = "idle"] /\ UNCHANGED bufVars
    BY ZenonT(60), <1>10, SBAssumption DEF SendAlloc, Goto
  <2> QED BY Zenon, <1>10, <2>1 DEF SendAlloc, pipeVars, osVars, bufVars
<1>11. CASE SendEvents(t)
  BY Zenon, <1>11 DEF SendEvents, pipeVars, osVars, bufVars, Goto
<1>12. CASE ReceiveNone(t)
  BY Zenon, <1>12 DEF ReceiveNone, pipeVars, osVars, bufVars, Goto, Return
<1>13. CASE Refused(t)
  BY Zenon, <1>13 DEF Refused, vars, pipeVars, osVars, bufVars, taskVars
<1>14. ASSUME NEW p \in PID \cup {RESERVED}, CleanUpPipe(t, p)
      PROVE  Idle(t) \/ Reserving(t)
  <2>1. CASE DeletePipeReserve(t, p)
    BY ZenonT(60), <1>14, <2>1
       DEF CleanUpPipe, DeletePipeReserve, PipeDescIsMatch, Reserving
  <2>2. CASE UNCHANGED <<pipeVars, osVars, bufVars, pc, tPipe, tQueue, tBuf, zcHandle, tApp>>
    BY Zenon, <1>14, <2>2 DEF CleanUpPipe, pipeVars, osVars, bufVars
  <2> QED BY Zenon, <1>14, <2>1, <2>2 DEF CleanUpPipe
<1>15. ASSUME NEW p \in PID, DeletePipe(t, p)
      PROVE  Reserving(t)
  BY ZenonT(60), <1>15 DEF DeletePipe, MayCall, Reserving
<1> HIDE DEF Idle, LocalStep, Others, HasBuffer, InReceive, Creating
<1> QED
  BY ZenonT(60), <1>1, <1>2, <1>3, <1>4, <1>5, <1>6, <1>7, <1>8, <1>9, <1>10, <1>11,
     <1>12, <1>13, <1>14, <1>15
     DEF Step, Call, Continue, Busy

\* What the steps need to know of the counts: which buffers have no reference
\* (the pool may hand these out) and which have one.
CountsAgree ==
    \A b \in Buf : /\ UseCount[b] = 0 <=> References(b) = {}
                   /\ \A r : References(b) = {r} => UseCount[b] = 1

\* What a step does with one buffer: nothing, or it takes the block from the
\* pool, passes a reference on, gives one up, or replaces the only one by the
\* queues of a broadcast.
Kept(b) ==
    /\ References(b)' = References(b)
    /\ UseCount'[b] = UseCount[b]
    /\ Tracked'[b] = Tracked[b]
    /\ BufApp'[b] = BufApp[b]

Taken(b) ==
    /\ References(b) = {}
    /\ \E r : References(b)' = {r}
    /\ UseCount'[b] = 1

Passed(b) ==
    /\ \E r \in References(b) : \E s :
         s \notin References(b) /\ References(b)' = (References(b) \ {r}) \cup {s}
    /\ UseCount'[b] = UseCount[b]

Dropped(b) ==
    /\ \E r \in References(b) : References(b)' = References(b) \ {r}
    /\ UseCount'[b] = UseCount[b] - 1

Spread(b) ==
    /\ \E r : References(b) = {r}
    /\ \E Q \in SUBSET PID : /\ References(b)' = {<<"queue", q>> : q \in Q}
                             /\ UseCount'[b] = UseAfter(b, Cardinality(Q))

\* The references and the counts change together.
Counted == \A b \in Buf : Kept(b) \/ Taken(b) \/ Passed(b) \/ Dropped(b) \/ Spread(b)

-----------------------------------------------------------------------------
-----------------------------------------------------------------------------
(***************************************************************************)
(* Steps that take, pass on or give up references                          *)
(***************************************************************************)
\* A buffer that task t changes is in the pool or has a reference that is no
\* other task's.
Mine(t, b) ==
    \/ References(b) = {}
    \/ \E r \in References(b) : \A u \in Task \ {t} :
         r # <<"worker", u>> /\ (zcHandle'[u] # NULL => r # <<"owner", u>>)

\* A reference is of one kind.
LEMMA RefTags ==
  \A x, y : /\ <<"worker", x>> # <<"owner", y>> /\ <<"worker", x>> # <<"reader", y>>
            /\ <<"worker", x>> # <<"queue", y>> /\ <<"owner", x>> # <<"reader", y>>
            /\ <<"owner", x>> # <<"queue", y>> /\ <<"reader", x>> # <<"queue", y>>
  OBVIOUS

\* The null pointer is no buffer.
LEMMA NullPtr == NULL \notin Buf
  BY Zenon, SBAssumption

-----------------------------------------------------------------------------
\* What the pool does when it hands out block b.
Handed(b, a, l) ==
    /\ \A c \in Buf \ {b} : Kept(c)
    /\ UseCount' \in [Buf -> Nat]
    /\ Tracked' \in [Buf -> {"none", "zerocopy", "transit"}]
    /\ Tracked'[b] = l
    /\ BufApp' \in [Buf -> App \cup {NoApp}]
    /\ BufApp'[b] = a
    /\ BufMsgId' = [c \in Buf |-> BufMsgId'[c]]
    /\ BufSeq' = [c \in Buf |-> BufSeq'[c]]

\* What CFE_SB_BroadcastBufferToRoute does with buffer b: it goes to the
\* queues Q of pipes that exist.
BroadcastTo(t, b, Q) ==
    /\ Queue' = [q \in PID |-> IF q \in Q THEN Append(Queue[q], b) ELSE Queue[q]]
    /\ \A p \in Q : PipeDescIsMatch(p)
    /\ UseCount' = [UseCount EXCEPT ![b] = UseAfter(b, Cardinality(Q))]
    /\ Tracked' = [Tracked EXCEPT ![b] = ListAfter(b, UseAfter(b, Cardinality(Q)))]
    /\ BufApp' = [BufApp EXCEPT ![b] = NoApp]
    /\ BufSeq' = [c \in Buf |-> BufSeq'[c]]
    /\ \A c \in Buf \ {b} : BufSeq'[c] = BufSeq[c]
    /\ \/ pc' = [pc EXCEPT ![t] = "send_events"] /\ tBuf' = tBuf
       \/ pc' = [pc EXCEPT ![t] = "idle"] /\ tBuf' = [tBuf EXCEPT ![t] = NULL]
    /\ UNCHANGED <<PipeId, LastBuffer, LastPipeId, QLive, BufMsgId, tPipe, tQueue, zcHandle, tApp>>

-----------------------------------------------------------------------------
(***************************************************************************)
(* All steps together                                                      *)
(***************************************************************************)
\* Every step of a task keeps the locals and the sharing, and the references
\* and the use counts of each buffer change together.
LEMMA BufferStep ==
  \A t \in Task :
    BufferInv /\ CountsAgree /\ (\A Q \in SUBSET PID : Cardinality(Q) \in Nat) /\ Step(t)
      => LocalsInv' /\ SharingInv' /\ Counted
\* What a step does with its own variables keeps two parts of LocalsInv.
<1>LocalKept.
  ASSUME BufLocal, Exits, NEW t \in Task, LocalStep(t)
  PROVE  BufLocal' /\ Exits'
  <2> USE <1>LocalKept
  <2>1. BufLocal'
    BY Zenon DEF BufLocal, LocalStep, Others
  <2>2. ASSUME NEW v \in Task, NEW u \in Task, tApp'[v] = AppOf[u]
        PROVE  pc[u] = "exited"
    BY <2>2, SBAssumption DEF Exits, LocalStep, Others
  <2>3. Exits'
    BY ZenonT(60), <2>2 DEF Exits, LocalStep, Others
  <2> QED BY Zenon, <2>1, <2>3

\* References follow from who has the buffer where.
<1>SameRefs.
  ASSUME NEW b, QueuesOf(b)' = QueuesOf(b), ReadersOf(b)' = ReadersOf(b),
         WorkersOf(b)' = WorkersOf(b), OwnersOf(b)' = OwnersOf(b)
  PROVE  References(b)' = References(b)
  BY Zenon, <1>SameRefs DEF References

\* When no reference and no count changes and task t neither starts nor ends a
\* broadcast, the sharing stays as it is.
<1>SharingKept.
  ASSUME BufferTypes, BufLocal, SharingInv,
         NEW t \in Task, LocalStep(t),
         UNCHANGED <<UseCount, Tracked, BufApp, zcHandle>>,
         \A b \in Buf : References(b)' = References(b),
         pc[t] # "broadcast", pc'[t] # "broadcast",
         QueuedOnce'
  PROVE  SharingInv' /\ Counted
  <2> USE <1>SharingKept
  <2>1. ASSUME NEW u \in Task
        PROVE  SoleSender(u)'
    <3>1. pc'[u] = "broadcast" => pc[u] = "broadcast" /\ tBuf'[u] = tBuf[u] /\ tBuf[u] \in Buf
      BY DEF LocalStep, Others, BufferTypes, BufLocal, HasBuffer
    <3> QED BY Zenon, <3>1 DEF SoleSender, SharingInv
  <2>2. ASSUME NEW u \in Task
        PROVE  SoleOwner(u)'
    BY Zenon DEF SoleOwner, SharingInv, BufferTypes
  <2>3. ASSUME NEW b \in Buf
        PROVE  Listed(b)'
    <3>1. \A u \in Task : pc[u] = "broadcast" => pc'[u] = "broadcast" /\ tBuf'[u] = tBuf[u]
      BY Zenon DEF LocalStep, Others
    <3> QED BY <3>1 DEF SharingInv, Listed
  <2>4. Counted
    BY Zenon DEF Counted, Kept
  <2> QED BY Zenon, <2>1, <2>2, <2>3, <2>4 DEF SharingInv

\* The idle steps keep everything.
<1>IdleStep.
  ASSUME BufferInv, NEW t \in Task, Idle(t)
  PROVE  LocalsInv' /\ SharingInv' /\ Counted
  <2> USE <1>IdleStep
  <2> BufferTypes /\ BufLocal /\ LocalStep(t)
    BY Zenon DEF BufferInv, LocalsInv, Idle
  <2>1. BufferTypes'
    BY Zenon DEF BufferTypes, Idle, LocalStep
  <2>2. BufLocal' /\ Exits'
    BY Zenon, <1>LocalKept DEF BufferInv, LocalsInv
  <2>3. \A u \in Task : pc'[u] \in InReceive \cup Creating \cup {"delete_queue"} =>
          u # t /\ pc'[u] = pc[u] /\ tPipe'[u] = tPipe[u] /\ tQueue'[u] = tQueue[u]
    BY Zenon DEF Idle, LocalStep, Others
  <2>4. Readers' /\ NewPipes' /\ EmptyQueues'
    <3>1. Readers'
      BY <2>3 DEF BufferInv, LocalsInv, Readers, ReaderOf, PipeDescIsMatch, Idle
    <3>2. NewPipes'
      BY Zenon, <2>3 DEF BufferInv, LocalsInv, NewPipes, Idle
    <3>3. EmptyQueues'
      BY Zenon, <2>3 DEF BufferInv, LocalsInv, EmptyQueues, Idle
    <3> QED BY Zenon, <3>1, <3>2, <3>3
  <2>5. \A b \in Buf : References(b)' = References(b)
    <3> SUFFICES ASSUME NEW b \in Buf
                 PROVE  References(b)' = References(b)
      OBVIOUS
    <3>1. QueuesOf(b)' = QueuesOf(b) /\ ReadersOf(b)' = ReadersOf(b) /\ OwnersOf(b)' = OwnersOf(b)
      BY Zenon DEF Idle, QueuesOf, ReadersOf, OwnersOf
    <3>2. \A u \in Task : tBuf'[u] = b /\ pc'[u] # "send_events" <=>
                          tBuf[u] = b /\ pc[u] # "send_events"
      BY SBAssumption DEF Idle, LocalStep, Others, BufLocal, HasBuffer
    <3>3. WorkersOf(b)' = WorkersOf(b)
      BY Zenon, <3>2 DEF WorkersOf
    <3> QED BY Zenon, <3>1, <3>3, <1>SameRefs
  <2>6. QueuedOnce'
    BY Zenon DEF BufferInv, SharingInv, QueuedOnce, Idle
  <2>7. SharingInv' /\ Counted
    <3>1. /\ UNCHANGED <<UseCount, Tracked, BufApp, zcHandle>>
          /\ pc[t] # "broadcast" /\ pc'[t] # "broadcast"
      BY Zenon DEF Idle, HasBuffer
    <3> QED BY Zenon, <2>5, <2>6, <3>1, <1>SharingKept DEF BufferInv
  <2> QED BY Zenon, <2>1, <2>2, <2>4, <2>7 DEF LocalsInv

(***************************************************************************)
(* Steps of the life of a pipe that hold no buffer                         *)
(***************************************************************************)
\* The references are the same when the queues are, t works on no buffer
\* before or after the step, and the readers have what they had.
<1>RefsKept.
  ASSUME BufferInv, NEW t \in Task, LocalStep(t),
         UNCHANGED <<Queue, UseCount, Tracked, BufApp, zcHandle>>,
         pc[t] \notin HasBuffer, pc'[t] \notin HasBuffer,
         \A s \in Slot : \A b \in Buf :
             PipeId'[s] \in PID /\ LastBuffer'[s] = b <=> PipeId[s] \in PID /\ LastBuffer[s] = b
  PROVE  SharingInv' /\ Counted
  <2> USE <1>RefsKept
  <2> BufferTypes /\ BufLocal
    BY Zenon DEF BufferInv, LocalsInv
  <2>1. ASSUME NEW b \in Buf
        PROVE  References(b)' = References(b)
    <3>1. QueuesOf(b)' = QueuesOf(b) /\ ReadersOf(b)' = ReadersOf(b) /\ OwnersOf(b)' = OwnersOf(b)
      BY Zenon DEF QueuesOf, ReadersOf, OwnersOf
    <3>2. \A u \in Task : tBuf'[u] = b /\ pc'[u] # "send_events" <=>
                          tBuf[u] = b /\ pc[u] # "send_events"
      BY Zenon, SBAssumption DEF LocalStep, Others, BufLocal, HasBuffer
    <3>3. WorkersOf(b)' = WorkersOf(b)
      BY Zenon, <3>2 DEF WorkersOf
    <3> QED BY Zenon, <3>1, <3>3, <1>SameRefs
  <2>2. QueuedOnce'
    BY Zenon DEF BufferInv, SharingInv, QueuedOnce
  <2>3. pc[t] # "broadcast" /\ pc'[t] # "broadcast"
    BY Zenon DEF HasBuffer
  <2> QED BY Zenon, <2>1, <2>2, <2>3, <1>SharingKept DEF BufferInv

\* CFE_SB_CreatePipe reserves a descriptor and clears it.
<1>CreatePipeBuffers.
  ASSUME BufferInv, NEW t \in Task, CreatePipe(t)
  PROVE  LocalsInv' /\ SharingInv' /\ Counted
  <2> USE <1>CreatePipeBuffers
  <2> PipeTypes /\ BufferTypes /\ BufLocal /\ Readers /\ NewPipes /\ EmptyQueues /\ Exits
    BY Zenon DEF BufferInv, PipeInv, LocalsInv
  <2>1. PICK p \in NextPipeId \cap PID :
          /\ PipeId' = [PipeId EXCEPT ![SlotOf(p)] = RESERVED]
          /\ LastBuffer' = [LastBuffer EXCEPT ![SlotOf(p)] = NULL]
          /\ LastPipeId' = p
          /\ tPipe' = [tPipe EXCEPT ![t] = p]
    BY ZenonT(60) DEF CreatePipe
  <2>2. /\ p > LastPipeId /\ PipeId[SlotOf(p)] = FREE /\ p \in 0..MaxPipeId
        /\ p \in PID /\ SlotOf(p) \in Slot
    BY Zenon, NextPipeIdFresh, SlotOfInTable
  <2>3. /\ pc[t] = "idle" /\ pc' = [pc EXCEPT ![t] = "create_queue"]
        /\ UNCHANGED <<QLive, Queue, UseCount, Tracked, BufApp, BufMsgId, BufSeq,
                       tQueue, tBuf, zcHandle, tApp>>
    BY Zenon DEF CreatePipe, MayCall, Goto, osVars, bufVars
  <2>4. LocalStep(t)
    BY Zenon, <2>1, <2>3 DEF LocalStep, Others, PipeTypes, BufferTypes, BufLocal, HasBuffer
  <2>5. BufferTypes'
    BY Zenon, <2>1, <2>2, <2>3 DEF BufferTypes
  <2>6. Readers'
    <3> SUFFICES ASSUME NEW u \in Task
                 PROVE  ReaderOf(u)'
      BY Zenon DEF Readers
    <3>1. \A v \in Task \ {t} : pc'[v] = pc[v] /\ tPipe'[v] = tPipe[v] /\ tQueue'[v] = tQueue[v]
      BY Zenon, <2>4 DEF LocalStep, Others
    <3>2. pc'[t] = "create_queue" /\ tPipe'[t] = p
      BY Zenon, <2>1, <2>3 DEF PipeTypes
    <3>3. CASE pc'[u] \in InReceive
      <4>1. u # t /\ ReaderOf(u) /\ pc[u] \in InReceive
        BY Zenon, <3>1, <3>2, <3>3 DEF Readers, InReceive
      <4>2. tPipe[u] \in PID /\ tPipe[u] <= LastPipeId /\ tPipe[u] # p /\ tPipe[u] <= p
        BY <2>2, <4>1 DEF ReaderOf, PID, PipeTypes
      <4>3. PipeDescIsMatch(tPipe[u])' => LastBuffer'[SlotOf(tPipe[u])] = NULL
        BY Zenon, <2>1, <2>2, <3>1, <4>1, <4>2, SlotOfInTable
           DEF ReaderOf, PipeDescIsMatch, PipeTypes, BufferTypes
      <4> QED BY Zenon, <2>1, <3>1, <3>2, <4>1, <4>2, <4>3 DEF ReaderOf, InReceive, PipeDescIsMatch
    <3> QED BY Zenon, <3>3 DEF ReaderOf
  <2>7. NewPipes'
    <3>1. \A u \in Task : pc[u] \in Creating => SlotOf(tPipe[u]) \in Slot
      BY Zenon, SlotOfInTable DEF BufferInv, PipeInv, Reserved, ReservedBy, PipeWork
    <3> QED BY Zenon, <2>1, <2>2, <2>3, <3>1 DEF NewPipes, PipeTypes, BufferTypes
  <2>8. EmptyQueues'
    BY Zenon, <2>3 DEF EmptyQueues, PipeTypes
  <2>9. \A s \in Slot : \A b \in Buf :
          PipeId'[s] \in PID /\ LastBuffer'[s] = b <=> PipeId[s] \in PID /\ LastBuffer[s] = b
    BY Zenon, <2>1, <2>2, PseudoIds DEF PipeTypes, BufferTypes
  <2>10. SharingInv' /\ Counted
    <3>1. pc[t] \notin HasBuffer /\ pc'[t] \notin HasBuffer
      BY Zenon, <2>3 DEF HasBuffer, PipeTypes
    <3> QED BY Zenon, <2>3, <2>4, <2>9, <3>1, <1>RefsKept
  <2> QED BY Zenon, <2>4, <2>5, <2>6, <2>7, <2>8, <2>10, <1>LocalKept DEF LocalsInv

\* OS_QueueCreate: a queue that does not exist is empty.
<1>CreateQueueBuffers.
  ASSUME BufferInv, NEW t \in Task, CreateQueue(t)
  PROVE  LocalsInv' /\ SharingInv' /\ Counted
  <2> USE <1>CreateQueueBuffers
  <2> PipeTypes /\ BufferTypes /\ BufLocal /\ Readers /\ NewPipes /\ EmptyQueues /\ Exits
    BY Zenon DEF BufferInv, PipeInv, LocalsInv
  <2>1. pc[t] = "create_queue" /\ tPipe[t] \in PID /\ tPipe[t] \notin QLive
    BY Zenon DEF CreateQueue, BufferInv, PipeInv, Reserved, ReservedBy, PipeWork, Creating
  <2>2. /\ QLive \subseteq QLive' /\ Queue' = Queue
        /\ \/ pc' = [pc EXCEPT ![t] = "create_fill"] /\ tQueue' = [tQueue EXCEPT ![t] = tPipe[t]]
           \/ pc' = [pc EXCEPT ![t] = "create_fail"] /\ tQueue' = tQueue
    <3>1. [Queue EXCEPT ![tPipe[t]] = <<>>] = Queue
      BY Zenon, <2>1 DEF EmptyQueues, BufferTypes
    <3> QED BY Zenon, <3>1 DEF CreateQueue, Goto, osVars
  <2>3. UNCHANGED <<PipeId, LastBuffer, LastPipeId, UseCount, Tracked, BufApp, BufMsgId, BufSeq,
                    tPipe, tBuf, zcHandle, tApp>>
    BY Zenon DEF CreateQueue, pipeVars, bufVars
  <2>4. LocalStep(t)
    BY Zenon, <2>1, <2>2, <2>3 DEF LocalStep, Others, PipeTypes, BufferTypes, BufLocal, HasBuffer
  <2>5. BufferTypes'
    BY Zenon, <2>2, <2>3 DEF BufferTypes
  <2>6. /\ \A u \in Task : pc'[u] \in InReceive \cup {"delete_queue"} =>
             u # t /\ pc[u] = pc'[u] /\ tQueue'[u] = tQueue[u]
        /\ \A u \in Task : pc'[u] \in Creating => pc[u] \in Creating
    BY Zenon, <2>1, <2>2 DEF PipeTypes, Creating, InReceive
  <2>7. Readers' /\ NewPipes'
    BY Zenon, <2>3, <2>6 DEF Readers, ReaderOf, NewPipes, PipeDescIsMatch
  <2>8. EmptyQueues'
    BY Zenon, <2>2, <2>6 DEF EmptyQueues
  <2>9. SharingInv' /\ Counted
    <3>1. pc[t] \notin HasBuffer /\ pc'[t] \notin HasBuffer
      BY Zenon, <2>1, <2>2 DEF HasBuffer, PipeTypes
    <3> QED BY Zenon, <2>2, <2>3, <2>4, <3>1, <1>RefsKept
  <2> QED BY Zenon, <2>4, <2>5, <2>7, <2>8, <2>9, <1>LocalKept DEF LocalsInv

\* A descriptor that was reserved is filled in or freed.
<1>PipeEndBuffers.
  ASSUME BufferInv, NEW t \in Task, CreateFill(t) \/ CreateFail(t) \/ DeleteFree(t)
  PROVE  LocalsInv' /\ SharingInv' /\ Counted
  <2> USE <1>PipeEndBuffers
  <2> PipeTypes /\ BufferTypes /\ BufLocal /\ Readers /\ NewPipes /\ EmptyQueues /\ Exits
    BY Zenon DEF BufferInv, PipeInv, LocalsInv
  <2> DEFINE s == SlotOf(tPipe[t])
  <2>1. /\ pc[t] \in {"create_fill", "create_fail", "delete_free"} /\ tPipe[t] \in PID
        /\ PipeId[s] = RESERVED /\ s \in Slot
        /\ pc[t] = "create_fill" => LastBuffer[s] = NULL
    BY Zenon, SlotOfInTable
       DEF CreateFill, CreateFail, DeleteFree, BufferInv, PipeInv, Reserved, ReservedBy,
           PipeWork, Creating, NewPipes
  <2>2. \/ pc[t] = "create_fill" /\ PipeId' = [PipeId EXCEPT ![s] = tPipe[t]]
        \/ PipeId' = [PipeId EXCEPT ![s] = FREE]
    BY Zenon, <2>1 DEF CreateFill, CreateFail, DeleteFree
  <2>3. /\ \E l \in {"idle", "cleanup"} : pc' = [pc EXCEPT ![t] = l]
        /\ tPipe' = [tPipe EXCEPT ![t] = FREE] /\ tQueue' = [tQueue EXCEPT ![t] = FREE]
        /\ tBuf' = [tBuf EXCEPT ![t] = NULL]
        /\ UNCHANGED <<LastBuffer, LastPipeId, QLive, Queue, UseCount, Tracked, BufApp, BufMsgId,
                       BufSeq, zcHandle, tApp>>
    <3>1. tBuf = [tBuf EXCEPT ![t] = NULL]
      BY Zenon, <2>1 DEF BufLocal, HasBuffer, BufferTypes
    <3> QED BY Zenon, <3>1 DEF CreateFill, CreateFail, DeleteFree, Return, Goto, osVars, bufVars
  <2> HIDE DEF s
  <2>4. LocalStep(t)
    BY Zenon, <2>1, <2>3 DEF LocalStep, Others, PipeTypes, BufferTypes, HasBuffer
  <2>5. BufferTypes'
    BY Zenon, <2>3, <2>4 DEF BufferTypes, LocalStep
  <2>6. \A u \in Task : pc'[u] \in InReceive \cup Creating \cup {"delete_queue"} =>
          u # t /\ pc'[u] = pc[u] /\ tPipe'[u] = tPipe[u] /\ tQueue'[u] = tQueue[u]
    BY Zenon, <2>3 DEF PipeTypes, InReceive, Creating
  <2>7. Readers'
    <3> SUFFICES ASSUME NEW u \in Task, pc'[u] \in InReceive
                 PROVE  ReaderOf(u)'
      BY Zenon DEF Readers, ReaderOf
    <3>1. u # t /\ pc[u] \in InReceive /\ tPipe'[u] = tPipe[u] /\ ReaderOf(u)
      BY Zenon, <2>6 DEF Readers
    <3>2. PipeDescIsMatch(tPipe[u])' => PipeDescIsMatch(tPipe[u])
      <4>1. pc[t] = "create_fill" => tPipe[u] # tPipe[t]
        BY Zenon, <3>1 DEF ReaderOf, Creating
      <4> QED BY ZenonT(60), <2>1, <2>2, <3>1, <4>1, PseudoIds, SlotOfInTable
                 DEF PipeDescIsMatch, PipeTypes
    <3> QED BY Zenon, <2>3, <2>6, <3>1, <3>2 DEF ReaderOf
  <2>8. NewPipes' /\ EmptyQueues'
    BY <2>3, <2>6 DEF NewPipes, EmptyQueues
  <2>9. \A r \in Slot : \A b \in Buf :
          PipeId'[r] \in PID /\ LastBuffer'[r] = b <=> PipeId[r] \in PID /\ LastBuffer[r] = b
    <3>1. \A r \in Slot \ {s} : PipeId'[r] = PipeId[r]
      BY Zenon, <2>2 DEF PipeTypes
    <3>2. PipeId[s] \notin PID /\ (PipeId'[s] \in PID => LastBuffer[s] = NULL)
      BY Zenon, <2>1, <2>2, PseudoIds DEF PipeTypes
    <3>3. NULL \notin Buf
      BY Zenon, SBAssumption
    <3> QED BY Zenon, <2>3, <3>1, <3>2, <3>3
  <2>10. SharingInv' /\ Counted
    <3>1. pc[t] \notin HasBuffer /\ pc'[t] \notin HasBuffer
      BY Zenon, <2>1, <2>3 DEF HasBuffer, PipeTypes
    <3> QED BY Zenon, <2>3, <2>4, <2>9, <3>1, <1>RefsKept
  <2> QED BY Zenon, <2>4, <2>5, <2>7, <2>8, <2>10, <1>LocalKept DEF LocalsInv

\* OS_QueueDelete: the queue has been drained.
<1>DeleteQueueBuffers.
  ASSUME BufferInv, NEW t \in Task, DeleteQueue(t)
  PROVE  LocalsInv' /\ SharingInv' /\ Counted
  <2> USE <1>DeleteQueueBuffers
  <2> PipeTypes /\ BufferTypes /\ BufLocal /\ Readers /\ NewPipes /\ EmptyQueues /\ Exits
    BY Zenon DEF BufferInv, PipeInv, LocalsInv
  <2>1. /\ pc[t] = "delete_queue" /\ pc' = [pc EXCEPT ![t] = "delete_free"]
        /\ QLive' = QLive \ {tQueue[t]} /\ Queue[tQueue[t]] = <<>>
        /\ UNCHANGED <<PipeId, LastBuffer, LastPipeId, Queue, UseCount, Tracked, BufApp, BufMsgId,
                       BufSeq, tPipe, tQueue, tBuf, zcHandle, tApp>>
    BY Zenon DEF DeleteQueue, Goto, pipeVars, bufVars, EmptyQueues
  <2>2. LocalStep(t)
    BY Zenon, <2>1 DEF LocalStep, Others, PipeTypes, BufferTypes, BufLocal, HasBuffer
  <2>3. BufferTypes'
    BY Zenon, <2>1 DEF BufferTypes
  <2>4. \A u \in Task : pc'[u] \in InReceive \cup Creating \cup {"delete_queue"} =>
          u # t /\ pc'[u] = pc[u]
    BY Zenon, <2>1 DEF PipeTypes, InReceive, Creating
  <2>5. Readers' /\ NewPipes' /\ EmptyQueues'
    BY Zenon, <2>1, <2>4 DEF Readers, ReaderOf, NewPipes, EmptyQueues, PipeDescIsMatch
  <2>6. SharingInv' /\ Counted
    <3>1. pc[t] \notin HasBuffer /\ pc'[t] \notin HasBuffer
      BY Zenon, <2>1 DEF HasBuffer, PipeTypes
    <3> QED BY Zenon, <2>1, <2>2, <3>1, <1>RefsKept
  <2> QED BY Zenon, <2>2, <2>3, <2>5, <2>6, <1>LocalKept DEF LocalsInv

\* The four kinds of reference after a step.
<1>RefKindsAfter.
  ASSUME NEW b
  PROVE  /\ \A x : <<"queue", x>> \in References(b)' <=> x \in QueuesOf(b)'
         /\ \A x : <<"reader", x>> \in References(b)' <=> x \in ReadersOf(b)'
         /\ \A x : <<"worker", x>> \in References(b)' <=> x \in WorkersOf(b)'
         /\ \A x : <<"owner", x>> \in References(b)' <=> x \in OwnersOf(b)'
  BY Zenon, <1>RefKindsAfter DEF References

\* A buffer the step leaves alone stays listed with its sender or its owner.
<1>ListedKept.
  ASSUME NEW t \in Task, LocalStep(t), NEW b \in Buf, Listed(b), Kept(b),
         pc[t] = "broadcast" => tBuf[t] # b
  PROVE  Listed(b)'
  <2> USE <1>ListedKept
  <2> SUFFICES ASSUME Tracked'[b] = "zerocopy"
               PROVE  Listed(b)'
    BY Zenon DEF Listed
  <2>1. PICK u \in Task : \/ zcHandle[u] = b
                          \/ pc[u] = "broadcast" /\ tBuf[u] = b /\ BufApp[b] = AppOf[u]
    BY Zenon DEF Kept, Listed
  <2>2. CASE zcHandle[u] = b
    <3>1. <<"owner", u>> \in References(b)
      BY Zenon, <2>2, RefKinds DEF OwnersOf
    <3>2. u \in OwnersOf(b)'
      BY Zenon, <3>1, <1>RefKindsAfter DEF Kept
    <3> QED BY Zenon, <3>2 DEF Listed, OwnersOf
  <2>3. CASE pc[u] = "broadcast" /\ tBuf[u] = b /\ BufApp[b] = AppOf[u]
    <3>1. u # t /\ pc'[u] = pc[u] /\ tBuf'[u] = tBuf[u]
      BY Zenon, <2>3 DEF LocalStep, Others
    <3> QED BY Zenon, <2>3, <3>1 DEF Listed, Kept
  <2> QED BY Zenon, <2>1, <2>2, <2>3

\* Such a step keeps the sharing of the other tasks.
<1>SharingStep.
  ASSUME BufferTypes, BufLocal, SharingInv, NEW t \in Task, LocalStep(t),
         \A u \in Task \ {t} : zcHandle'[u] \in {zcHandle[u], NULL},
         \A b \in Buf : \/ Kept(b) /\ (pc[t] = "broadcast" => tBuf[t] # b)
                        \/ Mine(t, b) /\ Listed(b)',
         SoleSender(t)', SoleOwner(t)', QueuedOnce'
  PROVE  SharingInv'
  <2> USE <1>SharingStep
  <2>1. ASSUME NEW u \in Task \ {t}
        PROVE  SoleSender(u)'
    <3>1. pc'[u] = pc[u] /\ tBuf'[u] = tBuf[u]
      BY Zenon DEF LocalStep, Others
    <3>2. pc[u] = "broadcast" => tBuf[u] \in Buf
      BY Zenon DEF BufferTypes, BufLocal, HasBuffer
    <3>3. ASSUME NEW b \in Buf, pc[u] = "broadcast", tBuf[u] = b
          PROVE  References(b)' = {<<"worker", u>>}
      <4>1. References(b) = {<<"worker", u>>}
        BY Zenon, <3>3 DEF SharingInv, SoleSender
      <4>2. ~ Mine(t, b)
        BY Zenon, <4>1 DEF Mine
      <4> QED BY Zenon, <4>1, <4>2 DEF Kept
    <3> QED BY Zenon, <3>1, <3>2, <3>3 DEF SoleSender
  <2>2. ASSUME NEW u \in Task \ {t}
        PROVE  SoleOwner(u)'
    <3>1. zcHandle'[u] # NULL => zcHandle'[u] = zcHandle[u] /\ zcHandle[u] \in Buf
      BY Zenon DEF BufferTypes
    <3>2. ASSUME NEW b \in Buf, zcHandle'[u] # NULL, zcHandle[u] = b
          PROVE  /\ References(b)' = {<<"owner", u>>} /\ Tracked'[b] = "zerocopy"
                 /\ BufApp'[b] = AppOf[u]
      <4>1. /\ References(b) = {<<"owner", u>>} /\ Tracked[b] = "zerocopy"
            /\ BufApp[b] = AppOf[u]
        BY Zenon, <3>1, <3>2 DEF SharingInv, SoleOwner
      <4>2. ~ Mine(t, b)
        BY Zenon, <3>2, <4>1 DEF Mine
      <4> QED BY Zenon, <4>1, <4>2 DEF Kept
    <3> QED BY Zenon, <3>1, <3>2 DEF SoleOwner
  <2>3. ASSUME NEW b \in Buf
        PROVE  Listed(b)'
    BY Zenon, <1>ListedKept DEF SharingInv
  <2> QED BY Zenon, <2>1, <2>2, <2>3 DEF SharingInv

\* A step that creates no pipe keeps LocalsInv if the descriptors it changes
\* are no other task's, and if what it says of t itself holds afterwards.
<1>LocalsStep.
  ASSUME BufferInv, NEW t \in Task, LocalStep(t), BufferTypes',
         UNCHANGED <<LastPipeId, QLive>>,
         \A s \in Slot : LastBuffer'[s] \in {LastBuffer[s], NULL} \/ PipeId[s] \in PID,
         \A p \in PID : PipeDescIsMatch(p)' =>
             /\ PipeDescIsMatch(p)
             /\ \/ LastBuffer'[SlotOf(p)] \in {LastBuffer[SlotOf(p)], NULL}
                \/ pc[t] \in InReceive /\ tPipe[t] = p,
         \A q \in PID : Queue[q] = <<>> /\ ~ PipeDescIsMatch(q) => Queue'[q] = <<>>,
         pc'[t] \notin Creating, ReaderOf(t)',
         pc'[t] = "delete_queue" => Queue'[tQueue'[t]] = <<>>
  PROVE  LocalsInv'
  <2> USE <1>LocalsStep
  <2> PipeTypes /\ BufferTypes /\ BufLocal /\ Readers /\ NewPipes /\ EmptyQueues /\ Exits
    BY Zenon DEF BufferInv, PipeInv, LocalsInv
  <2>1. BufLocal' /\ Exits'
    BY Zenon, <1>LocalKept
  <2>2. \A u \in Task \ {t} : pc'[u] = pc[u] /\ tPipe'[u] = tPipe[u] /\ tQueue'[u] = tQueue[u]
    BY Zenon DEF LocalStep, Others
  <2>3. ASSUME NEW u \in Task \ {t}, pc'[u] \in InReceive
        PROVE  ReaderOf(u)'
    <3>1. ReaderOf(u) /\ pc[u] \in InReceive /\ tPipe'[u] = tPipe[u] /\ tQueue'[u] = tQueue[u]
      BY Zenon, <2>2, <2>3 DEF Readers
    <3>2. tPipe[u] \in PID /\ tPipe[u] <= LastPipeId' /\ tQueue[u] = tPipe[u]
      BY Zenon, <3>1 DEF ReaderOf
    <3>3. ASSUME PipeId'[SlotOf(tPipe[u])] = tPipe[u]
          PROVE  LastBuffer'[SlotOf(tPipe[u])] = NULL
      <4>1. ~ (pc[t] \in InReceive /\ tPipe[t] = tPipe[u])
        BY Zenon, <3>1 DEF ReaderOf
      <4>2. /\ PipeDescIsMatch(tPipe[u])
            /\ LastBuffer'[SlotOf(tPipe[u])] \in {LastBuffer[SlotOf(tPipe[u])], NULL}
        BY Zenon, <3>2, <3>3, <4>1 DEF PipeDescIsMatch
      <4> QED BY Zenon, <3>1, <4>2 DEF ReaderOf
    <3>4. \A v \in Task : pc'[v] \in InReceive /\ tPipe'[v] = tPipe'[u] => v = u
      <4>1. \A v \in Task \ {t} : pc'[v] \in InReceive /\ tPipe'[v] = tPipe'[u] => v = u
        BY Zenon, <2>2, <3>1 DEF ReaderOf
      <4>2. ~ (pc'[t] \in InReceive /\ tPipe'[t] = tPipe'[u])
        BY Zenon, <2>3 DEF ReaderOf
      <4> QED BY Zenon, <4>1, <4>2
    <3>5. \A v \in Task : pc'[v] \in Creating => tPipe'[v] # tPipe'[u]
      BY Zenon, <2>2, <3>1 DEF ReaderOf
    <3>6. PipeDescIsMatch(tPipe[u])' => LastBuffer'[SlotOf(tPipe'[u])] = NULL
      BY Zenon, <3>1, <3>3 DEF PipeDescIsMatch
    <3> QED BY Zenon, <3>1, <3>2, <3>4, <3>5, <3>6 DEF ReaderOf
  <2>4. Readers'
    BY Zenon, <2>3 DEF Readers, ReaderOf
  <2>5. NewPipes'
    <3> SUFFICES ASSUME NEW u \in Task, pc'[u] \in Creating
                 PROVE  LastBuffer'[SlotOf(tPipe'[u])] = NULL
      BY Zenon DEF NewPipes
    <3>1. pc[u] \in Creating /\ tPipe'[u] = tPipe[u]
      BY Zenon, <2>2
    <3>2. tPipe[u] \in PID /\ PipeId[SlotOf(tPipe[u])] = RESERVED
      BY Zenon, <3>1 DEF BufferInv, PipeInv, Reserved, ReservedBy, PipeWork
    <3>3. LastBuffer'[SlotOf(tPipe[u])] \in {LastBuffer[SlotOf(tPipe[u])], NULL}
      BY Zenon, <3>2, SlotOfInTable, PseudoIds
    <3> QED BY Zenon, <3>1, <3>3 DEF NewPipes
  <2>6. EmptyQueues'
    <3>1. ASSUME NEW q \in PID \ QLive'
          PROVE  Queue'[q] = <<>>
      <4>1. q \in PID \ QLive /\ ~ PipeDescIsMatch(q)
        BY Zenon, SlotOfInTable DEF BufferInv, PipeInv, SlotsOK, PipeDescIsMatch
      <4> QED BY Zenon, <4>1 DEF EmptyQueues
    <3>2. ASSUME NEW u \in Task \ {t}, pc'[u] = "delete_queue"
          PROVE  Queue'[tQueue'[u]] = <<>>
      <4>1. pc[u] = "delete_queue" /\ tQueue'[u] = tQueue[u]
        BY Zenon, <2>2, <3>2
      <4>2. /\ tQueue[u] = tPipe[u] /\ tPipe[u] \in PID
            /\ PipeId[SlotOf(tPipe[u])] = RESERVED
        BY Zenon, <4>1 DEF BufferInv, PipeInv, Reserved, ReservedBy, PipeWork, Draining
      <4>3. ~ PipeDescIsMatch(tQueue[u])
        BY Zenon, <4>2, PseudoIds DEF PipeDescIsMatch
      <4> QED BY Zenon, <4>1, <4>2, <4>3 DEF EmptyQueues
    <3> QED BY Zenon, <3>1, <3>2 DEF EmptyQueues
  <2> QED BY Zenon, <2>1, <2>4, <2>5, <2>6 DEF LocalsInv

\* A reference of one kind goes.
<1>RefsLess.
  ASSUME NEW b, NEW x, QueuesOf(b)' = QueuesOf(b)
  PROVE  /\ /\ ReadersOf(b)' = ReadersOf(b) /\ OwnersOf(b)' = OwnersOf(b)
            /\ WorkersOf(b)' = WorkersOf(b) \ {x}
            => References(b)' = References(b) \ {<<"worker", x>>}
         /\ /\ ReadersOf(b)' = ReadersOf(b) /\ WorkersOf(b)' = WorkersOf(b)
            /\ OwnersOf(b)' = OwnersOf(b) \ {x}
            => References(b)' = References(b) \ {<<"owner", x>>}
         /\ /\ WorkersOf(b)' = WorkersOf(b) /\ OwnersOf(b)' = OwnersOf(b)
            /\ ReadersOf(b)' = ReadersOf(b) \ {x}
            => References(b)' = References(b) \ {<<"reader", x>>}
  BY <1>RefsLess DEF References

\* One is passed on from a reader to a task ...
<1>FromReader.
  ASSUME NEW b, NEW x, NEW t, UseCount'[b] = UseCount[b],
         QueuesOf(b)' = QueuesOf(b), ReadersOf(b)' = ReadersOf(b) \ {x},
         WorkersOf(b)' = WorkersOf(b) \cup {t}, OwnersOf(b)' = OwnersOf(b),
         x \in ReadersOf(b), t \notin WorkersOf(b)
  PROVE  Passed(b)
  <2> USE <1>FromReader
  <2>1. References(b)' = (References(b) \ {<<"reader", x>>}) \cup {<<"worker", t>>}
    BY DEF References
  <2>2. <<"reader", x>> \in References(b) /\ <<"worker", t>> \notin References(b)
    BY Zenon, RefKinds
  <2> QED BY Zenon, <2>1, <2>2 DEF Passed

\* ... from a queue to a task ...
<1>FromQueue.
  ASSUME NEW b, NEW x, NEW t, UseCount'[b] = UseCount[b],
         QueuesOf(b)' = QueuesOf(b) \ {x}, ReadersOf(b)' = ReadersOf(b),
         WorkersOf(b)' = WorkersOf(b) \cup {t}, OwnersOf(b)' = OwnersOf(b),
         x \in QueuesOf(b), t \notin WorkersOf(b)
  PROVE  Passed(b)
  <2> USE <1>FromQueue
  <2>1. References(b)' = (References(b) \ {<<"queue", x>>}) \cup {<<"worker", t>>}
    BY DEF References
  <2>2. <<"queue", x>> \in References(b) /\ <<"worker", t>> \notin References(b)
    BY Zenon, RefKinds
  <2> QED BY Zenon, <2>1, <2>2 DEF Passed

\* ... from the owner, who sends it ...
<1>FromOwner.
  ASSUME NEW b, NEW t, UseCount'[b] = UseCount[b], References(b) = {<<"owner", t>>},
         QueuesOf(b)' = QueuesOf(b), ReadersOf(b)' = ReadersOf(b),
         WorkersOf(b)' = WorkersOf(b) \cup {t}, OwnersOf(b)' = OwnersOf(b) \ {t}
  PROVE  Passed(b) /\ References(b)' = {<<"worker", t>>}
  <2> USE <1>FromOwner
  <2>1. QueuesOf(b) = {} /\ ReadersOf(b) = {} /\ WorkersOf(b) = {}
    BY Zenon, RefKinds, RefTags
  <2>2. \A x \in OwnersOf(b)' : FALSE
    <3>1. \A x \in OwnersOf(b) : <<"owner", x>> = <<"owner", t>>
      BY Zenon, RefKinds
    <3>2. \A x \in OwnersOf(b) : x = t
      BY <3>1
    <3> QED BY Zenon, <3>2
  <2>3. References(b)' = {<<"worker", t>>}
    BY <2>1, <2>2 DEF References
  <2>4. References(b)' = (References(b) \ {<<"owner", t>>}) \cup {<<"worker", t>>}
    BY Zenon, <2>3
  <2>5. <<"worker", t>> \notin References(b)
    BY Zenon, RefTags
  <2> QED BY Zenon, <2>3, <2>4, <2>5 DEF Passed

\* ... or from a task to a reader.
<1>ToReader.
  ASSUME NEW b, NEW x, NEW t, UseCount'[b] = UseCount[b],
         QueuesOf(b)' = QueuesOf(b), ReadersOf(b)' = ReadersOf(b) \cup {x},
         WorkersOf(b)' = WorkersOf(b) \ {t}, OwnersOf(b)' = OwnersOf(b),
         t \in WorkersOf(b), x \notin ReadersOf(b)
  PROVE  Passed(b)
  <2> USE <1>ToReader
  <2>1. References(b)' = (References(b) \ {<<"worker", t>>}) \cup {<<"reader", x>>}
    BY DEF References
  <2>2. <<"worker", t>> \in References(b) /\ <<"reader", x>> \notin References(b)
    BY Zenon, RefKinds
  <2> QED BY Zenon, <2>1, <2>2 DEF Passed

\* A task is the first to have one, as a sender ...
<1>FirstSender.
  ASSUME NEW b, NEW t, References(b) = {},
         QueuesOf(b)' = QueuesOf(b), ReadersOf(b)' = ReadersOf(b),
         WorkersOf(b)' = WorkersOf(b) \cup {t}, OwnersOf(b)' = OwnersOf(b)
  PROVE  References(b)' = {<<"worker", t>>}
  BY <1>FirstSender DEF References

\* ... or as an owner.
<1>FirstOwner.
  ASSUME NEW b, NEW t, References(b) = {},
         QueuesOf(b)' = QueuesOf(b), ReadersOf(b)' = ReadersOf(b),
         WorkersOf(b)' = WorkersOf(b), OwnersOf(b)' = OwnersOf(b) \cup {t}
  PROVE  References(b)' = {<<"owner", t>>}
  BY <1>FirstOwner DEF References

\* Only the step's own task starts or ends work on a buffer.
<1>WorkersStep.
  ASSUME NEW t \in Task, Others(t), NEW c
  PROVE  /\ tBuf'[t] = c /\ pc'[t] # "send_events" => WorkersOf(c)' = WorkersOf(c) \cup {t}
         /\ tBuf'[t] # c \/ pc'[t] = "send_events" => WorkersOf(c)' = WorkersOf(c) \ {t}
         /\ tBuf[t] # c /\ tBuf'[t] # c => WorkersOf(c)' = WorkersOf(c)
  BY <1>WorkersStep DEF WorkersOf, Others

\* A buffer with a reference that is neither an owner's nor a sender's is not
\* on ZeroCopyList.
<1>NotListed.
  ASSUME SharingInv, NEW b \in Buf, NEW r \in References(b),
         \A u \in Task : r # <<"owner", u>> /\ (pc[u] = "broadcast" => r # <<"worker", u>>)
  PROVE  Tracked[b] # "zerocopy"
  BY SMTT(60), <1>NotListed, SBAssumption DEF SharingInv, Listed, SoleOwner, SoleSender

\* A step that changes one buffer, of which t, a queue or a reader has a
\* reference, keeps the sharing.
<1>SharingOne.
  ASSUME BufferTypes, BufLocal, SharingInv, NEW t \in Task, LocalStep(t), zcHandle' = zcHandle,
         NEW b \in Buf, \A c \in Buf \ {b} : Kept(c),
         Tracked'[b] \in {Tracked[b], "none"},
         NEW r \in References(b),
         \A u \in Task : r # <<"owner", u>> /\ (r = <<"worker", u>> => u = t),
         pc[t] # "broadcast", pc'[t] # "broadcast", QueuedOnce'
  PROVE  SharingInv'
  <2> USE <1>SharingOne
  <2>1. Mine(t, b)
    BY Zenon DEF Mine
  <2>2. Listed(b)'
    <3>1. Tracked[b] # "zerocopy"
      BY Zenon, <1>NotListed
    <3> QED BY Zenon, <3>1 DEF Listed
  <2>3. SoleSender(t)'
    BY Zenon DEF SoleSender
  <2>4. SoleOwner(t)'
    <3>1. SoleOwner(t)
      BY Zenon DEF SharingInv
    <3>2. zcHandle[t] # b
      BY Zenon, <3>1, NullPtr DEF SoleOwner
    <3>3. zcHandle[t] # NULL => zcHandle[t] \in Buf \ {b}
      BY Zenon, <3>2 DEF BufferTypes
    <3> QED BY Zenon, <3>1, <3>3 DEF SoleOwner, Kept
  <2> QED BY Zenon, <2>1, <2>2, <2>3, <2>4, <1>SharingStep

\* DecrBufUseCnt for one buffer, which loses a reference.
<1>DropStep.
  ASSUME CountsAgree, BufferTypes, NEW b \in Buf, NEW r \in References(b),
         DecrBufUseCnt({b}), References(b)' = References(b) \ {r},
         \A c \in Buf \ {b} : References(c)' = References(c) /\ BufApp'[c] = BufApp[c]
  PROVE  /\ Counted
         /\ \A c \in Buf \ {b} : Kept(c)
         /\ Tracked' \in [Buf -> {"none", "zerocopy", "transit"}]
         /\ UseCount' \in [Buf -> Nat]
         /\ Tracked'[b] = IF UseCount[b] = 1 THEN "none" ELSE Tracked[b]
  <2> USE <1>DropStep
  <2>1. UseCount[b] \in Nat /\ UseCount[b] > 0
    BY DEF CountsAgree, BufferTypes
  <2>2. /\ UseCount' \in [Buf -> Nat] /\ UseCount'[b] = UseCount[b] - 1
        /\ \A c \in Buf \ {b} : UseCount'[c] = UseCount[c]
    BY <2>1 DEF DecrBufUseCnt, BufferTypes
  <2>3. /\ Tracked' \in [Buf -> {"none", "zerocopy", "transit"}]
        /\ Tracked'[b] = IF UseCount[b] = 1 THEN "none" ELSE Tracked[b]
        /\ \A c \in Buf \ {b} : Tracked'[c] = Tracked[c]
    BY DEF DecrBufUseCnt, BufferTypes
  <2>4. \A c \in Buf \ {b} : Kept(c)
    BY Zenon, <2>2, <2>3 DEF Kept
  <2>5. Dropped(b)
    BY Zenon, <2>2 DEF Dropped
  <2> QED BY Zenon, <2>2, <2>3, <2>4, <2>5 DEF Counted

\* The drain loop of CFE_SB_DeletePipeFull releases a buffer.
<1>DeleteUnrefBuffers.
  ASSUME BufferInv, CountsAgree, NEW t \in Task, DeleteUnref(t)
  PROVE  LocalsInv' /\ SharingInv' /\ Counted
  <2> USE <1>DeleteUnrefBuffers
  <2> PipeTypes /\ BufferTypes /\ BufLocal /\ SharingInv
    BY Zenon DEF BufferInv, PipeInv, LocalsInv
  <2>1. pc[t] = "delete_unref" /\ pc' = [pc EXCEPT ![t] = "delete_get"]
    BY Zenon DEF DeleteUnref, Goto
  <2>2. PICK b \in Buf : tBuf[t] = b
    BY Zenon, <2>1 DEF BufLocal, BufferTypes, HasBuffer
  <2>3. /\ DecrBufUseCnt({b}) /\ tBuf' = [tBuf EXCEPT ![t] = NULL]
        /\ UNCHANGED <<PipeId, LastBuffer, LastPipeId, QLive, Queue, BufApp, BufMsgId, BufSeq,
                       tPipe, tQueue, zcHandle, tApp>>
    BY Zenon, <2>2 DEF DeleteUnref, pipeVars, osVars
  <2>4. LocalStep(t)
    BY Zenon, <2>1, <2>3 DEF LocalStep, Others, PipeTypes, BufferTypes, HasBuffer
  <2>5. ASSUME NEW c
        PROVE  /\ QueuesOf(c)' = QueuesOf(c) /\ ReadersOf(c)' = ReadersOf(c)
               /\ OwnersOf(c)' = OwnersOf(c)
    BY Zenon, <2>3 DEF QueuesOf, ReadersOf, OwnersOf
  <2>6. t \in WorkersOf(b) /\ WorkersOf(b)' = WorkersOf(b) \ {t}
    <3>1. tBuf'[t] # b
      BY <2>3, SBAssumption DEF BufferTypes
    <3>2. Others(t) /\ t \in WorkersOf(b)
      BY Zenon, <2>1, <2>2, <2>4 DEF WorkersOf, LocalStep
    <3> QED BY Zenon, <3>1, <3>2, <1>WorkersStep
  <2>7. ASSUME NEW c \in Buf \ {b}
        PROVE  References(c)' = References(c)
    <3>1. tBuf'[t] # c /\ tBuf[t] # c /\ Others(t)
      BY Zenon, <2>2, <2>3, <2>4, NullPtr DEF BufferTypes, LocalStep
    <3>2. WorkersOf(c)' = WorkersOf(c)
      BY Zenon, <3>1, <1>WorkersStep
    <3> QED BY Zenon, <2>5, <3>2, <1>SameRefs
  <2>8. <<"worker", t>> \in References(b) /\ References(b)' = References(b) \ {<<"worker", t>>}
    <3>1. <<"worker", t>> \in References(b)
      BY Zenon, <2>6, RefKinds
    <3>2. References(b)' = References(b) \ {<<"worker", t>>}
      BY Zenon, <2>5, <2>6, <1>RefsLess
    <3> QED BY Zenon, <3>1, <3>2
  <2>9. /\ Counted /\ \A c \in Buf \ {b} : Kept(c)
        /\ Tracked' \in [Buf -> {"none", "zerocopy", "transit"}] /\ UseCount' \in [Buf -> Nat]
        /\ Tracked'[b] = IF UseCount[b] = 1 THEN "none" ELSE Tracked[b]
    BY Zenon, <2>3, <2>7, <2>8, <1>DropStep
  <2>10. BufferTypes'
    BY Zenon, <2>3, <2>4, <2>9 DEF BufferTypes, LocalStep
  <2>11. LocalsInv'
    <3>1. pc'[t] = "delete_get"
      BY Zenon, <2>1 DEF PipeTypes
    <3> QED BY Zenon, <2>3, <2>4, <2>10, <3>1, <1>LocalsStep
               DEF PipeDescIsMatch, Creating, ReaderOf, InReceive
  <2>12. SharingInv'
    <3>1. QueuedOnce' /\ pc[t] # "broadcast" /\ pc'[t] # "broadcast"
      BY Zenon, <2>1, <2>3 DEF QueuedOnce, SharingInv, PipeTypes
    <3>2. Tracked'[b] \in {Tracked[b], "none"}
      BY Zenon, <2>9
    <3>3. \A u \in Task : /\ <<"worker", t>> # <<"owner", u>>
                          /\ <<"worker", t>> = <<"worker", u>> => u = t
      BY RefTags
    <3> QED BY Zenon, <2>3, <2>4, <2>8, <2>9, <3>1, <3>2, <3>3, <1>SharingOne
  <2> QED BY Zenon, <2>9, <2>11, <2>12

\* A reference to one buffer is passed on.
<1>PassStep.
  ASSUME UNCHANGED <<UseCount, Tracked, BufApp>>, NEW b \in Buf, Passed(b),
         \A c \in Buf \ {b} : References(c)' = References(c)
  PROVE  Counted /\ \A c \in Buf \ {b} : Kept(c)
  <2> USE <1>PassStep
  <2>1. \A c \in Buf \ {b} : Kept(c)
    BY Zenon DEF Kept
  <2> QED BY Zenon, <2>1 DEF Counted

\* CFE_SB_DeletePipeFull takes over the buffer of the pipe's reader.
<1>ReservingBuffers.
  ASSUME BufferInv, NEW t \in Task, Reserving(t)
  PROVE  LocalsInv' /\ SharingInv' /\ Counted
  <2> USE <1>ReservingBuffers
  <2> PipeTypes /\ BufferTypes /\ BufLocal /\ SharingInv
    BY Zenon DEF BufferInv, PipeInv, LocalsInv
  <2>1. PICK p \in PID : pc[t] \in {"idle", "cleanup"} /\ DeletePipeReserve(t, p)
    BY Zenon DEF Reserving
  <2>2. PICK s \in Slot : s = SlotOf(p) /\ PipeId[s] = p
    BY Zenon, <2>1, SlotOfInTable DEF DeletePipeReserve, PipeDescIsMatch
  <2>3. /\ PipeId' = [PipeId EXCEPT ![s] = RESERVED] /\ tBuf' = [tBuf EXCEPT ![t] = LastBuffer[s]]
        /\ UNCHANGED <<LastBuffer, LastPipeId, QLive, Queue, UseCount, Tracked, BufApp, BufMsgId,
                       BufSeq, zcHandle, tApp>>
        /\ \A u \in Task \ {t} : tPipe'[u] = tPipe[u] /\ tQueue'[u] = tQueue[u]
    BY Zenon, <2>1, <2>2 DEF DeletePipeReserve, osVars, bufVars, PipeTypes
  <2>4. /\ LastBuffer[s] = NULL => pc' = [pc EXCEPT ![t] = "delete_get"]
        /\ LastBuffer[s] # NULL => pc' = [pc EXCEPT ![t] = "delete_unref"]
    BY Zenon, <2>1, <2>2 DEF DeletePipeReserve, FirstDrainStep, Goto
  <2>5. tBuf[t] = NULL /\ tBuf'[t] = LastBuffer[s] /\ LastBuffer[s] \in Buf \cup {NULL}
    BY Zenon, <2>1, <2>3 DEF BufLocal, HasBuffer, BufferTypes
  <2>6. LocalStep(t)
    <3>1. /\ pc'[t] \in {"delete_get", "delete_unref"} /\ \A u \in Task \ {t} : pc'[u] = pc[u]
          /\ LastBuffer[s] # NULL <=> pc'[t] = "delete_unref"
      BY Zenon, <2>4 DEF PipeTypes
    <3>2. Others(t)
      BY Zenon, <2>3, <3>1 DEF Others, BufferTypes
    <3> QED BY Zenon, <2>1, <2>3, <2>5, <3>1, <3>2 DEF LocalStep, BufferTypes, HasBuffer
  <2>7. BufferTypes' /\ pc'[t] \in {"delete_get", "delete_unref"}
    BY Zenon, <2>3, <2>4, <2>6 DEF BufferTypes, PipeTypes, LocalStep
  <2>8. LocalsInv'
    <3>1. \A q \in PID : PipeDescIsMatch(q)' => PipeDescIsMatch(q)
      BY ZenonT(60), <2>3, PseudoIds, SlotOfInTable DEF PipeDescIsMatch, PipeTypes
    <3> QED BY Zenon, <2>3, <2>6, <2>7, <3>1, <1>LocalsStep DEF Creating, ReaderOf, InReceive
  <2>9. ASSUME NEW c \in Buf
        PROVE  /\ QueuesOf(c)' = QueuesOf(c) /\ OwnersOf(c)' = OwnersOf(c)
               /\ LastBuffer[s] # c => ReadersOf(c)' = ReadersOf(c)
               /\ ReadersOf(c)' = ReadersOf(c) \ {s}
    BY <2>3, PseudoIds DEF QueuesOf, ReadersOf, OwnersOf, PipeTypes
  <2>10. ASSUME NEW c \in Buf, LastBuffer[s] # c
         PROVE  References(c)' = References(c)
    <3>1. tBuf'[t] # c /\ tBuf[t] # c /\ Others(t)
      BY Zenon, <2>5, <2>6, <2>10, NullPtr DEF LocalStep
    <3>2. WorkersOf(c)' = WorkersOf(c)
      BY Zenon, <3>1, <1>WorkersStep
    <3> QED BY Zenon, <2>9, <2>10, <3>2, <1>SameRefs
  <2>11. QueuedOnce' /\ pc[t] # "broadcast" /\ pc'[t] # "broadcast"
    BY Zenon, <2>1, <2>3, <2>7 DEF QueuedOnce, SharingInv
  <2>12. CASE LastBuffer[s] = NULL
    <3>1. \A c \in Buf : References(c)' = References(c)
      BY Zenon, <2>10, <2>12, NullPtr
    <3> QED BY Zenon, <2>3, <2>6, <2>8, <2>11, <3>1, <1>SharingKept
  <2>13. ASSUME NEW b \in Buf, LastBuffer[s] = b
         PROVE  SharingInv' /\ Counted
    <3>1. s \in ReadersOf(b) /\ t \notin WorkersOf(b)
      BY Zenon, <2>2, <2>5, <2>13, NullPtr DEF ReadersOf, WorkersOf
    <3>2. <<"reader", s>> \in References(b)
      BY Zenon, <3>1, RefKinds
    <3>3. Others(t) /\ tBuf'[t] = b /\ pc'[t] # "send_events"
      BY Zenon, <2>5, <2>6, <2>7, <2>13 DEF LocalStep
    <3>4. WorkersOf(b)' = WorkersOf(b) \cup {t}
      BY Zenon, <3>3, <1>WorkersStep
    <3>5. Passed(b)
      <4>1. /\ QueuesOf(b)' = QueuesOf(b) /\ OwnersOf(b)' = OwnersOf(b)
            /\ ReadersOf(b)' = ReadersOf(b) \ {s}
        BY Zenon, <2>9
      <4>2. UseCount'[b] = UseCount[b]
        BY Zenon, <2>3
      <4> QED BY Zenon, <3>1, <3>4, <4>1, <4>2, <1>FromReader
    <3>6. Counted /\ \A c \in Buf \ {b} : Kept(c)
      BY Zenon, <2>3, <2>10, <2>13, <3>5, <1>PassStep
    <3>7. \A u \in Task : <<"reader", s>> # <<"owner", u>> /\ <<"reader", s>> # <<"worker", u>>
      BY RefTags
    <3>8. Tracked'[b] \in {Tracked[b], "none"}
      BY Zenon, <2>3
    <3> QED BY Zenon, <2>3, <2>6, <2>11, <3>2, <3>6, <3>7, <3>8, <1>SharingOne
  <2> QED BY Zenon, <2>5, <2>8, <2>12, <2>13

(***************************************************************************)
(* Operations that move buffers                                            *)
(***************************************************************************)
\* OS_QueueGet takes the first message of a queue.
<1>QueueGet.
  ASSUME Queue \in [PID -> Seq(Buf)], QueuedOnce, NEW q \in PID, Queue[q] # <<>>,
         Queue' = [Queue EXCEPT ![q] = Tail(@)]
  PROVE  /\ Head(Queue[q]) \in Buf
         /\ Queue' \in [PID -> Seq(Buf)]
         /\ QueuedOnce'
         /\ q \in QueuesOf(Head(Queue[q]))
         /\ \A b : b = Head(Queue[q]) => QueuesOf(b)' = QueuesOf(b) \ {q}
         /\ \A b : b # Head(Queue[q]) => QueuesOf(b)' = QueuesOf(b)
         /\ \A r \in PID : Queue[r] = <<>> => Queue'[r] = <<>>
  <2> USE <1>QueueGet
  <2>1. /\ Queue[q] \in Seq(Buf) /\ Len(Queue[q]) \in Nat \ {0}
        /\ Head(Queue[q]) = Queue[q][1] /\ Head(Queue[q]) \in Buf
        /\ Tail(Queue[q]) \in Seq(Buf) /\ Len(Tail(Queue[q])) = Len(Queue[q]) - 1
        /\ \A i \in 1..(Len(Queue[q]) - 1) : Tail(Queue[q])[i] = Queue[q][i + 1]
    OBVIOUS
  <2>2. /\ Queue' \in [PID -> Seq(Buf)] /\ Queue'[q] = Tail(Queue[q])
        /\ \A r \in PID \ {q} : Queue'[r] = Queue[r]
    BY Zenon, <2>1
  <2>3. \A i, j \in 1..Len(Queue[q]) : Queue[q][i] = Queue[q][j] => i = j
    BY Zenon DEF QueuedOnce
  <2>4. \A i, j \in 1..Len(Queue'[q]) : Queue'[q][i] = Queue'[q][j] => i = j
    BY <2>1, <2>2, <2>3
  <2>5. QueuedOnce'
    <3> SUFFICES ASSUME NEW r \in PID, NEW i \in 1..Len(Queue'[r]), NEW j \in 1..Len(Queue'[r]),
                        Queue'[r][i] = Queue'[r][j]
                 PROVE  i = j
      BY Zenon DEF QueuedOnce
    <3>1. CASE r = q
      BY Zenon, <2>4, <3>1
    <3>2. CASE r # q
      BY <2>2, <3>2 DEF QueuedOnce
    <3> QED BY Zenon, <3>1, <3>2
  <2>6. ASSUME NEW b
        PROVE  (\E i \in 1..Len(Queue'[q]) : Queue'[q][i] = b) <=>
               (\E i \in 1..Len(Queue[q]) : Queue[q][i] = b) /\ b # Head(Queue[q])
    <3>1. ASSUME NEW i \in 1..Len(Queue'[q]), Queue'[q][i] = b
          PROVE  (\E k \in 1..Len(Queue[q]) : Queue[q][k] = b) /\ b # Head(Queue[q])
      <4>1. /\ i + 1 \in 1..Len(Queue[q]) /\ 1 \in 1..Len(Queue[q]) /\ i + 1 # 1
            /\ Queue[q][i + 1] = b
        BY <2>1, <2>2, <3>1
      <4>2. b # Queue[q][1]
        BY Zenon, <2>3, <4>1
      <4> QED BY Zenon, <2>1, <4>1, <4>2
    <3>2. ASSUME NEW i \in 1..Len(Queue[q]), Queue[q][i] = b, b # Head(Queue[q])
          PROVE  \E k \in 1..Len(Queue'[q]) : Queue'[q][k] = b
      <4>1. i - 1 \in 1..Len(Queue'[q]) /\ Queue'[q][i - 1] = b
        BY <2>1, <2>2, <3>2
      <4> QED BY Zenon, <4>1
    <3> QED BY Zenon, <3>1, <3>2
  <2>7. q \in QueuesOf(Head(Queue[q]))
    <3>1. 1 \in 1..Len(Queue[q])
      BY <2>1
    <3> QED BY Zenon, <2>1, <3>1 DEF QueuesOf
  <2>8. ASSUME NEW b
        PROVE  /\ b = Head(Queue[q]) => QueuesOf(b)' = QueuesOf(b) \ {q}
               /\ b # Head(Queue[q]) => QueuesOf(b)' = QueuesOf(b)
    <3>1. \A r \in PID \ {q} : r \in QueuesOf(b)' <=> r \in QueuesOf(b)
      BY <2>2 DEF QueuesOf
    <3>2. q \in QueuesOf(b)' <=> q \in QueuesOf(b) /\ b # Head(Queue[q])
      BY Zenon, <2>6 DEF QueuesOf
    <3>3. QueuesOf(b) \subseteq PID /\ QueuesOf(b)' \subseteq PID
      BY Zenon DEF QueuesOf
    <3>4. CASE b = Head(Queue[q])
      <4>1. \A r : r \in QueuesOf(b)' <=> r \in QueuesOf(b) /\ r # q
        BY Zenon, <3>1, <3>2, <3>3, <3>4
      <4> QED BY Zenon, <3>4, <4>1
    <3>5. CASE b # Head(Queue[q])
      <4>1. \A r : r \in QueuesOf(b)' <=> r \in QueuesOf(b)
        BY Zenon, <3>1, <3>2, <3>3, <3>5
      <4> QED BY Zenon, <3>5, <4>1
    <3> QED BY Zenon, <3>4, <3>5
  <2>9. \A r \in PID : Queue[r] = <<>> => Queue'[r] = <<>>
    BY Zenon, <2>2
  <2> QED BY Zenon, <2>1, <2>2, <2>5, <2>7, <2>8, <2>9

\* The drain loop or a reader takes a message from the queue.
<1>GetBuffers.
  ASSUME BufferInv, NEW t \in Task, NEW q \in PID, Queue[q] # <<>>,
         tQueue[t] = q,
         \/ DeleteGet(t)
         \/ ReceiveGet(t)
  PROVE  LocalsInv' /\ SharingInv' /\ Counted
  <2> USE <1>GetBuffers
  <2> PipeTypes /\ BufferTypes /\ BufLocal /\ SharingInv /\ Readers
    BY Zenon DEF BufferInv, PipeInv, LocalsInv
  <2>1. /\ Queue' = [Queue EXCEPT ![q] = Tail(@)] /\ tBuf' = [tBuf EXCEPT ![t] = Head(Queue[q])]
        /\ UNCHANGED <<PipeId, LastBuffer, LastPipeId, QLive, UseCount, Tracked, BufApp, BufMsgId,
                       BufSeq, tPipe, tQueue, zcHandle, tApp>>
    BY Zenon DEF DeleteGet, ReceiveGet, pipeVars, bufVars
  <2>2. \/ pc[t] = "delete_get" /\ pc' = [pc EXCEPT ![t] = "delete_unref"]
        \/ pc[t] = "receive_get" /\ pc' = [pc EXCEPT ![t] = "receive_store"]
    BY Zenon DEF DeleteGet, ReceiveGet, Goto
  <2>3. /\ Head(Queue[q]) \in Buf /\ Queue' \in [PID -> Seq(Buf)]
        /\ QueuedOnce' /\ q \in QueuesOf(Head(Queue[q]))
        /\ \A b : b = Head(Queue[q]) => QueuesOf(b)' = QueuesOf(b) \ {q}
        /\ \A b : b # Head(Queue[q]) => QueuesOf(b)' = QueuesOf(b)
        /\ \A r \in PID : Queue[r] = <<>> => Queue'[r] = <<>>
    BY Zenon, <2>1, <1>QueueGet DEF BufferTypes, SharingInv
  <2>4. PICK b \in Buf : b = Head(Queue[q])
    BY Zenon, <2>3
  <2>5. /\ tBuf[t] = NULL /\ tBuf'[t] = b
        /\ pc'[t] \in {"delete_unref", "receive_store"}
        /\ pc'[t] \in InReceive <=> pc[t] \in InReceive
    BY Zenon, <2>1, <2>2, <2>4 DEF BufLocal, HasBuffer, BufferTypes, PipeTypes, InReceive
  <2>6. LocalStep(t)
    <3>1. Others(t)
      BY Zenon, <2>1, <2>2 DEF Others, BufferTypes, PipeTypes
    <3>2. pc[t] # "exited" /\ tBuf' \in [Task -> Buf \cup {NULL}] /\ tBuf'[t] # NULL
      BY Zenon, <2>1, <2>2, <2>4, <2>5, NullPtr DEF BufferTypes
    <3> QED BY Zenon, <2>1, <2>5, <3>1, <3>2 DEF LocalStep, BufferTypes, HasBuffer
  <2>7. BufferTypes'
    BY Zenon, <2>1, <2>3, <2>6 DEF BufferTypes, LocalStep
  <2>8. LocalsInv'
    <3>1. ReaderOf(t)'
      <4>1. ReaderOf(t)
        BY Zenon DEF Readers
      <4>2. \A u \in Task : (pc'[u] \in InReceive <=> pc[u] \in InReceive)
                            /\ (pc'[u] \in Creating => pc[u] \in Creating)
        BY Zenon, <2>5, <2>6 DEF LocalStep, Others, Creating
      <4> QED BY Zenon, <2>1, <4>1, <4>2 DEF ReaderOf, PipeDescIsMatch
    <3> QED BY Zenon, <2>1, <2>3, <2>5, <2>6, <2>7, <3>1, <1>LocalsStep
               DEF Creating, PipeDescIsMatch
  <2>9. ASSUME NEW c \in Buf
        PROVE  ReadersOf(c)' = ReadersOf(c) /\ OwnersOf(c)' = OwnersOf(c)
    BY Zenon, <2>1 DEF ReadersOf, OwnersOf
  <2>10. ASSUME NEW c \in Buf \ {b}
         PROVE  References(c)' = References(c)
    <3>1. tBuf'[t] # c /\ tBuf[t] # c /\ Others(t)
      BY Zenon, <2>5, <2>6, NullPtr DEF LocalStep
    <3>2. WorkersOf(c)' = WorkersOf(c) /\ QueuesOf(c)' = QueuesOf(c)
      BY Zenon, <2>3, <2>4, <3>1, <1>WorkersStep
    <3> QED BY Zenon, <2>9, <3>2, <1>SameRefs
  <2>11. <<"queue", q>> \in References(b)
    BY Zenon, <2>3, <2>4, RefKinds
  <2>12. t \notin WorkersOf(b) /\ q \in QueuesOf(b)
    BY Zenon, <2>3, <2>4, <2>5, NullPtr DEF WorkersOf
  <2>13. Passed(b)
    <3>1. Others(t) /\ pc'[t] # "send_events" /\ UseCount'[b] = UseCount[b]
      BY Zenon, <2>1, <2>5, <2>6 DEF LocalStep
    <3>2. WorkersOf(b)' = WorkersOf(b) \cup {t}
      BY Zenon, <2>5, <3>1, <1>WorkersStep
    <3>3. /\ QueuesOf(b)' = QueuesOf(b) \ {q}
          /\ ReadersOf(b)' = ReadersOf(b) /\ OwnersOf(b)' = OwnersOf(b)
      BY Zenon, <2>3, <2>4, <2>9
    <3> QED BY Zenon, <2>12, <3>1, <3>2, <3>3, <1>FromQueue
  <2>14. Counted /\ \A c \in Buf \ {b} : Kept(c)
    BY Zenon, <2>1, <2>10, <2>13, <1>PassStep
  <2>15. \A u \in Task : <<"queue", q>> # <<"owner", u>> /\ <<"queue", q>> # <<"worker", u>>
    BY RefTags
  <2>16. /\ Tracked'[b] \in {Tracked[b], "none"}
         /\ pc[t] # "broadcast" /\ pc'[t] # "broadcast"
    BY Zenon, <2>1, <2>2, <2>5
  <2>17. SharingInv'
    BY Zenon, <2>1, <2>3, <2>6, <2>11, <2>14, <2>15, <2>16, <1>SharingOne
  <2> QED BY Zenon, <2>8, <2>14, <2>17

\* OS_QueueGet in the drain loop, which ends when the queue is empty.
<1>DeleteGetBuffers.
  ASSUME BufferInv, NEW t \in Task, DeleteGet(t)
  PROVE  LocalsInv' /\ SharingInv' /\ Counted
  <2> USE <1>DeleteGetBuffers
  <2> PipeTypes /\ BufferTypes /\ BufLocal
    BY Zenon DEF BufferInv, PipeInv, LocalsInv
  <2>1. PICK q \in PID : tQueue[t] = q
    BY Zenon DEF DeleteGet, BufferInv, PipeInv, Reserved, ReservedBy, PipeWork, Draining
  <2>2. CASE Queue[q] # <<>>
    BY Zenon, <2>1, <2>2, <1>GetBuffers
  <2>3. CASE Queue[q] = <<>>
    <3>1. /\ pc[t] = "delete_get" /\ pc' = [pc EXCEPT ![t] = "delete_queue"]
          /\ UNCHANGED <<PipeId, LastBuffer, LastPipeId, QLive, Queue, UseCount, Tracked, BufApp,
                         BufMsgId, BufSeq, tPipe, tQueue, tBuf, zcHandle, tApp>>
      BY Zenon, <2>1, <2>3 DEF DeleteGet, Goto, pipeVars, bufVars
    <3>2. pc'[t] = "delete_queue" /\ \A u \in Task \ {t} : pc'[u] = pc[u]
      BY Zenon, <3>1 DEF PipeTypes
    <3>3. LocalStep(t)
      BY Zenon, <3>1, <3>2 DEF LocalStep, Others, BufferTypes, BufLocal, HasBuffer
    <3>4. BufferTypes'
      BY Zenon, <3>1 DEF BufferTypes
    <3>5. LocalsInv'
      BY Zenon, <2>1, <2>3, <3>1, <3>2, <3>3, <3>4, <1>LocalsStep
         DEF Creating, ReaderOf, InReceive, PipeDescIsMatch
    <3>6. pc[t] \notin HasBuffer /\ pc'[t] \notin HasBuffer
      BY Zenon, <3>1, <3>2 DEF HasBuffer
    <3> QED BY Zenon, <3>1, <3>3, <3>5, <3>6, <1>RefsKept
  <2> QED BY Zenon, <2>2, <2>3

\* OS_QueueGet in CFE_SB_ReceiveBuffer.
<1>ReceiveGetBuffers.
  ASSUME BufferInv, NEW t \in Task, ReceiveGet(t)
  PROVE  LocalsInv' /\ SharingInv' /\ Counted
  <2> USE <1>ReceiveGetBuffers
  <2>1. tQueue[t] \in PID /\ Queue[tQueue[t]] # <<>>
    BY Zenon DEF ReceiveGet, BufferInv, PipeInv, PipeTypes
  <2> QED BY Zenon, <2>1, <1>GetBuffers

\* GetBufferFromPool hands out block b, to which t gets the only reference.
<1>TakeStep.
  ASSUME CountsAgree, BufferTypes, NEW b \in Buf, NEW m, NEW a \in App \cup {NoApp},
         NEW l \in {"none", "zerocopy", "transit"}, NEW r,
         GetBufferFromPool(b, m, a, l), References(b)' = {r},
         \A c \in Buf \ {b} : References(c)' = References(c)
  PROVE  Counted /\ Handed(b, a, l)
  <2> USE <1>TakeStep
  <2>1. UseCount[b] = 0 /\ References(b) = {}
    BY Zenon DEF CountsAgree, GetBufferFromPool, FreeBufs
  <2>2. /\ UseCount' = [UseCount EXCEPT ![b] = 1]
        /\ Tracked' = [Tracked EXCEPT ![b] = l] /\ BufApp' = [BufApp EXCEPT ![b] = a]
    BY Zenon DEF GetBufferFromPool
  <2>3. UseCount' \in [Buf -> Nat]
    BY <2>2 DEF BufferTypes
  <2>4. BufMsgId' = [c \in Buf |-> BufMsgId'[c]] /\ BufSeq' = [c \in Buf |-> BufSeq'[c]]
    BY Zenon DEF GetBufferFromPool, BufferTypes
  <2>5. Taken(b)
    BY Zenon, <2>1, <2>2 DEF Taken, BufferTypes
  <2>6. \A c \in Buf \ {b} : Kept(c)
    BY Zenon, <2>2 DEF Kept, BufferTypes
  <2>7. Handed(b, a, l)
    BY Zenon, <2>2, <2>3, <2>4, <2>6 DEF Handed, BufferTypes
  <2> QED BY Zenon, <2>5, <2>6, <2>7 DEF Counted

\* CFE_SB_TransmitMsg gets a buffer.
<1>SendAllocBuffers.
  ASSUME BufferInv, CountsAgree, NEW t \in Task, SendAlloc(t), tBuf' # tBuf
  PROVE  LocalsInv' /\ SharingInv' /\ Counted
  <2> USE <1>SendAllocBuffers
  <2> PipeTypes /\ BufferTypes /\ BufLocal /\ SharingInv
    BY Zenon DEF BufferInv, PipeInv, LocalsInv
  <2>1. PICK b \in Buf : /\ GetBufferFromPool(b, tMsg[t], NoApp, "none")
                         /\ tBuf' = [tBuf EXCEPT ![t] = b] /\ pc' = [pc EXCEPT ![t] = "broadcast"]
    BY Zenon DEF SendAlloc, Goto
  <2>2. /\ pc[t] = "send_alloc"
        /\ UNCHANGED <<PipeId, LastBuffer, LastPipeId, QLive, Queue, tPipe, tQueue, zcHandle, tApp>>
    BY Zenon DEF SendAlloc, pipeVars, osVars
  <2>3. /\ pc'[t] = "broadcast" /\ \A u \in Task \ {t} : pc'[u] = pc[u]
        /\ tBuf[t] = NULL /\ tBuf'[t] = b
    BY Zenon, <2>1, <2>2 DEF PipeTypes, BufferTypes, BufLocal, HasBuffer
  <2>4. LocalStep(t)
    BY Zenon, <2>1, <2>2, <2>3, NullPtr DEF LocalStep, Others, BufferTypes, HasBuffer
  <2>5. ASSUME NEW c
        PROVE  /\ QueuesOf(c)' = QueuesOf(c) /\ ReadersOf(c)' = ReadersOf(c)
               /\ OwnersOf(c)' = OwnersOf(c)
    BY Zenon, <2>2 DEF QueuesOf, ReadersOf, OwnersOf
  <2>6. References(b) = {}
    BY Zenon, <2>1 DEF CountsAgree, GetBufferFromPool, FreeBufs
  <2>7. References(b)' = {<<"worker", t>>}
    <3>1. WorkersOf(b)' = WorkersOf(b) \cup {t}
      BY Zenon, <2>3, <2>4, <1>WorkersStep DEF LocalStep
    <3> QED BY <2>5, <2>6, <3>1, <1>FirstSender
  <2>8. ASSUME NEW c \in Buf \ {b}
        PROVE  References(c)' = References(c)
    <3>1. tBuf'[t] # c /\ tBuf[t] # c /\ Others(t)
      BY Zenon, <2>3, <2>4, NullPtr DEF LocalStep
    <3>2. WorkersOf(c)' = WorkersOf(c)
      BY Zenon, <3>1, <1>WorkersStep
    <3> QED BY Zenon, <2>5, <3>2, <1>SameRefs
  <2>9. Counted /\ Handed(b, NoApp, "none")
    BY Zenon, <2>1, <2>7, <2>8, <1>TakeStep
  <2>10. BufferTypes'
    BY Zenon, <2>2, <2>4, <2>9 DEF BufferTypes, LocalStep, Handed
  <2>11. LocalsInv'
    BY Zenon, <2>2, <2>3, <2>4, <2>10, <1>LocalsStep
       DEF Creating, ReaderOf, InReceive, PipeDescIsMatch
  <2>12. SharingInv'
    <3>1. Mine(t, b) /\ Listed(b)'
      BY Zenon, <2>6, <2>9 DEF Mine, Listed, Handed
    <3>2. SoleSender(t)'
      BY Zenon, <2>3, <2>7 DEF SoleSender
    <3>3. SoleOwner(t)'
      <4>1. SoleOwner(t)
        BY Zenon DEF SharingInv
      <4>2. zcHandle[t] # NULL => zcHandle[t] \in Buf \ {b}
        BY Zenon, <2>6, <4>1 DEF BufferTypes, SoleOwner
      <4> QED BY Zenon, <2>2, <2>9, <4>1, <4>2 DEF SoleOwner, Kept, Handed
    <3>4. QueuedOnce' /\ pc[t] # "broadcast"
      BY Zenon, <2>2 DEF SharingInv, QueuedOnce
    <3> QED BY Zenon, <2>2, <2>4, <2>9, <3>1, <3>2, <3>3, <3>4, <1>SharingStep DEF Handed
  <2> QED BY Zenon, <2>9, <2>11, <2>12

\* CFE_SB_ZeroCopyGetPtr
<1>ZeroCopyGetBuffers.
  ASSUME BufferInv, CountsAgree, NEW t \in Task, ZeroCopyGetPtr(t)
  PROVE  LocalsInv' /\ SharingInv' /\ Counted
  <2> USE <1>ZeroCopyGetBuffers
  <2> PipeTypes /\ BufferTypes /\ BufLocal /\ SharingInv
    BY Zenon DEF BufferInv, PipeInv, LocalsInv
  <2>1. PICK b \in Buf : /\ GetBufferFromPool(b, NULL, AppOf[t], "zerocopy")
                         /\ zcHandle' = [zcHandle EXCEPT ![t] = b]
    BY Zenon DEF ZeroCopyGetPtr
  <2>2. /\ pc[t] = "idle" /\ zcHandle[t] = NULL
        /\ UNCHANGED <<PipeId, LastBuffer, LastPipeId, QLive, Queue, pc, tPipe, tQueue, tBuf, tApp>>
    BY Zenon DEF ZeroCopyGetPtr, MayCall, pipeVars, osVars
  <2>3. zcHandle'[t] = b /\ \A u \in Task \ {t} : zcHandle'[u] = zcHandle[u]
    BY Zenon, <2>1 DEF BufferTypes
  <2>4. LocalStep(t)
    BY Zenon, <2>2 DEF LocalStep, Others, BufferTypes, BufLocal
  <2>5. ASSUME NEW c
        PROVE  /\ QueuesOf(c)' = QueuesOf(c) /\ ReadersOf(c)' = ReadersOf(c)
               /\ WorkersOf(c)' = WorkersOf(c)
    BY Zenon, <2>2 DEF QueuesOf, ReadersOf, WorkersOf
  <2>6. References(b) = {}
    BY Zenon, <2>1 DEF CountsAgree, GetBufferFromPool, FreeBufs
  <2>7. References(b)' = {<<"owner", t>>}
    <3>1. OwnersOf(b)' = OwnersOf(b) \cup {t}
      BY <2>3 DEF OwnersOf
    <3> QED BY <2>5, <2>6, <3>1, <1>FirstOwner
  <2>8. ASSUME NEW c \in Buf \ {b}
        PROVE  References(c)' = References(c)
    <3>1. OwnersOf(c)' = OwnersOf(c)
      BY <2>2, <2>3, NullPtr DEF OwnersOf
    <3> QED BY Zenon, <2>5, <3>1, <1>SameRefs
  <2>9. Counted /\ Handed(b, AppOf[t], "zerocopy")
    <3>1. AppOf[t] \in App \cup {NoApp}
      BY Zenon, SBAssumption
    <3> QED BY Zenon, <2>1, <2>7, <2>8, <3>1, <1>TakeStep
  <2>10. BufferTypes'
    BY Zenon, <2>1, <2>2, <2>9 DEF BufferTypes, Handed
  <2>11. LocalsInv'
    BY Zenon, <2>2, <2>4, <2>10, <1>LocalsStep
       DEF Creating, ReaderOf, InReceive, PipeDescIsMatch
  <2>12. SharingInv'
    <3>1. Mine(t, b) /\ Listed(b)'
      BY Zenon, <2>3, <2>6 DEF Mine, Listed
    <3>2. SoleSender(t)'
      BY Zenon, <2>2 DEF SoleSender
    <3>3. SoleOwner(t)'
      BY Zenon, <2>3, <2>7, <2>9 DEF SoleOwner, Handed
    <3>4. QueuedOnce' /\ pc[t] # "broadcast"
      BY Zenon, <2>2 DEF SharingInv, QueuedOnce
    <3> QED BY Zenon, <2>3, <2>4, <2>9, <3>1, <3>2, <3>3, <3>4, <1>SharingStep DEF Handed
  <2> QED BY Zenon, <2>9, <2>11, <2>12

\* CFE_SB_ZeroCopyReleasePtr
<1>ZeroCopyReleaseBuffers.
  ASSUME BufferInv, CountsAgree, NEW t \in Task, ZeroCopyReleasePtr(t)
  PROVE  LocalsInv' /\ SharingInv' /\ Counted
  <2> USE <1>ZeroCopyReleaseBuffers
  <2> PipeTypes /\ BufferTypes /\ BufLocal /\ SharingInv
    BY Zenon DEF BufferInv, PipeInv, LocalsInv
  <2>1. PICK b \in Buf : zcHandle[t] = b
    BY Zenon DEF ZeroCopyReleasePtr, HandleValidate, BufferTypes
  <2>2. /\ pc[t] = "idle" /\ DecrBufUseCnt({b}) /\ BufApp' = [BufApp EXCEPT ![b] = NoApp]
        /\ zcHandle' = [zcHandle EXCEPT ![t] = NULL]
        /\ UNCHANGED <<PipeId, LastBuffer, LastPipeId, QLive, Queue, pc, tPipe, tQueue, tBuf, tApp,
                       BufMsgId, BufSeq>>
    BY Zenon, <2>1 DEF ZeroCopyReleasePtr, MayCall, pipeVars, osVars
  <2>3. zcHandle'[t] = NULL /\ \A u \in Task \ {t} : zcHandle'[u] = zcHandle[u]
    BY Zenon, <2>2 DEF BufferTypes
  <2>4. LocalStep(t)
    BY Zenon, <2>2 DEF LocalStep, Others, BufferTypes, BufLocal
  <2>5. ASSUME NEW c
        PROVE  /\ QueuesOf(c)' = QueuesOf(c) /\ ReadersOf(c)' = ReadersOf(c)
               /\ WorkersOf(c)' = WorkersOf(c)
    BY Zenon, <2>2 DEF QueuesOf, ReadersOf, WorkersOf
  <2>6. References(b) = {<<"owner", t>>}
    BY Zenon, <2>1, NullPtr DEF SharingInv, SoleOwner
  <2>7. References(b)' = References(b) \ {<<"owner", t>>}
    <3>1. OwnersOf(b)' = OwnersOf(b) \ {t}
      BY SMTT(60), <2>1, <2>3, NullPtr DEF OwnersOf
    <3> QED BY Zenon, <2>5, <3>1, <1>RefsLess
  <2>8. ASSUME NEW c \in Buf \ {b}
        PROVE  References(c)' = References(c)
    <3>1. OwnersOf(c)' = OwnersOf(c)
      BY <2>1, <2>3, NullPtr DEF OwnersOf
    <3> QED BY Zenon, <2>5, <3>1, <1>SameRefs
  <2>9. /\ Counted /\ \A c \in Buf \ {b} : Kept(c)
        /\ Tracked' \in [Buf -> {"none", "zerocopy", "transit"}] /\ UseCount' \in [Buf -> Nat]
        /\ Tracked'[b] = IF UseCount[b] = 1 THEN "none" ELSE Tracked[b]
    <3>1. \A c \in Buf \ {b} : References(c)' = References(c) /\ BufApp'[c] = BufApp[c]
      BY Zenon, <2>2, <2>8 DEF BufferTypes
    <3>2. <<"owner", t>> \in References(b)
      BY Zenon, <2>6
    <3> QED BY Zenon, <2>2, <2>7, <3>1, <3>2, <1>DropStep
  <2>10. BufferTypes'
    BY Zenon, <2>2, <2>9 DEF BufferTypes
  <2>11. LocalsInv'
    BY Zenon, <2>2, <2>4, <2>10, <1>LocalsStep
       DEF Creating, ReaderOf, InReceive, PipeDescIsMatch
  <2>12. SharingInv'
    <3>1. Mine(t, b)
      BY Zenon, <2>6, RefTags DEF Mine
    <3>2. Listed(b)'
      <4>1. UseCount[b] = 1
        BY Zenon, <2>6 DEF CountsAgree
      <4> QED BY Zenon, <2>9, <4>1 DEF Listed
    <3>3. SoleSender(t)' /\ SoleOwner(t)'
      BY Zenon, <2>2, <2>3 DEF SoleSender, SoleOwner
    <3>4. QueuedOnce' /\ pc[t] # "broadcast"
      BY Zenon, <2>2 DEF SharingInv, QueuedOnce
    <3> QED BY Zenon, <2>3, <2>4, <2>9, <3>1, <3>2, <3>3, <3>4, <1>SharingStep
  <2> QED BY Zenon, <2>9, <2>11, <2>12

\* CFE_SB_TransmitBuffer: the owner becomes the sender.
<1>TransmitBufferBuffers.
  ASSUME BufferInv, NEW t \in Task, NEW m \in MsgId, TransmitBuffer(t, m)
  PROVE  LocalsInv' /\ SharingInv' /\ Counted
  <2> USE <1>TransmitBufferBuffers
  <2> PipeTypes /\ BufferTypes /\ BufLocal /\ SharingInv
    BY Zenon DEF BufferInv, PipeInv, LocalsInv
  <2>1. PICK b \in Buf : zcHandle[t] = b
    BY Zenon DEF TransmitBuffer, HandleValidate, BufferTypes
  <2>2. /\ pc[t] = "idle" /\ pc' = [pc EXCEPT ![t] = "broadcast"] /\ tBuf' = [tBuf EXCEPT ![t] = b]
        /\ zcHandle' = [zcHandle EXCEPT ![t] = NULL] /\ BufMsgId' = [BufMsgId EXCEPT ![b] = m]
        /\ UNCHANGED <<PipeId, LastBuffer, LastPipeId, QLive, Queue, UseCount, Tracked, BufApp,
                       BufSeq, tPipe, tQueue, tApp>>
    BY Zenon, <2>1 DEF TransmitBuffer, MayCall, Goto, pipeVars, osVars
  <2>3. /\ pc'[t] = "broadcast" /\ \A u \in Task \ {t} : pc'[u] = pc[u]
        /\ tBuf[t] = NULL /\ tBuf'[t] = b
        /\ zcHandle'[t] = NULL /\ \A u \in Task \ {t} : zcHandle'[u] = zcHandle[u]
    BY Zenon, <2>2 DEF PipeTypes, BufferTypes, BufLocal, HasBuffer
  <2>4. LocalStep(t)
    BY Zenon, <2>2, <2>3, NullPtr DEF LocalStep, Others, BufferTypes, HasBuffer
  <2>5. ASSUME NEW c
        PROVE  QueuesOf(c)' = QueuesOf(c) /\ ReadersOf(c)' = ReadersOf(c)
    BY Zenon, <2>2 DEF QueuesOf, ReadersOf
  <2>6. /\ References(b) = {<<"owner", t>>} /\ Tracked[b] = "zerocopy" /\ BufApp[b] = AppOf[t]
    BY Zenon, <2>1, NullPtr DEF SharingInv, SoleOwner
  <2>7. Passed(b) /\ References(b)' = {<<"worker", t>>}
    <3>1. Others(t) /\ pc'[t] # "send_events" /\ UseCount'[b] = UseCount[b]
      BY Zenon, <2>2, <2>3, <2>4 DEF LocalStep
    <3>2. WorkersOf(b)' = WorkersOf(b) \cup {t}
      BY Zenon, <2>3, <3>1, <1>WorkersStep
    <3>3. OwnersOf(b)' = OwnersOf(b) \ {t}
      BY <2>1, <2>3, NullPtr DEF OwnersOf
    <3> QED BY <2>5, <2>6, <3>1, <3>2, <3>3, <1>FromOwner
  <2>8. ASSUME NEW c \in Buf \ {b}
        PROVE  References(c)' = References(c)
    <3>1. tBuf'[t] # c /\ tBuf[t] # c /\ Others(t)
      BY Zenon, <2>3, <2>4, NullPtr DEF LocalStep
    <3>2. WorkersOf(c)' = WorkersOf(c)
      BY Zenon, <3>1, <1>WorkersStep
    <3>3. OwnersOf(c)' = OwnersOf(c)
      BY <2>1, <2>3, NullPtr DEF OwnersOf
    <3> QED BY Zenon, <2>5, <3>2, <3>3, <1>SameRefs
  <2>9. Counted /\ \A c \in Buf \ {b} : Kept(c)
    BY Zenon, <2>2, <2>7, <2>8, <1>PassStep
  <2>10. BufferTypes'
    BY Zenon, <2>2, <2>4 DEF BufferTypes, LocalStep
  <2>11. LocalsInv'
    BY Zenon, <2>2, <2>3, <2>4, <2>10, <1>LocalsStep
       DEF Creating, ReaderOf, InReceive, PipeDescIsMatch
  <2>12. SharingInv'
    <3>1. Mine(t, b)
      BY Zenon, <2>6, RefTags DEF Mine
    <3>2. Listed(b)'
      BY Zenon, <2>2, <2>3, <2>6 DEF Listed
    <3>3. SoleSender(t)' /\ SoleOwner(t)'
      BY Zenon, <2>3, <2>7 DEF SoleSender, SoleOwner
    <3>4. QueuedOnce' /\ pc[t] # "broadcast"
      BY Zenon, <2>2 DEF SharingInv, QueuedOnce
    <3> QED BY Zenon, <2>3, <2>4, <2>9, <3>1, <3>2, <3>3, <3>4, <1>SharingStep
  <2> QED BY Zenon, <2>9, <2>11, <2>12

\* CFE_SB_ReceiveBuffer gives back the buffer of the previous call.
<1>ReceiveBufferBuffers.
  ASSUME BufferInv, CountsAgree, NEW t \in Task, NEW p \in PID, ReceiveBuffer(t, p)
  PROVE  LocalsInv' /\ SharingInv' /\ Counted
  <2> USE <1>ReceiveBufferBuffers
  <2> PipeTypes /\ BufferTypes /\ BufLocal /\ SharingInv /\ Readers
    BY Zenon DEF BufferInv, PipeInv, LocalsInv
  <2>1. PICK s \in Slot : s = SlotOf(p) /\ PipeId[s] = p
    BY Zenon, SlotOfInTable DEF ReceiveBuffer, PipeDescIsMatch
  <2>2. /\ pc[t] = "idle" /\ pc' = [pc EXCEPT ![t] = "receive_get"]
        /\ DecrBufUseCnt({LastBuffer[s]} \ {NULL}) /\ LastBuffer' = [LastBuffer EXCEPT ![s] = NULL]
        /\ tPipe' = [tPipe EXCEPT ![t] = p] /\ tQueue' = [tQueue EXCEPT ![t] = SysQueueId[s]]
        /\ UNCHANGED <<PipeId, LastPipeId, QLive, Queue, BufApp, BufMsgId, BufSeq, tBuf, zcHandle,
                       tApp>>
    BY Zenon, <2>1 DEF ReceiveBuffer, MayCall, Goto, osVars
  <2>3. /\ pc'[t] = "receive_get" /\ tPipe'[t] = p /\ tQueue'[t] = p
        /\ \A u \in Task \ {t} : pc'[u] = pc[u] /\ tPipe'[u] = tPipe[u] /\ tQueue'[u] = tQueue[u]
        /\ p <= LastPipeId
    BY Zenon, <2>1, <2>2 DEF PipeTypes, BufferInv, PipeInv, SlotsOK
  <2>4. LocalStep(t)
    BY Zenon, <2>2, <2>3 DEF LocalStep, Others, BufferTypes, BufLocal, HasBuffer
  <2>5. ReaderOf(t)'
    <3>1. \A u \in Task : pc[u] \in InReceive => tPipe[u] # p
      BY Zenon DEF ReceiveBuffer, Receiving, InReceive
    <3>2. \A u \in Task : pc[u] \in Creating => tPipe[u] # p
      BY Zenon, <2>1, PseudoIds DEF BufferInv, PipeInv, Reserved, ReservedBy, PipeWork
    <3>3. LastBuffer'[SlotOf(p)] = NULL
      BY Zenon, <2>1, <2>2 DEF BufferTypes
    <3>4. pc'[t] \notin Creating
      BY Zenon, <2>3 DEF Creating
    <3> QED BY ZenonT(60), <2>2, <2>3, <3>1, <3>2, <3>3, <3>4 DEF ReaderOf
  <2>6. BufferTypes' => LocalsInv'
    <3> SUFFICES ASSUME BufferTypes'
                 PROVE  LocalsInv'
      OBVIOUS
    <3>1. pc'[t] \notin Creating /\ pc'[t] # "delete_queue"
      BY Zenon, <2>3 DEF Creating
    <3>2. \A r \in Slot : LastBuffer'[r] \in {LastBuffer[r], NULL}
      BY Zenon, <2>2 DEF BufferTypes
    <3> QED BY Zenon, <2>2, <2>4, <2>5, <3>1, <3>2, SlotOfInTable, <1>LocalsStep
               DEF PipeDescIsMatch
  <2>7. ASSUME NEW c
        PROVE  /\ QueuesOf(c)' = QueuesOf(c) /\ OwnersOf(c)' = OwnersOf(c)
               /\ WorkersOf(c)' = WorkersOf(c)
    <3>1. \A u \in Task : tBuf'[u] = c /\ pc'[u] # "send_events" <=>
                          tBuf[u] = c /\ pc[u] # "send_events"
      BY Zenon, <2>2, <2>3
    <3>2. WorkersOf(c)' = WorkersOf(c)
      BY Zenon, <3>1 DEF WorkersOf
    <3> QED BY Zenon, <2>2, <3>2 DEF QueuesOf, OwnersOf
  <2>8. ASSUME NEW c \in Buf
        PROVE  /\ LastBuffer[s] # c => ReadersOf(c)' = ReadersOf(c)
               /\ LastBuffer[s] = c => ReadersOf(c)' = ReadersOf(c) \ {s}
    BY <2>2, NullPtr DEF ReadersOf, BufferTypes
  <2>9. ASSUME NEW c \in Buf, LastBuffer[s] # c
        PROVE  References(c)' = References(c)
    BY Zenon, <2>7, <2>8, <2>9, <1>SameRefs
  <2>10. QueuedOnce' /\ pc[t] # "broadcast" /\ pc'[t] # "broadcast"
    BY Zenon, <2>2, <2>3 DEF QueuedOnce, SharingInv
  <2>11. CASE LastBuffer[s] = NULL
    <3>1. DecrBufUseCnt({})
      <4>1. {LastBuffer[s]} \ {NULL} = {}
        BY Zenon, <2>11
      <4> QED BY Zenon, <2>2, <4>1
    <3>2. UseCount' = UseCount /\ Tracked' = Tracked
      BY Zenon, <3>1 DEF DecrBufUseCnt, BufferTypes
    <3>3. BufferTypes'
      BY Zenon, <2>2, <3>2 DEF BufferTypes
    <3>4. \A c \in Buf : References(c)' = References(c)
      BY Zenon, <2>9, <2>11, NullPtr
    <3>5. SharingInv' /\ Counted
      BY Zenon, <2>2, <2>4, <2>10, <3>2, <3>4, <1>SharingKept
    <3> QED BY Zenon, <2>6, <3>3, <3>5
  <2>12. ASSUME NEW b \in Buf, LastBuffer[s] = b
         PROVE  LocalsInv' /\ SharingInv' /\ Counted
    <3>1. DecrBufUseCnt({b})
      <4>1. {LastBuffer[s]} \ {NULL} = {b}
        BY Zenon, <2>12, NullPtr
      <4> QED BY Zenon, <2>2, <4>1
    <3>2. s \in ReadersOf(b)
      BY Zenon, <2>1, <2>12 DEF ReadersOf
    <3>3. <<"reader", s>> \in References(b)
      BY Zenon, <3>2, RefKinds
    <3>4. References(b)' = References(b) \ {<<"reader", s>>}
      <4>1. ReadersOf(b)' = ReadersOf(b) \ {s}
        BY Zenon, <2>8, <2>12
      <4> QED BY Zenon, <2>7, <4>1, <1>RefsLess
    <3>5. \A c \in Buf \ {b} : References(c)' = References(c) /\ BufApp'[c] = BufApp[c]
      BY Zenon, <2>2, <2>9, <2>12
    <3>6. /\ Counted /\ \A c \in Buf \ {b} : Kept(c)
          /\ Tracked' \in [Buf -> {"none", "zerocopy", "transit"}] /\ UseCount' \in [Buf -> Nat]
          /\ Tracked'[b] = IF UseCount[b] = 1 THEN "none" ELSE Tracked[b]
      BY Zenon, <3>1, <3>3, <3>4, <3>5, <1>DropStep
    <3>7. BufferTypes'
      BY Zenon, <2>2, <3>6 DEF BufferTypes
    <3>8. \A u \in Task : <<"reader", s>> # <<"owner", u>> /\ <<"reader", s>> # <<"worker", u>>
      BY RefTags
    <3>9. Tracked'[b] \in {Tracked[b], "none"}
      BY Zenon, <3>6
    <3>10. SharingInv'
      BY Zenon, <2>2, <2>4, <2>10, <3>3, <3>6, <3>8, <3>9, <1>SharingOne
    <3> QED BY Zenon, <2>6, <3>6, <3>7, <3>10
  <2>13. LastBuffer[s] \in Buf \cup {NULL}
    BY Zenon DEF BufferTypes
  <2> QED BY Zenon, <2>11, <2>12, <2>13

\* The second locked section of CFE_SB_ReceiveBuffer: the reader keeps the
\* buffer, or gives it up because the pipe has gone.
<1>ReceiveStoreBuffers.
  ASSUME BufferInv, CountsAgree, NEW t \in Task, ReceiveStore(t)
  PROVE  LocalsInv' /\ SharingInv' /\ Counted
  <2> USE <1>ReceiveStoreBuffers
  <2> PipeTypes /\ BufferTypes /\ BufLocal /\ SharingInv /\ Readers
    BY Zenon DEF BufferInv, PipeInv, LocalsInv
  <2>1. /\ pc[t] = "receive_store" /\ pc' = [pc EXCEPT ![t] = "idle"]
        /\ tPipe' = [tPipe EXCEPT ![t] = FREE] /\ tQueue' = [tQueue EXCEPT ![t] = FREE]
        /\ tBuf' = [tBuf EXCEPT ![t] = NULL]
        /\ UNCHANGED <<PipeId, LastPipeId, QLive, Queue, BufApp, BufMsgId, BufSeq, zcHandle, tApp>>
    BY Zenon DEF ReceiveStore, Return, Goto, osVars
  <2>2. PICK b \in Buf : tBuf[t] = b
    BY Zenon, <2>1 DEF BufLocal, BufferTypes, HasBuffer
  <2>3. PICK p \in PID : /\ tPipe[t] = p
                         /\ PipeDescIsMatch(p) => LastBuffer[SlotOf(p)] = NULL
    BY Zenon, <2>1 DEF Readers, ReaderOf, InReceive
  <2>4. PICK s \in Slot : s = SlotOf(p)
    BY Zenon, SlotOfInTable
  <2>5. /\ pc'[t] = "idle" /\ tBuf'[t] = NULL
        /\ \A u \in Task \ {t} : /\ pc'[u] = pc[u] /\ tPipe'[u] = tPipe[u] /\ tQueue'[u] = tQueue[u]
                                 /\ tBuf'[u] = tBuf[u]
    BY Zenon, <2>1 DEF PipeTypes, BufferTypes
  <2>6. LocalStep(t)
    BY Zenon, <2>1, <2>5 DEF LocalStep, Others, BufferTypes, HasBuffer
  <2>7. ASSUME NEW c
        PROVE  QueuesOf(c)' = QueuesOf(c) /\ OwnersOf(c)' = OwnersOf(c)
    BY Zenon, <2>1 DEF QueuesOf, OwnersOf
  <2>8. t \in WorkersOf(b) /\ WorkersOf(b)' = WorkersOf(b) \ {t}
    <3>1. tBuf'[t] # b
      BY Zenon, <2>5, NullPtr
    <3>2. Others(t) /\ t \in WorkersOf(b)
      BY Zenon, <2>1, <2>2, <2>6 DEF WorkersOf, LocalStep
    <3> QED BY Zenon, <3>1, <3>2, <1>WorkersStep
  <2>9. ASSUME NEW c \in Buf \ {b}
        PROVE  WorkersOf(c)' = WorkersOf(c)
    <3>1. tBuf'[t] # c /\ tBuf[t] # c /\ Others(t)
      BY Zenon, <2>2, <2>5, <2>6, NullPtr DEF LocalStep
    <3> QED BY Zenon, <3>1, <1>WorkersStep
  <2>10. /\ QueuedOnce' /\ pc[t] # "broadcast" /\ pc'[t] # "broadcast"
         /\ <<"worker", t>> \in References(b)
    BY Zenon, <2>1, <2>5, <2>8, RefKinds DEF QueuedOnce, SharingInv
  <2>11. \A u \in Task : /\ <<"worker", t>> # <<"owner", u>>
                         /\ <<"worker", t>> = <<"worker", u>> => u = t
    BY RefTags
  <2>12. CASE PipeDescIsMatch(p)
    <3>1. /\ LastBuffer' = [LastBuffer EXCEPT ![s] = b] /\ UNCHANGED <<UseCount, Tracked>>
          /\ PipeId[s] = p /\ LastBuffer[s] = NULL
      BY Zenon, <2>2, <2>3, <2>4, <2>12 DEF ReceiveStore, SamePipe, PipeDescIsMatch
    <3>2. LastBuffer'[s] = b /\ \A r \in Slot \ {s} : LastBuffer'[r] = LastBuffer[r]
      BY Zenon, <3>1 DEF BufferTypes
    <3>3. s \notin ReadersOf(b) /\ ReadersOf(b)' = ReadersOf(b) \cup {s}
      BY <2>1, <3>1, <3>2, NullPtr DEF ReadersOf
    <3>4. ASSUME NEW c \in Buf \ {b}
          PROVE  ReadersOf(c)' = ReadersOf(c)
      BY <2>1, <3>1, <3>2, NullPtr DEF ReadersOf
    <3>5. Passed(b)
      <4>1. UseCount'[b] = UseCount[b]
        BY Zenon, <3>1
      <4> QED BY Zenon, <2>7, <2>8, <3>3, <4>1, <1>ToReader
    <3>6. \A c \in Buf \ {b} : References(c)' = References(c)
      BY Zenon, <2>7, <2>9, <3>4, <1>SameRefs
    <3>7. Counted /\ \A c \in Buf \ {b} : Kept(c)
      BY Zenon, <2>1, <3>1, <3>5, <3>6, <1>PassStep
    <3>8. Tracked'[b] \in {Tracked[b], "none"}
      BY Zenon, <3>1
    <3>9. SharingInv'
      BY Zenon, <2>1, <2>6, <2>10, <2>11, <3>7, <3>8, <1>SharingOne
    <3>10. BufferTypes'
      BY Zenon, <2>1, <2>6, <3>1 DEF BufferTypes, LocalStep
    <3>11. LocalsInv'
      <4>1. \A r \in Slot : LastBuffer'[r] \in {LastBuffer[r], NULL} \/ PipeId[r] \in PID
        BY Zenon, <3>1, <3>2
      <4>2. ASSUME NEW q \in PID, PipeDescIsMatch(q)'
            PROVE  /\ PipeDescIsMatch(q)
                   /\ \/ LastBuffer'[SlotOf(q)] \in {LastBuffer[SlotOf(q)], NULL}
                      \/ pc[t] \in InReceive /\ tPipe[t] = q
        <5>1. PipeDescIsMatch(q)
          BY Zenon, <2>1, <4>2 DEF PipeDescIsMatch
        <5>2. CASE SlotOf(q) = s
          BY Zenon, <2>1, <2>3, <3>1, <5>1, <5>2 DEF PipeDescIsMatch, InReceive
        <5>3. CASE SlotOf(q) # s
          BY Zenon, <3>2, <5>1, <5>3, SlotOfInTable
        <5> QED BY Zenon, <5>2, <5>3
      <4> QED BY Zenon, <2>1, <2>5, <2>6, <3>10, <4>1, <4>2, <1>LocalsStep
                 DEF Creating, ReaderOf, InReceive
    <3> QED BY Zenon, <3>7, <3>9, <3>11
  <2>13. CASE ~ PipeDescIsMatch(p)
    <3>1. DecrBufUseCnt({b}) /\ LastBuffer' = LastBuffer
      BY Zenon, <2>2, <2>3, <2>13 DEF ReceiveStore, SamePipe
    <3>2. ASSUME NEW c
          PROVE  ReadersOf(c)' = ReadersOf(c)
      BY Zenon, <2>1, <3>1 DEF ReadersOf
    <3>3. References(b)' = References(b) \ {<<"worker", t>>}
      BY Zenon, <2>7, <2>8, <3>2, <1>RefsLess
    <3>4. \A c \in Buf \ {b} : References(c)' = References(c) /\ BufApp'[c] = BufApp[c]
      BY Zenon, <2>1, <2>7, <2>9, <3>2, <1>SameRefs
    <3>5. /\ Counted /\ \A c \in Buf \ {b} : Kept(c)
          /\ Tracked' \in [Buf -> {"none", "zerocopy", "transit"}] /\ UseCount' \in [Buf -> Nat]
          /\ Tracked'[b] = IF UseCount[b] = 1 THEN "none" ELSE Tracked[b]
      BY Zenon, <2>10, <3>1, <3>3, <3>4, <1>DropStep
    <3>6. Tracked'[b] \in {Tracked[b], "none"}
      BY Zenon, <3>5
    <3>7. SharingInv'
      BY Zenon, <2>1, <2>6, <2>10, <2>11, <3>5, <3>6, <1>SharingOne
    <3>8. BufferTypes'
      BY Zenon, <2>1, <2>6, <3>1, <3>5 DEF BufferTypes, LocalStep
    <3>9. LocalsInv'
      BY Zenon, <2>1, <2>5, <2>6, <3>1, <3>8, <1>LocalsStep
         DEF Creating, ReaderOf, InReceive, PipeDescIsMatch
    <3> QED BY Zenon, <3>5, <3>7, <3>9
  <2> QED BY Zenon, <2>12, <2>13

\* OS_QueuePut of a buffer on the queues Q, none of which has it.
<1>QueuePut.
  ASSUME Queue \in [PID -> Seq(Buf)], QueuedOnce, NEW b \in Buf, QueuesOf(b) = {},
         NEW Q \in SUBSET PID,
         Queue' = [q \in PID |-> IF q \in Q THEN Append(Queue[q], b) ELSE Queue[q]]
  PROVE  /\ Queue' \in [PID -> Seq(Buf)]
         /\ QueuedOnce'
         /\ QueuesOf(b)' = Q
         /\ \A c : c # b => QueuesOf(c)' = QueuesOf(c)
  <2> USE <1>QueuePut
  <2>1. ASSUME NEW q \in Q
        PROVE  /\ Queue[q] \in Seq(Buf) /\ Queue'[q] = Append(Queue[q], b)
               /\ Append(Queue[q], b) \in Seq(Buf) /\ Len(Queue[q]) \in Nat
               /\ Len(Append(Queue[q], b)) = Len(Queue[q]) + 1
               /\ Append(Queue[q], b)[Len(Queue[q]) + 1] = b
               /\ \A i \in 1..Len(Queue[q]) : Append(Queue[q], b)[i] = Queue[q][i]
    <3>1. q \in PID /\ Queue[q] \in Seq(Buf) /\ Queue'[q] = Append(Queue[q], b)
      BY Zenon, <2>1
    <3> QED BY <3>1
  <2>2. \A q \in PID \ Q : Queue'[q] = Queue[q]
    BY Zenon
  <2>3. \A q \in PID : Queue'[q] \in Seq(Buf)
    BY Zenon, <2>1, <2>2
  <2>4. Queue' \in [PID -> Seq(Buf)]
    BY Zenon, <2>3
  <2>5. \A q \in PID : \A i \in 1..Len(Queue[q]) : Queue[q][i] # b
    BY Zenon DEF QueuesOf
  <2>6. ASSUME NEW q \in Q, NEW i \in 1..Len(Queue'[q]), NEW j \in 1..Len(Queue'[q]),
               Queue'[q][i] = Queue'[q][j]
        PROVE  i = j
    <3>1. \A k \in 1..Len(Queue'[q]) : \/ k = Len(Queue[q]) + 1 /\ Queue'[q][k] = b
                                       \/ /\ k \in 1..Len(Queue[q]) /\ Queue'[q][k] = Queue[q][k]
                                          /\ Queue'[q][k] # b
      <4>1. Len(Queue'[q]) = Len(Queue[q]) + 1 /\ Len(Queue[q]) \in Nat
        BY Zenon, <2>1
      <4>2. \A k \in 1..(Len(Queue[q]) + 1) : k \in 1..Len(Queue[q]) \/ k = Len(Queue[q]) + 1
        BY <4>1
      <4>3. q \in PID
        BY Zenon
      <4>4. /\ Queue'[q][Len(Queue[q]) + 1] = b
            /\ \A k \in 1..Len(Queue[q]) : Queue'[q][k] = Queue[q][k]
        BY Zenon, <2>1
      <4>5. \A k \in 1..Len(Queue[q]) : Queue[q][k] # b
        BY Zenon, <2>5, <4>3
      <4> QED BY <4>1, <4>2, <4>4, <4>5
    <3>2. \A k, l \in 1..Len(Queue[q]) : Queue[q][k] = Queue[q][l] => k = l
      BY Zenon DEF QueuedOnce
    <3> QED BY Zenon, <2>6, <3>1, <3>2
  <2>7. QueuedOnce'
    <3> SUFFICES ASSUME NEW r \in PID, NEW i \in 1..Len(Queue'[r]), NEW j \in 1..Len(Queue'[r]),
                        Queue'[r][i] = Queue'[r][j]
                 PROVE  i = j
      BY Zenon DEF QueuedOnce
    <3>1. CASE r \in Q
      BY Zenon, <2>6, <3>1
    <3>2. CASE r \notin Q
      <4>1. Queue'[r] = Queue[r]
        BY Zenon, <2>2, <3>2
      <4> QED BY <4>1 DEF QueuedOnce
    <3> QED BY Zenon, <3>1, <3>2
  <2>8. ASSUME NEW q \in Q, NEW c
        PROVE  (\E i \in 1..Len(Queue'[q]) : Queue'[q][i] = c) <=>
               (\E i \in 1..Len(Queue[q]) : Queue[q][i] = c) \/ c = b
    <3>1. Len(Queue'[q]) = Len(Queue[q]) + 1 /\ Len(Queue[q]) \in Nat
      BY Zenon, <2>1
    <3>2. \A i : i \in 1..Len(Queue'[q]) <=> i \in 1..Len(Queue[q]) \/ i = Len(Queue[q]) + 1
      BY <3>1
    <3>3. /\ Queue'[q][Len(Queue[q]) + 1] = b
          /\ \A i \in 1..Len(Queue[q]) : Queue'[q][i] = Queue[q][i]
      BY Zenon, <2>1
    <3> QED BY Zenon, <3>2, <3>3
  <2>9. QueuesOf(b)' = Q
    <3>1. \A q \in Q : q \in QueuesOf(b)'
      BY Zenon, <2>8 DEF QueuesOf
    <3>2. \A q \in PID \ Q : q \notin QueuesOf(b)'
      BY <2>2, <2>5 DEF QueuesOf
    <3>3. QueuesOf(b)' \subseteq PID
      BY Zenon DEF QueuesOf
    <3> QED BY Zenon, <3>1, <3>2, <3>3
  <2>10. ASSUME NEW c, c # b
         PROVE  QueuesOf(c)' = QueuesOf(c)
    <3>1. \A q \in Q : q \in QueuesOf(c)' <=> q \in QueuesOf(c)
      BY Zenon, <2>8, <2>10 DEF QueuesOf
    <3>2. \A q \in PID \ Q : q \in QueuesOf(c)' <=> q \in QueuesOf(c)
      BY <2>2 DEF QueuesOf
    <3>3. QueuesOf(c)' \subseteq PID /\ QueuesOf(c) \subseteq PID
      BY Zenon DEF QueuesOf
    <3> QED BY Zenon, <3>1, <3>2, <3>3
  <2> QED BY Zenon, <2>4, <2>7, <2>9, <2>10

\* The locked section of CFE_SB_BroadcastBufferToRoute does this: a pipe's
\* queue is the one with its ID.
<1>BroadcastQueues.
  ASSUME BufferInv, NEW t \in Task, Broadcast(t), NEW b \in Buf, tBuf[t] = b
  PROVE  \E Q \in SUBSET PID : BroadcastTo(t, b, Q)
  <2> USE <1>BroadcastQueues
  <2> DEFINE m == BufMsgId[b]
             Acc == IF tRoute[t] THEN Accepting(t, m) ELSE {}
  <2>1. Acc \subseteq PID /\ \A p \in Acc : PipeDescIsMatch(p)
    BY Zenon DEF Accepting, Eligible, PipeDescIsMatch
  <2>2. \A p \in Acc : SysQueueId[SlotOf(p)] = p
    BY Zenon, <2>1, SlotOfInTable DEF BufferInv, PipeInv, SlotsOK, PipeDescIsMatch
  <2>3. {SysQueueId[SlotOf(p)] : p \in Acc} = Acc
    BY ZenonT(60), <2>2
  <2>4. BufSeq' = BufSeq \/ \E n : BufSeq' = [BufSeq EXCEPT ![b] = n]
    BY Zenon DEF Broadcast
  <2>5. /\ BufSeq' = [c \in Buf |-> BufSeq'[c]] /\ \A c \in Buf \ {b} : BufSeq'[c] = BufSeq[c]
    BY Zenon, <2>4 DEF BufferInv, LocalsInv, BufferTypes
  <2>6. Queue' = [q \in PID |-> IF q \in Acc THEN Append(Queue[q], b) ELSE Queue[q]]
    BY Zenon, <2>3 DEF Broadcast
  <2>7. BroadcastTo(t, b, Acc)
    BY Zenon, <2>1, <2>5, <2>6 DEF Broadcast, BroadcastTo, Goto
  <2> QED BY Zenon, <2>1, <2>7

\* CFE_SB_BroadcastBufferToRoute: the sender's reference becomes those of the
\* queues.
<1>BroadcastBuffers.
  ASSUME BufferInv, CountsAgree, \A Q \in SUBSET PID : Cardinality(Q) \in Nat,
         NEW t \in Task, Broadcast(t)
  PROVE  LocalsInv' /\ SharingInv' /\ Counted
  <2> USE <1>BroadcastBuffers
  <2> PipeTypes /\ BufferTypes /\ BufLocal /\ SharingInv
    BY Zenon DEF BufferInv, PipeInv, LocalsInv
  <2>1. pc[t] = "broadcast"
    BY Zenon DEF Broadcast
  <2>2. PICK b \in Buf : tBuf[t] = b
    BY Zenon, <2>1 DEF BufLocal, BufferTypes, HasBuffer
  <2>3. PICK Q \in SUBSET PID : BroadcastTo(t, b, Q)
    BY Zenon, <2>2, <1>BroadcastQueues
  <2>4. References(b) = {<<"worker", t>>}
    BY Zenon, <2>1, <2>2 DEF SharingInv, SoleSender
  <2>5. QueuesOf(b) = {} /\ ReadersOf(b) = {} /\ OwnersOf(b) = {}
    BY ZenonT(60), <2>4, RefKinds, RefTags
  <2>6. /\ Queue' \in [PID -> Seq(Buf)] /\ QueuedOnce' /\ QueuesOf(b)' = Q
        /\ \A c : c # b => QueuesOf(c)' = QueuesOf(c)
    BY Zenon, <2>3, <2>5, <1>QueuePut DEF BroadcastTo, BufferTypes, SharingInv
  <2>7. /\ pc'[t] \in {"send_events", "idle"}
        /\ tBuf'[t] # NULL <=> pc'[t] = "send_events"
        /\ tBuf'[t] \in {b, NULL} /\ tBuf' \in [Task -> Buf \cup {NULL}]
        /\ \A u \in Task \ {t} : pc'[u] = pc[u] /\ tBuf'[u] = tBuf[u]
    BY Zenon, <2>2, <2>3, NullPtr DEF BroadcastTo, PipeTypes, BufferTypes
  <2>8. LocalStep(t)
    BY Zenon, <2>1, <2>3, <2>7 DEF LocalStep, Others, BroadcastTo, BufferTypes, HasBuffer
  <2>9. ASSUME NEW c
        PROVE  ReadersOf(c)' = ReadersOf(c) /\ OwnersOf(c)' = OwnersOf(c)
    BY Zenon, <2>3 DEF ReadersOf, OwnersOf, BroadcastTo
  <2>10. References(b)' = {<<"queue", q>> : q \in Q}
    <3>1. \A u \in WorkersOf(b) : u = t
      <4>1. \A u \in WorkersOf(b) : <<"worker", u>> = <<"worker", t>>
        BY Zenon, <2>4, RefKinds
      <4> QED BY <4>1
    <3>2. WorkersOf(b)' = WorkersOf(b) \ {t}
      <4>1. Others(t) /\ (tBuf'[t] # b \/ pc'[t] = "send_events")
        BY Zenon, <2>7, <2>8, NullPtr DEF LocalStep
      <4> QED BY Zenon, <4>1, <1>WorkersStep
    <3>3. WorkersOf(b)' = {}
      BY Zenon, <3>1, <3>2
    <3>4. QueuesOf(b)' = Q /\ ReadersOf(b)' = {} /\ OwnersOf(b)' = {}
      BY Zenon, <2>5, <2>6, <2>9
    <3> QED BY <3>3, <3>4 DEF References
  <2>11. ASSUME NEW c \in Buf \ {b}
         PROVE  References(c)' = References(c)
    <3>1. tBuf'[t] # c /\ tBuf[t] # c /\ Others(t)
      BY Zenon, <2>2, <2>7, <2>8, NullPtr DEF LocalStep
    <3>2. WorkersOf(c)' = WorkersOf(c) /\ QueuesOf(c)' = QueuesOf(c)
      BY Zenon, <2>6, <3>1, <1>WorkersStep
    <3> QED BY Zenon, <2>9, <3>2, <1>SameRefs
  <2>12. /\ UseCount' \in [Buf -> Nat]
         /\ UseCount'[b] = UseAfter(b, Cardinality(Q))
         /\ \A c \in Buf \ {b} : UseCount'[c] = UseCount[c]
    <3>1. UseAfter(b, Cardinality(Q)) \in Nat
      <4>1. UseCount[b] \in Nat /\ Cardinality(Q) \in Nat
        BY Zenon DEF BufferTypes
      <4> QED BY <4>1 DEF UseAfter
    <3> QED BY Zenon, <2>3, <3>1 DEF BroadcastTo, BufferTypes
  <2>13. /\ Tracked' \in [Buf -> {"none", "zerocopy", "transit"}] /\ Tracked'[b] # "zerocopy"
         /\ \A c \in Buf \ {b} : Tracked'[c] = Tracked[c]
    <3>1. ListAfter(b, UseAfter(b, Cardinality(Q))) \in {"none", "transit"}
      BY Zenon DEF ListAfter
    <3> QED BY Zenon, <2>3, <3>1 DEF BroadcastTo, BufferTypes
  <2>14. /\ BufApp' \in [Buf -> App \cup {NoApp}]
         /\ \A c \in Buf \ {b} : BufApp'[c] = BufApp[c]
    BY Zenon, <2>3 DEF BroadcastTo, BufferTypes
  <2>15. Counted /\ \A c \in Buf \ {b} : Kept(c)
    <3>1. \A c \in Buf \ {b} : Kept(c)
      BY Zenon, <2>11, <2>12, <2>13, <2>14 DEF Kept
    <3>2. Spread(b)
      BY Zenon, <2>4, <2>10, <2>12 DEF Spread
    <3> QED BY Zenon, <3>1, <3>2 DEF Counted
  <2>16. BufferTypes'
    BY Zenon, <2>3, <2>6, <2>7, <2>12, <2>13, <2>14 DEF BufferTypes, BroadcastTo
  <2>17. LocalsInv'
    <3>1. \A q \in PID : Queue[q] = <<>> /\ ~ PipeDescIsMatch(q) => Queue'[q] = <<>>
      BY Zenon, <2>3 DEF BroadcastTo
    <3>2. /\ UNCHANGED <<PipeId, LastBuffer, LastPipeId, QLive>>
          /\ pc'[t] \notin Creating /\ pc'[t] # "delete_queue" /\ ReaderOf(t)'
      BY Zenon, <2>3, <2>7 DEF BroadcastTo, Creating, ReaderOf, InReceive
    <3> QED BY Zenon, <2>8, <2>16, <3>1, <3>2, <1>LocalsStep DEF PipeDescIsMatch
  <2>18. SharingInv'
    <3>1. Mine(t, b) /\ Listed(b)'
      BY Zenon, <2>4, <2>13, RefTags DEF Mine, Listed
    <3>2. SoleSender(t)'
      BY Zenon, <2>7 DEF SoleSender
    <3>3. SoleOwner(t)'
      <4>1. SoleOwner(t)
        BY Zenon DEF SharingInv
      <4>2. zcHandle[t] # b
        BY Zenon, <2>5 DEF OwnersOf
      <4>3. zcHandle[t] # NULL => zcHandle[t] \in Buf \ {b}
        BY Zenon, <4>2 DEF BufferTypes
      <4>4. zcHandle' = zcHandle
        BY Zenon, <2>3 DEF BroadcastTo
      <4> QED BY Zenon, <2>15, <4>1, <4>3, <4>4 DEF SoleOwner, Kept
    <3>4. \A u \in Task \ {t} : zcHandle'[u] \in {zcHandle[u], NULL}
      BY Zenon, <2>3 DEF BroadcastTo
    <3> QED BY Zenon, <2>2, <2>6, <2>8, <2>15, <3>1, <3>2, <3>3, <3>4, <1>SharingStep
  <2> QED BY Zenon, <2>15, <2>17, <2>18

\* CFE_SB_ZeroCopyReleaseAppId gives back every zero copy buffer of the
\* application. Its tasks have exited, so none of these is being sent.
<1>CleanUpZeroCopyBuffers.
  ASSUME BufferInv, CountsAgree, NEW t \in Task, CleanUpZeroCopy(t)
  PROVE  LocalsInv' /\ SharingInv' /\ Counted
  <2> USE <1>CleanUpZeroCopyBuffers
  <2> DEFINE S == ZeroCopyOf(tApp[t])
  <2> PipeTypes /\ BufferTypes /\ BufLocal /\ Exits /\ SharingInv
    BY Zenon DEF BufferInv, PipeInv, LocalsInv
  <2>1. /\ pc[t] = "cleanup" /\ pc' = [pc EXCEPT ![t] = "idle"]
        /\ DecrBufUseCnt(S)
        /\ zcHandle' = [u \in Task |-> IF AppOf[u] = tApp[t] THEN NULL ELSE zcHandle[u]]
        /\ tApp' = [tApp EXCEPT ![t] = NoApp]
        /\ UNCHANGED <<PipeId, LastBuffer, LastPipeId, QLive, Queue>>
        /\ UNCHANGED <<BufApp, BufMsgId, BufSeq, tPipe, tQueue, tBuf>>
    BY Zenon DEF CleanUpZeroCopy, Goto, pipeVars, osVars
  <2>2. /\ zcHandle' \in [Task -> Buf \cup {NULL}]
        /\ \A u \in Task : zcHandle'[u] = IF AppOf[u] = tApp[t] THEN NULL ELSE zcHandle[u]
    BY Zenon, <2>1 DEF BufferTypes
  <2>3. tBuf[t] = NULL
    BY Zenon, <2>1 DEF BufLocal, HasBuffer
  <2>4. LocalStep(t)
    BY Zenon, <2>1, <2>3 DEF LocalStep, Others, HasBuffer, PipeTypes, BufferTypes
  <2>5. ASSUME NEW b
        PROVE  /\ QueuesOf(b)' = QueuesOf(b) /\ ReadersOf(b)' = ReadersOf(b)
               /\ b \in Buf => WorkersOf(b)' = WorkersOf(b)
    <3>1. QueuesOf(b)' = QueuesOf(b) /\ ReadersOf(b)' = ReadersOf(b)
      BY Zenon, <2>1 DEF QueuesOf, ReadersOf
    <3>2. b \in Buf => tBuf[t] # b /\ tBuf'[t] # b
      BY Zenon, <2>1, <2>3, NullPtr
    <3>3. Others(t)
      BY Zenon, <2>4 DEF LocalStep
    <3> QED BY Zenon, <3>1, <3>2, <3>3, <1>WorkersStep
  <2>6. ASSUME NEW b \in S
        PROVE  \E u \in Task : /\ AppOf[u] = tApp[t]
                               /\ References(b) = {<<"owner", u>>}
    <3>1. b \in Buf /\ Tracked[b] = "zerocopy" /\ BufApp[b] = tApp[t]
      BY Zenon DEF ZeroCopyOf
    <3>2. PICK u \in Task : \/ zcHandle[u] = b
                            \/ pc[u] = "broadcast" /\ tBuf[u] = b /\ BufApp[b] = AppOf[u]
      BY Zenon, <3>1 DEF SharingInv, Listed
    <3>3. zcHandle[u] = b
      BY Zenon, <3>1, <3>2 DEF Exits
    <3> QED BY Zenon, <3>1, <3>3, NullPtr DEF SharingInv, SoleOwner
  <2>7. ASSUME NEW b \in S
        PROVE  b \in Buf /\ Dropped(b) /\ Mine(t, b) /\ UseCount[b] = 1
    <3>1. PICK u \in Task : AppOf[u] = tApp[t] /\ References(b) = {<<"owner", u>>}
      BY Zenon, <2>6
    <3>2. b \in Buf /\ UseCount[b] = 1
      BY Zenon, <3>1 DEF CountsAgree, ZeroCopyOf
    <3>3. \A v \in OwnersOf(b) : v = u
      <4>1. \A v \in OwnersOf(b) : <<"owner", v>> = <<"owner", u>>
        BY Zenon, <3>1, RefKinds
      <4> QED BY <4>1
    <3>4. OwnersOf(b)' = OwnersOf(b) \ {u}
      <4>1. \A v \in Task : zcHandle'[v] # b
        BY Zenon, <2>2, <3>1, <3>2, <3>3, NullPtr DEF OwnersOf
      <4> QED BY Zenon, <3>3, <4>1 DEF OwnersOf
    <3>5. References(b)' = References(b) \ {<<"owner", u>>}
      BY Zenon, <2>5, <3>2, <3>4, <1>RefsLess
    <3>6. UseCount'[b] = UseCount[b] - 1
      BY <2>1, <3>2 DEF DecrBufUseCnt
    <3>7. Mine(t, b)
      <4>1. \A v \in Task : zcHandle'[v] # NULL => v # u
        BY Zenon, <2>2, <3>1
      <4>2. \A v \in Task : zcHandle'[v] # NULL => <<"owner", u>> # <<"owner", v>>
        BY <4>1
      <4> QED BY Zenon, <3>1, <4>2, RefTags DEF Mine
    <3> QED BY Zenon, <3>1, <3>2, <3>5, <3>6, <3>7 DEF Dropped
  <2>8. ASSUME NEW b \in Buf \ S
        PROVE  Kept(b)
    <3>1. \A u \in Task : zcHandle[u] = b => AppOf[u] # tApp[t]
      BY Zenon, NullPtr DEF SharingInv, SoleOwner, ZeroCopyOf
    <3>2. OwnersOf(b)' = OwnersOf(b)
      BY Zenon, <2>2, <3>1, NullPtr DEF OwnersOf
    <3>3. References(b)' = References(b)
      BY Zenon, <2>5, <3>2, <1>SameRefs
    <3>4. UseCount'[b] = UseCount[b] /\ Tracked'[b] = Tracked[b]
      BY Zenon, <2>1 DEF DecrBufUseCnt
    <3> QED BY Zenon, <2>1, <3>3, <3>4 DEF Kept
  <2>9. Counted
    BY Zenon, <2>7, <2>8 DEF Counted
  <2>10. BufferTypes'
    <3>1. UseCount' \in [Buf -> Nat]
      BY <2>1 DEF DecrBufUseCnt, BufferTypes
    <3>2. Tracked' \in [Buf -> {"none", "zerocopy", "transit"}]
      BY <2>1 DEF DecrBufUseCnt, BufferTypes
    <3> QED BY Zenon, <2>1, <2>2, <2>4, <3>1, <3>2 DEF BufferTypes, LocalStep
  <2>11. LocalsInv'
    <3>1. pc'[t] = "idle"
      BY Zenon, <2>1 DEF PipeTypes
    <3>2. pc'[t] \notin Creating /\ pc'[t] # "delete_queue" /\ ReaderOf(t)'
      BY Zenon, <3>1 DEF Creating, ReaderOf, InReceive
    <3> QED BY Zenon, <2>1, <2>4, <2>10, <3>2, <1>LocalsStep DEF PipeDescIsMatch
  <2>12. SharingInv'
    <3>1. \A b \in S : Listed(b)'
      <4>1. \A b \in S : Tracked'[b] = "none"
        BY <2>1, <2>7 DEF DecrBufUseCnt
      <4> QED BY Zenon, <4>1 DEF Listed
    <3>2. \A u \in Task \ {t} : zcHandle'[u] \in {zcHandle[u], NULL}
      BY Zenon, <2>2
    <3>3. SoleSender(t)' /\ QueuedOnce'
      BY Zenon, <2>1 DEF SoleSender, SharingInv, QueuedOnce, PipeTypes
    <3>4. SoleOwner(t)'
      <4>1. zcHandle'[t] = zcHandle[t]
        BY Zenon, <2>1, <2>2 DEF Exits
      <4>2. zcHandle[t] # NULL => zcHandle[t] \in Buf \ S
        <5>1. AppOf[t] # tApp[t]
          BY Zenon, <2>1 DEF Exits
        <5>2. zcHandle[t] # NULL => zcHandle[t] \in Buf
          BY Zenon DEF BufferTypes
        <5>3. zcHandle[t] # NULL => BufApp[zcHandle[t]] = AppOf[t]
          BY Zenon DEF SharingInv, SoleOwner
        <5> QED BY Zenon, <5>1, <5>2, <5>3 DEF ZeroCopyOf
      <4>3. ASSUME NEW b \in Buf \ S, zcHandle[t] = b
            PROVE  SoleOwner(t)'
        <5>1. zcHandle'[t] = b /\ Kept(b)
          BY Zenon, <2>8, <4>1, <4>3
        <5>2. /\ References(b) = {<<"owner", t>>} /\ Tracked[b] = "zerocopy"
              /\ BufApp[b] = AppOf[t]
          BY Zenon, <4>3, NullPtr DEF SharingInv, SoleOwner
        <5> QED BY <5>1, <5>2 DEF SoleOwner, Kept
      <4>4. zcHandle[t] = NULL => SoleOwner(t)'
        BY Zenon, <4>1 DEF SoleOwner
      <4> QED BY Zenon, <4>2, <4>3, <4>4
    <3> QED BY Zenon, <2>1, <2>4, <2>7, <2>8, <3>1, <3>2, <3>3, <3>4, <1>SharingStep
  <2> QED BY Zenon, <2>9, <2>11, <2>12

<1> SUFFICES ASSUME BufferInv, CountsAgree, \A Q \in SUBSET PID : Cardinality(Q) \in Nat,
                    NEW t \in Task, Step(t)
             PROVE  LocalsInv' /\ SharingInv' /\ Counted
  BY Zenon
<1>1. Idle(t) \/ Busy(t)
  BY Zenon, IdleOrBusy DEF BufferInv, PipeInv, LocalsInv
<1>2. CASE Idle(t)
  BY Zenon, <1>2, <1>IdleStep
<1>3. CASE CreatePipe(t) \/ CreateQueue(t) \/ CreateFill(t) \/ CreateFail(t)
  BY Zenon, <1>3, <1>CreatePipeBuffers, <1>CreateQueueBuffers, <1>PipeEndBuffers
<1>4. CASE Reserving(t) \/ DeleteUnref(t) \/ DeleteGet(t) \/ DeleteQueue(t) \/ DeleteFree(t)
  BY Zenon, <1>4, <1>ReservingBuffers, <1>DeleteUnrefBuffers, <1>DeleteGetBuffers,
     <1>DeleteQueueBuffers, <1>PipeEndBuffers
<1>5. CASE (SendAlloc(t) /\ tBuf' # tBuf) \/ Broadcast(t)
  BY Zenon, <1>5, <1>SendAllocBuffers, <1>BroadcastBuffers
<1>6. CASE \/ ZeroCopyGetPtr(t) \/ ZeroCopyReleasePtr(t)
           \/ \E m \in MsgId : TransmitBuffer(t, m)
  BY Zenon, <1>6, <1>ZeroCopyGetBuffers, <1>ZeroCopyReleaseBuffers, <1>TransmitBufferBuffers
<1>7. CASE \/ \E p \in PID : ReceiveBuffer(t, p)
           \/ ReceiveGet(t) \/ ReceiveStore(t)
  BY Zenon, <1>7, <1>ReceiveBufferBuffers, <1>ReceiveGetBuffers, <1>ReceiveStoreBuffers
<1>8. CASE CleanUpZeroCopy(t)
  BY Zenon, <1>8, <1>CleanUpZeroCopyBuffers
<1> QED BY Zenon, <1>1, <1>2, <1>3, <1>4, <1>5, <1>6, <1>7, <1>8 DEF Busy

\* At start-up nobody has a buffer.
LEMMA BufferInit ==
  ASSUME Init
  PROVE  LocalsInv /\ SharingInv /\ \A b \in Buf : UseCount[b] = 0 /\ References(b) = {}
<1>1. BufferTypes
  BY SBAssumption DEF Init, BufferTypes
<1>2. /\ \A t \in Task : /\ pc[t] = "idle" /\ tBuf[t] = NULL /\ zcHandle[t] = NULL
                         /\ tApp[t] = NoApp
      /\ \A s \in Slot : LastBuffer[s] = NULL
      /\ \A q \in PID : Queue[q] = <<>>
      /\ \A b \in Buf : UseCount[b] = 0 /\ Tracked[b] = "none"
  BY Zenon DEF Init
<1>3. BufLocal /\ Readers /\ NewPipes /\ EmptyQueues
  BY Zenon, <1>2 DEF BufLocal, Readers, ReaderOf, NewPipes, EmptyQueues, HasBuffer,
     InReceive, Creating
<1>4. Exits
  BY <1>2, SBAssumption DEF Exits
<1>5. QueuedOnce /\ \A b : QueuesOf(b) = {}
  BY <1>2 DEF QueuedOnce, QueuesOf
<1>6. \A b \in Buf : References(b) = {}
  BY <1>2, <1>5, NullPtr DEF References, ReadersOf, WorkersOf, OwnersOf
<1>7. SharingInv
  BY Zenon, <1>2, <1>5 DEF SharingInv, SoleSender, SoleOwner, Listed
<1> QED BY Zenon, <1>1, <1>2, <1>3, <1>4, <1>6, <1>7 DEF LocalsInv

\* Nothing happens to a buffer when nothing happens.
LEMMA BufferStutter ==
  ASSUME BufferInv, UNCHANGED vars
  PROVE  LocalsInv' /\ SharingInv' /\ UseCountExact'
<1>1. /\ UNCHANGED <<PipeId, LastBuffer, LastPipeId, QLive, Queue>>
      /\ UNCHANGED <<UseCount, Tracked, BufApp, BufMsgId, BufSeq>>
      /\ UNCHANGED <<pc, tPipe, tQueue, tBuf, zcHandle, tApp>>
  BY Zenon DEF vars, pipeVars, osVars, bufVars, taskVars
<1>2. ASSUME NEW b
      PROVE  References(b)' = References(b)
  BY Zenon, <1>1 DEF References, QueuesOf, ReadersOf, WorkersOf, OwnersOf
<1>3. UseCountExact'
  BY Zenon, <1>1, <1>2 DEF BufferInv, UseCountExact
<1>4. BufferTypes' /\ BufLocal'
  BY Zenon, <1>1 DEF BufferInv, LocalsInv, BufferTypes, BufLocal
<1>5. Readers'
  BY Zenon, <1>1 DEF BufferInv, LocalsInv, Readers, ReaderOf, PipeDescIsMatch
<1>6. NewPipes' /\ EmptyQueues' /\ Exits'
  BY Zenon, <1>1 DEF BufferInv, LocalsInv, NewPipes, EmptyQueues, Exits
<1>7. \A t \in Task : SoleSender(t)' = SoleSender(t) /\ SoleOwner(t)' = SoleOwner(t)
  BY ZenonT(60), <1>1
     DEF SoleSender, SoleOwner, References, QueuesOf, ReadersOf, WorkersOf, OwnersOf
<1>8. \A b \in Buf : Listed(b)' = Listed(b)
  BY Zenon, <1>1 DEF Listed
<1>9. SharingInv'
  BY Zenon, <1>1, <1>7, <1>8 DEF BufferInv, SharingInv, QueuedOnce
<1> QED BY Zenon, <1>3, <1>4, <1>5, <1>6, <1>9 DEF LocalsInv

-----------------------------------------------------------------------------
(***************************************************************************)
(* Messages                                                                *)
(***************************************************************************)
\* The types of the headers and of what they are made from.
HeaderTypes ==
    /\ SeqCnt \in [MsgId -> 0..MaxSeq]
    /\ BufMsgId \in [Buf -> MsgId \cup {NULL}]
    /\ BufSeq \in [Buf -> 0..MaxSeq]
    /\ tMsg \in [Task -> MsgId \cup {NULL}]

\* Only a destination can be enabled.
ActiveInv ==
    /\ Active \in [MsgId -> SUBSET PID]
    /\ \A m \in MsgId : Active[m] \subseteq Dests[m]

\* A message that is not yet broadcast has an ID and no sequence count.
Unsent(t) ==
    /\ pc[t] = "send_alloc" => tMsg[t] \in MsgId
    /\ pc[t] = "broadcast" => BufMsgId[tBuf[t]] \in MsgId /\ BufSeq[tBuf[t]] = 0
    /\ zcHandle[t] # NULL => BufSeq[zcHandle[t]] = 0

\* A message on a queue has an ID and at most the latest sequence count of it.
Sent(b) == BufMsgId[b] \in MsgId /\ BufSeq[b] <= SeqCnt[BufMsgId[b]]

\* The pipe t creates is empty until it exists.
NewEmpty(t) == pc[t] = "create_fill" => Queue[tPipe[t]] = <<>>

MessageInv ==
    /\ HeaderTypes
    /\ ActiveInv
    /\ \A t \in Task : Unsent(t) /\ NewEmpty(t)
    /\ \A b \in Buf : QueuesOf(b) # {} => Sent(b)
    /\ SequenceInOrder

\* The headers of the messages on the queues stay as they are.
HeadersKept ==
    \A b \in Buf : QueuesOf(b) # {} => BufMsgId'[b] = BufMsgId[b] /\ BufSeq'[b] = BufSeq[b]

-----------------------------------------------------------------------------
(***************************************************************************)
(* Who writes a header                                                     *)
(***************************************************************************)
\* Only these steps write the header of a message: CFE_SB_GetBufferFromPool
\* for a block of the pool, CFE_SB_TransmitBuffer for the sender's own buffer,
\* and the broadcast before any queue has it.
LEMMA HeaderWrites ==
  ASSUME BufferInv, CountsAgree, NEW t \in Task, Step(t), NEW b \in Buf,
         References(b) \notin {{}, {<<"worker", t>>}, {<<"owner", t>>}}
  PROVE  BufMsgId'[b] = BufMsgId[b] /\ BufSeq'[b] = BufSeq[b]
<1> PipeTypes /\ BufferTypes /\ BufLocal /\ SharingInv
  BY Zenon DEF BufferInv, PipeInv, LocalsInv
<1>1. Idle(t) \/ Busy(t)
  BY Zenon, IdleOrBusy
<1>2. ASSUME NEW c \in Buf, NEW m, NEW a, NEW list, GetBufferFromPool(c, m, a, list)
      PROVE  BufMsgId'[b] = BufMsgId[b] /\ BufSeq'[b] = BufSeq[b]
  <2>1. References(c) = {}
    BY Zenon, <1>2 DEF GetBufferFromPool, FreeBufs, CountsAgree
  <2>2. c # b
    BY Zenon, <2>1
  <2> QED BY Zenon, <1>2, <2>2 DEF GetBufferFromPool, BufferTypes
<1>3. CASE SendAlloc(t)
  BY Zenon, <1>2, <1>3 DEF SendAlloc, bufVars
<1>4. CASE ZeroCopyGetPtr(t)
  BY Zenon, <1>2, <1>4 DEF ZeroCopyGetPtr
<1>5. CASE Broadcast(t)
  <2>1. pc[t] = "broadcast" /\ BufMsgId' = BufMsgId
    BY Zenon, <1>5 DEF Broadcast
  <2>2. tBuf[t] \in Buf
    BY Zenon, <2>1 DEF BufLocal, HasBuffer, BufferTypes
  <2>3. References(tBuf[t]) = {<<"worker", t>>}
    BY Zenon, <2>1 DEF SharingInv, SoleSender
  <2>4. tBuf[t] # b
    BY Zenon, <2>3
  <2>5. BufSeq'[b] = BufSeq[b]
    BY Zenon, <1>5, <2>2, <2>4 DEF Broadcast, BufferTypes
  <2> QED BY Zenon, <2>1, <2>5
<1>6. CASE \E m \in MsgId : TransmitBuffer(t, m)
  <2>1. zcHandle[t] # NULL
    BY Zenon, <1>6 DEF TransmitBuffer, HandleValidate
  <2>2. References(zcHandle[t]) = {<<"owner", t>>}
    BY Zenon, <2>1 DEF SharingInv, SoleOwner
  <2>3. zcHandle[t] # b
    BY Zenon, <2>2
  <2> QED BY Zenon, <1>6, <2>1, <2>3 DEF TransmitBuffer, BufferTypes
<1>7. CASE \/ Idle(t) \/ CreatePipe(t) \/ CreateQueue(t) \/ CreateFill(t) \/ CreateFail(t)
           \/ Reserving(t) \/ DeleteUnref(t) \/ DeleteGet(t) \/ DeleteQueue(t)
           \/ DeleteFree(t) \/ ZeroCopyReleasePtr(t) \/ CleanUpZeroCopy(t)
           \/ \E p \in PID : ReceiveBuffer(t, p)
           \/ ReceiveGet(t) \/ ReceiveStore(t)
  <2>1. UNCHANGED <<BufMsgId, BufSeq>>
    BY Zenon, <1>7
       DEF Idle, CreatePipe, CreateQueue, CreateFill, CreateFail, Reserving,
           DeletePipeReserve, DeleteUnref, DeleteGet, DeleteQueue, DeleteFree,
           ZeroCopyReleasePtr, CleanUpZeroCopy, ReceiveBuffer, ReceiveGet,
           ReceiveStore, bufVars
  <2> QED BY Zenon, <2>1
<1> QED BY Zenon, <1>1, <1>3, <1>4, <1>5, <1>6, <1>7 DEF Busy

\* So no step writes the header of a message that is on a queue or with a
\* reader.
LEMMA ContentStep ==
  ASSUME BufferInv, CountsAgree, NEW t \in Task, Step(t), NEW b \in Buf,
         QueuesOf(b) # {} \/ ReadersOf(b) # {}
  PROVE  BufMsgId'[b] = BufMsgId[b] /\ BufSeq'[b] = BufSeq[b]
<1>1. References(b) \notin {{}, {<<"worker", t>>}, {<<"owner", t>>}}
  BY ZenonT(60), RefKinds, RefTags
<1> QED BY Zenon, <1>1, HeaderWrites

\* In particular those of the messages on the queues.
LEMMA QueuedKept ==
  ASSUME BufferInv, CountsAgree, NEW t \in Task, Step(t)
  PROVE  HeadersKept
  BY Zenon, ContentStep DEF HeadersKept

-----------------------------------------------------------------------------
(***************************************************************************)
(* What a step does to the queues                                          *)
(***************************************************************************)
\* OS_QueueGet: the first message of queue q is gone.
Gets(q) == Queue[q] # <<>> /\ Queue' = [Queue EXCEPT ![q] = Tail(@)]

\* A queue is created empty: it held nothing before.
LEMMA QueueMoves ==
  ASSUME BufferInv, NEW t \in Task, Step(t)
  PROVE  Broadcast(t) \/ UNCHANGED Queue \/ \E q \in PID : Gets(q)
<1> PipeTypes /\ BufferTypes /\ BufLocal
  BY Zenon DEF BufferInv, PipeInv, LocalsInv
<1>1. Idle(t) \/ Busy(t)
  BY Zenon, IdleOrBusy
<1>2. CASE CreateQueue(t)
  <2>1. tPipe[t] \in PID \ QLive
    BY Zenon, <1>2 DEF CreateQueue, BufferInv, PipeInv, Reserved, ReservedBy, PipeWork, Creating
  <2>2. Queue[tPipe[t]] = <<>>
    BY Zenon, <2>1 DEF BufferInv, LocalsInv, EmptyQueues
  <2>3. Queue' = Queue \/ Queue' = [Queue EXCEPT ![tPipe[t]] = <<>>]
    BY Zenon, <1>2 DEF CreateQueue, osVars
  <2>4. [Queue EXCEPT ![tPipe[t]] = <<>>] = Queue
    BY Zenon, <2>1, <2>2 DEF BufferTypes
  <2> QED BY Zenon, <2>3, <2>4
<1>3. CASE DeleteGet(t) \/ ReceiveGet(t)
  <2>1. pc[t] \in Draining \cup InReceive
    BY Zenon, <1>3 DEF DeleteGet, ReceiveGet, Draining, InReceive
  <2>2. tQueue[t] \in PID
    BY Zenon, <2>1
       DEF BufferInv, PipeInv, LocalsInv, Reserved, ReservedBy, Readers, ReaderOf, PipeWork
  <2> QED BY Zenon, <1>3, <2>2 DEF DeleteGet, ReceiveGet, Gets
<1>4. CASE \/ Idle(t) \/ CreatePipe(t) \/ CreateFill(t) \/ CreateFail(t)
           \/ Reserving(t) \/ DeleteUnref(t) \/ DeleteQueue(t)
           \/ DeleteFree(t) \/ ZeroCopyGetPtr(t) \/ ZeroCopyReleasePtr(t) \/ CleanUpZeroCopy(t)
           \/ SendAlloc(t) \/ \E m \in MsgId : TransmitBuffer(t, m)
           \/ \E p \in PID : ReceiveBuffer(t, p)
           \/ ReceiveStore(t)
  BY Zenon, <1>4
     DEF Idle, CreatePipe, CreateFill, CreateFail, Reserving, DeletePipeReserve,
         DeleteUnref, DeleteQueue, DeleteFree, ZeroCopyGetPtr, ZeroCopyReleasePtr,
         CleanUpZeroCopy, SendAlloc, TransmitBuffer, ReceiveBuffer, ReceiveStore, osVars
<1> QED BY Zenon, <1>1, <1>2, <1>3, <1>4 DEF Busy

-----------------------------------------------------------------------------
(***************************************************************************)
(* The steps that send                                                     *)
(***************************************************************************)
Sending(t) ==
    \/ \E m \in MsgId : TransmitMsg(t, m) \/ TransmitBuffer(t, m)
    \/ SendAlloc(t) \/ Broadcast(t) \/ SendEvents(t) \/ ZeroCopyGetPtr(t)

\* The step has no part in sending a message.
Silent(t) ==
    /\ UNCHANGED <<SeqCnt, BufMsgId, BufSeq, tMsg>>
    /\ \A u \in Task :
         /\ pc'[u] = "send_alloc" => pc[u] = "send_alloc"
         /\ pc'[u] = "broadcast" => pc[u] = "broadcast" /\ tBuf'[u] = tBuf[u]
         /\ zcHandle'[u] \in {zcHandle[u], NULL}

\* Every step of a task is one of the two kinds.
LEMMA SilentOrSending ==
  ASSUME PipeTypes, BufferTypes, NEW t \in Task, Step(t)
  PROVE  Silent(t) \/ Sending(t)
<1> /\ pc \in [Task -> PC] /\ tBuf \in [Task -> Buf \cup {NULL}]
    /\ zcHandle \in [Task -> Buf \cup {NULL}]
  BY Zenon DEF PipeTypes, BufferTypes
<1> USE DEF Silent, Goto, Return, MayCall
<1>1. CASE CreatePipe(t) \/ CreateQueue(t) \/ CreateFill(t) \/ CreateFail(t)
  BY Zenon, <1>1 DEF CreatePipe, CreateQueue, CreateFill, CreateFail, routeVars, bufVars
<1>2. ASSUME NEW p, DeletePipeReserve(t, p)
      PROVE  Silent(t)
  BY Zenon, <1>2 DEF DeletePipeReserve, FirstDrainStep, bufVars
<1>3. CASE DeleteUnref(t) \/ DeleteGet(t) \/ DeleteQueue(t) \/ DeleteFree(t)
  BY Zenon, <1>3 DEF DeleteUnref, DeleteGet, DeleteQueue, DeleteFree, routeVars, bufVars
<1>4. CASE \E p \in PID : GetPipeIdByName(t, p) \/ \E on \in BOOLEAN : SetPipeOpts(t, p, on)
  BY Zenon, <1>4 DEF GetPipeIdByName, SetPipeOpts, routeVars, bufVars, taskVars
<1>5. CASE ByNameScan(t) \/ ByNameReturn(t) \/ ExitApp(t) \/ \E a \in App : CleanUpApp(t, a)
  BY Zenon, <1>5 DEF ByNameScan, ByNameReturn, ExitApp, CleanUpApp, routeVars, bufVars
<1>6. CASE \E m \in MsgId, p \in PID : \/ Subscribe(t, m, p) \/ Unsubscribe(t, m, p)
                                       \/ \E on \in BOOLEAN : SetRoute(t, m, p, on)
  <2>1. UNCHANGED <<SeqCnt, bufVars, taskVars>>
    BY ZenonT(60), <1>6 DEF Subscribe, Unsubscribe, SetRoute
  <2> QED BY Zenon, <2>1 DEF bufVars, taskVars
<1>7. CASE \/ ZeroCopyReleasePtr(t) \/ CleanUpZeroCopy(t) \/ ReceiveNone(t) \/ Refused(t)
  BY Zenon, <1>7
     DEF ZeroCopyReleasePtr, CleanUpZeroCopy, ReceiveNone, Refused, routeVars, bufVars,
         taskVars, vars
<1>8. CASE ReceiveGet(t) \/ ReceiveStore(t) \/ \E p \in PID : ReceiveBuffer(t, p)
  BY Zenon, <1>8 DEF ReceiveGet, ReceiveStore, ReceiveBuffer, routeVars, bufVars
<1>9. CASE \E p \in PID \cup {RESERVED} : CleanUpPipe(t, p)
  <2>1. PICK p \in PID \cup {RESERVED} : CleanUpPipe(t, p)
    BY Zenon, <1>9
  <2>2. CASE UNCHANGED <<routeVars, bufVars, pc, tBuf, tMsg, zcHandle>>
    BY Zenon, <2>2 DEF routeVars, bufVars
  <2> QED BY Zenon, <1>2, <2>1, <2>2 DEF CleanUpPipe
<1>10. CASE \E p \in PID : DeletePipe(t, p)
  BY Zenon, <1>2, <1>10 DEF DeletePipe
<1> HIDE DEF Silent, Goto, Return, MayCall
<1> QED
  BY ZenonT(60), <1>1, <1>3, <1>4, <1>5, <1>6, <1>7, <1>8, <1>9, <1>10
     DEF Step, Call, Continue, Sending

\* The types of the headers are kept.
LEMMA HeaderTypesStep ==
  ASSUME BufferInv, HeaderTypes, NEW t \in Task, Unsent(t), Step(t)
  PROVE  HeaderTypes'
<1> PipeTypes /\ BufferTypes /\ BufLocal
  BY Zenon DEF BufferInv, PipeInv, LocalsInv
<1>1. Silent(t) \/ Sending(t)
  BY Zenon, SilentOrSending
<1>2. CASE Silent(t)
  BY Zenon, <1>2 DEF Silent, HeaderTypes
<1>3. 0 \in 0..MaxSeq
  BY SBAssumption
<1>4. CASE \E m \in MsgId : TransmitMsg(t, m) \/ TransmitBuffer(t, m)
  <2>1. PICK m \in MsgId : TransmitMsg(t, m) \/ TransmitBuffer(t, m)
    BY Zenon, <1>4
  <2>2. /\ UNCHANGED <<SeqCnt, BufSeq>>
        /\ BufMsgId' = BufMsgId \/ BufMsgId' = [BufMsgId EXCEPT ![zcHandle[t]] = m]
        /\ tMsg' = [tMsg EXCEPT ![t] = m]
    BY Zenon, <2>1 DEF TransmitMsg, TransmitBuffer, routeVars, bufVars
  <2> QED BY Zenon, <2>2 DEF HeaderTypes
<1>5. CASE SendAlloc(t)
  <2>1. /\ SeqCnt' = SeqCnt
        /\ \/ /\ \E b \in Buf : GetBufferFromPool(b, tMsg[t], NoApp, "none")
              /\ UNCHANGED tMsg
           \/ tMsg' = [tMsg EXCEPT ![t] = NULL] /\ UNCHANGED <<BufMsgId, BufSeq>>
    BY Zenon, <1>5 DEF SendAlloc, routeVars, bufVars
  <2> QED BY ZenonT(60), <1>3, <2>1 DEF GetBufferFromPool, HeaderTypes
<1>6. CASE SendEvents(t)
  BY Zenon, <1>6 DEF SendEvents, HeaderTypes, routeVars, bufVars
<1>7. CASE ZeroCopyGetPtr(t)
  BY ZenonT(60), <1>3, <1>7 DEF ZeroCopyGetPtr, GetBufferFromPool, HeaderTypes, routeVars
<1>8. CASE Broadcast(t)
  <2>1. tBuf[t] \in Buf /\ BufMsgId[tBuf[t]] \in MsgId
    BY Zenon, <1>8 DEF Broadcast, Unsent, BufferTypes, BufLocal, HasBuffer
  <2>2. BufMsgId' = BufMsgId /\ tMsg' \in [Task -> MsgId \cup {NULL}]
    BY Zenon, <1>8 DEF Broadcast, HeaderTypes
  <2>3. \/ UNCHANGED <<SeqCnt, BufSeq>>
        \/ /\ SeqCnt[BufMsgId[tBuf[t]]] < MaxSeq
           /\ SeqCnt' = [SeqCnt EXCEPT ![BufMsgId[tBuf[t]]] = @ + 1]
           /\ BufSeq' = [BufSeq EXCEPT ![tBuf[t]] = SeqCnt[BufMsgId[tBuf[t]]] + 1]
    BY Zenon, <1>8 DEF Broadcast
  <2>4. SeqCnt[BufMsgId[tBuf[t]]] < MaxSeq => SeqCnt[BufMsgId[tBuf[t]]] + 1 \in 0..MaxSeq
    BY <2>1, SBAssumption DEF HeaderTypes
  <2> QED BY Zenon, <2>2, <2>3, <2>4 DEF HeaderTypes
<1> QED BY Zenon, <1>1, <1>2, <1>4, <1>5, <1>6, <1>7, <1>8 DEF Sending

-----------------------------------------------------------------------------
\* Every step keeps the invariant.
LEMMA MessageStep ==
  \A t \in Task : BufferInv /\ CountsAgree /\ MessageInv /\ Step(t) => MessageInv'
\* The reference of another task is none of these.
<1>OtherRefs.
  ASSUME NEW t, NEW u, u # t
  PROVE  /\ {<<"worker", u>>} \notin {{}, {<<"worker", t>>}, {<<"owner", t>>}}
         /\ {<<"owner", u>>} \notin {{}, {<<"worker", t>>}, {<<"owner", t>>}}
  <2> USE <1>OtherRefs
  <2>1. <<"worker", u>> # <<"worker", t>> /\ <<"owner", u>> # <<"owner", t>>
    OBVIOUS
  <2>2. <<"worker", u>> # <<"owner", t>> /\ <<"owner", u>> # <<"worker", t>>
    OBVIOUS
  <2> QED BY Zenon, <2>1, <2>2

\* The messages that are left after OS_QueueGet move up by one.
<1>AfterGet.
  ASSUME BufferTypes, NEW q \in PID, Gets(q)
  PROVE  \E d \in [PID -> {0, 1}] :
           \A r \in PID : \A i \in 1..Len(Queue'[r]) :
               /\ i + d[r] \in 1..Len(Queue[r])
               /\ Queue'[r][i] = Queue[r][i + d[r]]
  <2> USE <1>AfterGet
  <2> DEFINE d == [r \in PID |-> IF r = q THEN 1 ELSE 0]
  <2>1. d \in [PID -> {0, 1}]
    OBVIOUS
  <2>2. ASSUME NEW r \in PID, NEW i \in 1..Len(Queue'[r])
        PROVE  i + d[r] \in 1..Len(Queue[r]) /\ Queue'[r][i] = Queue[r][i + d[r]]
    <3>1. Queue[r] \in Seq(Buf) /\ Queue[q] \in Seq(Buf)
      BY Zenon DEF BufferTypes
    <3>2. CASE r = q
      <4>1. Queue'[r] = Tail(Queue[r]) /\ Queue[r] # <<>>
        BY Zenon, <3>2 DEF Gets, BufferTypes
      <4> QED BY <3>1, <3>2, <4>1
    <3>3. CASE r # q
      <4>1. Queue'[r] = Queue[r]
        BY Zenon, <3>3 DEF Gets, BufferTypes
      <4> QED BY <3>1, <3>3, <4>1
    <3> QED BY Zenon, <3>2, <3>3
  <2> HIDE DEF d
  <2> QED BY Zenon, <2>1, <2>2

\* A broadcast puts its buffer behind what a queue holds.
<1>AfterBroadcast.
  ASSUME BufferTypes, NEW t \in Task, tBuf[t] \in Buf, Broadcast(t)
  PROVE  \A r \in PID : \A i \in 1..Len(Queue'[r]) :
             \/ i \in 1..Len(Queue[r]) /\ Queue'[r][i] = Queue[r][i]
             \/ i = Len(Queue[r]) + 1 /\ Queue'[r][i] = tBuf[t]
  <2> USE <1>AfterBroadcast
  <2> SUFFICES ASSUME NEW r \in PID, NEW i \in 1..Len(Queue'[r])
               PROVE  \/ i \in 1..Len(Queue[r]) /\ Queue'[r][i] = Queue[r][i]
                      \/ i = Len(Queue[r]) + 1 /\ Queue'[r][i] = tBuf[t]
    BY Zenon
  <2>1. Queue[r] \in Seq(Buf)
    BY Zenon DEF BufferTypes
  <2>2. Queue'[r] = Queue[r] \/ Queue'[r] = Append(Queue[r], tBuf[t])
    BY Zenon DEF Broadcast
  <2> QED BY SMTT(60), <2>1, <2>2

\* What is not yet broadcast still has no sequence count: nobody else writes
\* the buffer a task is sending or owns.
<1>UnsentStep.
  ASSUME BufferInv, CountsAgree, HeaderTypes, \A u \in Task : Unsent(u),
         NEW t \in Task, Step(t), NEW u \in Task
  PROVE  Unsent(u)'
  <2> USE <1>UnsentStep
  <2> PipeTypes /\ BufferTypes /\ BufLocal /\ SharingInv /\ Unsent(u) /\ Unsent(t)
    BY Zenon DEF BufferInv, PipeInv, LocalsInv
  <2>1. Silent(t) \/ Sending(t)
    BY Zenon, SilentOrSending
  <2>2. CASE Silent(t)
    BY Zenon, <2>2 DEF Silent, Unsent
  <2>3. ASSUME u # t, Sending(t)
        PROVE  Unsent(u)'
    <3>1. /\ pc'[u] = pc[u] /\ tBuf'[u] = tBuf[u] /\ tMsg'[u] = tMsg[u]
          /\ zcHandle'[u] = zcHandle[u]
      <4> USE DEF Goto, PipeTypes, BufferTypes, HeaderTypes
      <4>1. CASE \E m \in MsgId : TransmitMsg(t, m)
        BY ZenonT(60), <2>3, <4>1 DEF TransmitMsg
      <4>2. CASE \E m \in MsgId : TransmitBuffer(t, m)
        BY ZenonT(60), <2>3, <4>2 DEF TransmitBuffer
      <4>3. CASE SendAlloc(t)
        BY Zenon, <2>3, <4>3 DEF SendAlloc
      <4>4. CASE Broadcast(t)
        BY Zenon, <2>3, <4>4 DEF Broadcast
      <4>5. CASE SendEvents(t) \/ ZeroCopyGetPtr(t)
        BY Zenon, <2>3, <4>5 DEF SendEvents, ZeroCopyGetPtr
      <4> QED BY Zenon, <2>3, <4>1, <4>2, <4>3, <4>4, <4>5 DEF Sending
    <3>2. ASSUME pc[u] = "broadcast"
          PROVE  BufMsgId'[tBuf[u]] = BufMsgId[tBuf[u]] /\ BufSeq'[tBuf[u]] = BufSeq[tBuf[u]]
      <4>1. tBuf[u] \in Buf /\ References(tBuf[u]) = {<<"worker", u>>}
        BY Zenon, <3>2 DEF BufferTypes, BufLocal, HasBuffer, SharingInv, SoleSender
      <4> QED BY ZenonT(60), <2>3, <4>1, <1>OtherRefs, HeaderWrites
    <3>3. ASSUME zcHandle[u] # NULL
          PROVE  BufSeq'[zcHandle[u]] = BufSeq[zcHandle[u]]
      <4>1. zcHandle[u] \in Buf /\ References(zcHandle[u]) = {<<"owner", u>>}
        BY Zenon, <3>3 DEF BufferTypes, SharingInv, SoleOwner
      <4> QED BY ZenonT(60), <2>3, <4>1, <1>OtherRefs, HeaderWrites
    <3> QED BY Zenon, <3>1, <3>2, <3>3 DEF Unsent
  <2>4. CASE \E m \in MsgId : TransmitMsg(t, m)
    <3>1. /\ pc'[t] = "send_alloc" /\ tMsg'[t] \in MsgId
          /\ UNCHANGED <<BufMsgId, BufSeq, zcHandle>>
      BY Zenon, <2>4 DEF TransmitMsg, Goto, bufVars, PipeTypes, HeaderTypes
    <3> QED BY Zenon, <2>3, <2>4, <3>1 DEF Sending, Unsent
  <2>5. CASE \E m \in MsgId : TransmitBuffer(t, m)
    <3>1. zcHandle[t] \in Buf /\ BufSeq[zcHandle[t]] = 0
      BY Zenon, <2>5 DEF TransmitBuffer, HandleValidate, BufferTypes, Unsent
    <3>2. pc'[t] = "broadcast" /\ tBuf'[t] = zcHandle[t] /\ zcHandle'[t] = NULL
      BY ZenonT(60), <2>5 DEF TransmitBuffer, Goto, PipeTypes, BufferTypes
    <3>3. BufMsgId'[zcHandle[t]] \in MsgId /\ BufSeq' = BufSeq
      BY ZenonT(60), <2>5, <3>1 DEF TransmitBuffer, HeaderTypes
    <3> QED BY Zenon, <2>3, <2>5, <3>1, <3>2, <3>3 DEF Sending, Unsent
  <2>6. ASSUME zcHandle[t] # NULL, NEW b \in Buf, b \in FreeBufs
        PROVE  b # zcHandle[t]
    BY Zenon, <2>6 DEF FreeBufs, CountsAgree, SharingInv, SoleOwner
  <2>7. CASE SendAlloc(t)
    <3>1. CASE pc' = [pc EXCEPT ![t] = "idle"] /\ UNCHANGED <<BufMsgId, BufSeq, zcHandle>>
      BY Zenon, <2>3, <2>7, <3>1 DEF Sending, Unsent, PipeTypes
    <3>2. ASSUME NEW b \in Buf, GetBufferFromPool(b, tMsg[t], NoApp, "none"),
                 tBuf' = [tBuf EXCEPT ![t] = b], pc' = [pc EXCEPT ![t] = "broadcast"],
                 zcHandle' = zcHandle
          PROVE  Unsent(t)'
      <4>1. zcHandle[t] # NULL => b # zcHandle[t]
        BY Zenon, <2>6, <3>2 DEF GetBufferFromPool
      <4>2. tMsg[t] \in MsgId
        BY Zenon, <2>7 DEF SendAlloc, Unsent
      <4>3. /\ pc'[t] = "broadcast" /\ tBuf'[t] = b
            /\ BufMsgId'[b] = tMsg[t] /\ BufSeq'[b] = 0
        BY Zenon, <3>2 DEF GetBufferFromPool, PipeTypes, BufferTypes, HeaderTypes
      <4>4. zcHandle[t] # NULL => BufSeq'[zcHandle[t]] = 0
        BY Zenon, <3>2, <4>1 DEF GetBufferFromPool, BufferTypes, HeaderTypes, Unsent
      <4> QED BY Zenon, <3>2, <4>2, <4>3, <4>4 DEF Unsent
    <3> QED BY Zenon, <2>3, <2>7, <3>1, <3>2 DEF Sending, SendAlloc, Goto, bufVars
  <2>8. CASE SendEvents(t)
    BY Zenon, <2>3, <2>8 DEF Sending, SendEvents, Unsent, Goto, bufVars, PipeTypes
  <2>9. CASE ZeroCopyGetPtr(t)
    <3>1. PICK b \in Buf : /\ GetBufferFromPool(b, NULL, AppOf[t], "zerocopy")
                           /\ zcHandle' = [zcHandle EXCEPT ![t] = b]
      BY Zenon, <2>9 DEF ZeroCopyGetPtr
    <3>2. pc'[t] = "idle" /\ zcHandle'[t] = b /\ BufSeq'[b] = 0
      BY ZenonT(60), <2>9, <3>1
         DEF ZeroCopyGetPtr, GetBufferFromPool, MayCall, BufferTypes, HeaderTypes
    <3> QED BY Zenon, <2>3, <2>9, <3>2 DEF Sending, Unsent
  <2>10. CASE Broadcast(t)
    <3>1. pc'[t] \notin {"send_alloc", "broadcast"} /\ zcHandle' = zcHandle
      BY Zenon, <2>10 DEF Broadcast, Goto, PipeTypes
    <3>2. ASSUME zcHandle[t] # NULL
          PROVE  zcHandle[t] # tBuf[t]
      <4>1. References(zcHandle[t]) = {<<"owner", t>>} /\ References(tBuf[t]) = {<<"worker", t>>}
        BY Zenon, <2>10, <3>2 DEF Broadcast, SharingInv, SoleOwner, SoleSender
      <4> QED BY Zenon, <4>1, RefTags
    <3>3. zcHandle[t] # NULL => BufSeq'[zcHandle[t]] = 0
      BY Zenon, <2>10, <3>2 DEF Broadcast, Unsent, BufferTypes, HeaderTypes
    <3> QED BY Zenon, <2>3, <2>10, <3>1, <3>3 DEF Sending, Unsent
  <2> QED BY ZenonT(60), <2>1, <2>2, <2>4, <2>5, <2>7, <2>8, <2>9, <2>10 DEF Sending

(***************************************************************************)
(* Every step keeps the invariant                                          *)
(***************************************************************************)
\* Subscriptions, CFE_SB_EnableRouteCmd and CFE_SB_DisableRouteCmd, and the
\* deletion of a pipe keep what is enabled among the destinations.
<1>ActiveStep.
  ASSUME PipeTypes, ActiveInv, NEW t \in Task, Step(t)
  PROVE  ActiveInv'
  <2> USE <1>ActiveStep
  <2>1. CASE UNCHANGED <<Active, Dests>>
    BY Zenon, <2>1 DEF ActiveInv
  <2>2. ASSUME NEW p \in PID, DeletePipeReserve(t, p)
        PROVE  ActiveInv'
    <3>1. /\ Dests' = [m \in MsgId |-> Dests[m] \ {p}]
          /\ Active' = [m \in MsgId |-> Active[m] \ {p}]
      BY Zenon, <2>2 DEF DeletePipeReserve, RoutesWithout
    <3> QED BY Zenon, <3>1 DEF ActiveInv
  <2>3. ASSUME NEW m \in MsgId, NEW p \in PID, Subscribe(t, m, p) \/ Unsubscribe(t, m, p)
        PROVE  ActiveInv'
    <3>1. \/ UNCHANGED <<Active, Dests>>
          \/ /\ Dests' = [Dests EXCEPT ![m] = @ \cup {p}]
             /\ Active' = [Active EXCEPT ![m] = @ \cup {p}]
          \/ /\ Dests' = [Dests EXCEPT ![m] = @ \ {p}]
             /\ Active' = [Active EXCEPT ![m] = @ \ {p}]
      BY Zenon, <2>3 DEF Subscribe, Unsubscribe
    <3>2. CASE /\ Dests' = [Dests EXCEPT ![m] = @ \cup {p}]
               /\ Active' = [Active EXCEPT ![m] = @ \cup {p}]
      BY Zenon, <3>2 DEF ActiveInv, PipeTypes
    <3>3. CASE /\ Dests' = [Dests EXCEPT ![m] = @ \ {p}]
               /\ Active' = [Active EXCEPT ![m] = @ \ {p}]
      BY Zenon, <3>3 DEF ActiveInv, PipeTypes
    <3> QED BY Zenon, <2>1, <3>1, <3>2, <3>3
  <2>4. ASSUME NEW m \in MsgId, NEW p \in PID, NEW on \in BOOLEAN, SetRoute(t, m, p, on)
        PROVE  ActiveInv'
    <3>1. p \in Dests[m] /\ Dests' = Dests
      BY Zenon, <2>4 DEF SetRoute
    <3>2. \/ Active' = [Active EXCEPT ![m] = @ \cup {p}]
          \/ Active' = [Active EXCEPT ![m] = @ \ {p}]
      BY Zenon, <2>4 DEF SetRoute
    <3>3. CASE Active' = [Active EXCEPT ![m] = @ \cup {p}]
      BY Zenon, <3>1, <3>3 DEF ActiveInv
    <3>4. CASE Active' = [Active EXCEPT ![m] = @ \ {p}]
      BY Zenon, <3>1, <3>4 DEF ActiveInv
    <3> QED BY Zenon, <3>2, <3>3, <3>4
  <2>5. CASE \/ CreatePipe(t) \/ CreateQueue(t) \/ CreateFill(t) \/ CreateFail(t)
             \/ DeleteUnref(t) \/ DeleteGet(t) \/ DeleteQueue(t) \/ DeleteFree(t)
             \/ \E p \in PID : ReceiveBuffer(t, p) \/ GetPipeIdByName(t, p)
             \/ \E p \in PID, on \in BOOLEAN : SetPipeOpts(t, p, on)
             \/ \E m \in MsgId : TransmitMsg(t, m) \/ TransmitBuffer(t, m)
    <3>1. UNCHANGED <<Active, Dests>>
      BY ZenonT(60), <2>5
         DEF CreatePipe, CreateQueue, CreateFill, CreateFail, DeleteUnref, DeleteGet, DeleteQueue,
             DeleteFree, ReceiveBuffer, GetPipeIdByName, SetPipeOpts, TransmitMsg, TransmitBuffer,
             routeVars
    <3> QED BY Zenon, <2>1, <3>1
  <2>6. CASE \/ ZeroCopyGetPtr(t) \/ ZeroCopyReleasePtr(t) \/ ExitApp(t)
             \/ \E a \in App : CleanUpApp(t, a)
             \/ ByNameScan(t) \/ ByNameReturn(t) \/ SendAlloc(t) \/ Broadcast(t) \/ SendEvents(t)
             \/ ReceiveGet(t) \/ ReceiveStore(t) \/ CleanUpZeroCopy(t) \/ ReceiveNone(t)
             \/ Refused(t)
    <3>1. UNCHANGED <<Active, Dests>>
      BY Zenon, <2>6
         DEF ZeroCopyGetPtr, ZeroCopyReleasePtr, ExitApp, CleanUpApp, ByNameScan, ByNameReturn,
             SendAlloc, Broadcast, SendEvents, ReceiveGet, ReceiveStore, CleanUpZeroCopy,
             ReceiveNone, Refused, vars, routeVars
    <3> QED BY Zenon, <2>1, <3>1
  <2>7. ASSUME NEW p \in PID \cup {RESERVED}, CleanUpPipe(t, p)
        PROVE  ActiveInv'
    <3>1. CASE DeletePipeReserve(t, p)
      BY Zenon, <2>2, <3>1 DEF DeletePipeReserve, PipeDescIsMatch
    <3>2. CASE UNCHANGED routeVars
      BY Zenon, <2>1, <3>2 DEF routeVars
    <3> QED BY Zenon, <2>7, <3>1, <3>2 DEF CleanUpPipe
  <2>8. CASE \E p \in PID : DeletePipe(t, p)
    BY Zenon, <2>2, <2>8 DEF DeletePipe
  <2> QED
    BY ZenonT(60), <2>3, <2>4, <2>5, <2>6, <2>7, <2>8 DEF Step, Call, Continue

\* A message comes on a queue with the sequence count it was given.
<1>SentStep.
  ASSUME BufferInv, CountsAgree, MessageInv, NEW t \in Task, Step(t), NEW b \in Buf,
         QueuesOf(b)' # {}
  PROVE  Sent(b)'
  <2> USE <1>SentStep
  <2> /\ PipeTypes /\ BufferTypes /\ BufLocal /\ HeaderTypes /\ HeaderTypes' /\ Unsent(t)
      /\ QueuesOf(b) # {} => Sent(b)
    BY Zenon, HeaderTypesStep DEF BufferInv, PipeInv, LocalsInv, MessageInv
  <2>1. PICK q \in PID : \E i \in 1..Len(Queue'[q]) : Queue'[q][i] = b
    BY Zenon DEF QueuesOf
  <2>2. PICK i \in 1..Len(Queue'[q]) : Queue'[q][i] = b
    BY Zenon, <2>1
  <2>3. QueuesOf(b) # {} => BufMsgId'[b] = BufMsgId[b] /\ BufSeq'[b] = BufSeq[b]
    BY Zenon, QueuedKept DEF HeadersKept
  <2>4. CASE Broadcast(t)
    <3>1. /\ tBuf[t] \in Buf /\ BufMsgId[tBuf[t]] \in MsgId /\ BufSeq[tBuf[t]] = 0
          /\ BufMsgId' = BufMsgId
      BY Zenon, <2>4 DEF Broadcast, Unsent, BufferTypes, BufLocal, HasBuffer
    <3>2. \/ UNCHANGED <<SeqCnt, BufSeq>>
          \/ /\ SeqCnt' = [SeqCnt EXCEPT ![BufMsgId[tBuf[t]]] = @ + 1]
             /\ BufSeq' = [BufSeq EXCEPT ![tBuf[t]] = SeqCnt[BufMsgId[tBuf[t]]] + 1]
      BY Zenon, <2>4 DEF Broadcast
    <3>3. CASE b = tBuf[t]
      BY <3>1, <3>2, <3>3 DEF Sent, HeaderTypes
    <3>4. CASE Queue'[q][i] = Queue[q][i] /\ i \in 1..Len(Queue[q])
      <4>1. QueuesOf(b) # {}
        BY Zenon, <2>2, <3>4 DEF QueuesOf
      <4>2. BufMsgId'[b] = BufMsgId[b] /\ BufSeq'[b] = BufSeq[b] /\ Sent(b)
        BY Zenon, <2>3, <4>1
      <4>3. \A m \in MsgId : SeqCnt[m] <= SeqCnt'[m]
        <5> SUFFICES ASSUME NEW m \in MsgId
                     PROVE  SeqCnt[m] <= SeqCnt'[m]
          OBVIOUS
        <5>1. SeqCnt'[m] \in {SeqCnt[m], SeqCnt[m] + 1} /\ SeqCnt[m] \in 0..MaxSeq
          BY Zenon, <3>2 DEF HeaderTypes
        <5> QED BY SMTT(60), <5>1
      <4> QED BY <4>2, <4>3 DEF Sent, HeaderTypes
    <3> QED BY Zenon, <2>2, <2>4, <3>1, <3>3, <3>4, <1>AfterBroadcast
  <2>5. ASSUME QueuesOf(b) # {}, SeqCnt' = SeqCnt
        PROVE  Sent(b)'
    BY Zenon, <2>3, <2>5 DEF Sent
  <2>6. ~ Broadcast(t) => SeqCnt' = SeqCnt
    <3>1. CASE Silent(t)
      BY Zenon, <3>1 DEF Silent
    <3>2. CASE Sending(t)
      BY Zenon, <3>2
         DEF Sending, TransmitMsg, TransmitBuffer, SendAlloc, SendEvents, ZeroCopyGetPtr, routeVars
    <3> QED BY Zenon, <3>1, <3>2, SilentOrSending
  <2>7. CASE ~ Broadcast(t)
    <3>1. CASE UNCHANGED Queue
      BY Zenon, <2>5, <2>6, <2>7, <3>1 DEF QueuesOf
    <3>2. ASSUME NEW r \in PID, Gets(r)
          PROVE  QueuesOf(b) # {}
      BY Zenon, <2>2, <3>2, <1>AfterGet DEF QueuesOf
    <3> QED BY ZenonT(60), <2>5, <2>6, <2>7, <3>1, <3>2, QueueMoves
  <2> QED BY Zenon, <2>4, <2>7

\* Messages keep their order, and one that is broadcast comes last with the
\* highest count.
<1>OrderStep.
  ASSUME BufferInv, CountsAgree, MessageInv, NEW t \in Task, Step(t)
  PROVE  SequenceInOrder'
  <2> USE <1>OrderStep
  <2> /\ PipeTypes /\ BufferTypes /\ BufLocal /\ HeaderTypes /\ Unsent(t) /\ SequenceInOrder
    BY Zenon DEF BufferInv, PipeInv, LocalsInv, MessageInv
  <2> SUFFICES ASSUME NEW q \in PID, NEW i \in 1..Len(Queue'[q]), NEW j \in 1..Len(Queue'[q]),
                      i < j,
                      BufMsgId'[Queue'[q][i]] = BufMsgId'[Queue'[q][j]],
                      BufSeq'[Queue'[q][i]] > 0, BufSeq'[Queue'[q][j]] > 0
               PROVE  BufSeq'[Queue'[q][i]] < BufSeq'[Queue'[q][j]]
    BY Zenon DEF SequenceInOrder
  <2>1. \A k \in 1..Len(Queue[q]) :
          /\ BufMsgId'[Queue[q][k]] = BufMsgId[Queue[q][k]]
          /\ BufSeq'[Queue[q][k]] = BufSeq[Queue[q][k]]
          /\ Queue[q][k] \in Buf /\ Sent(Queue[q][k])
    <3>1. ASSUME NEW k \in 1..Len(Queue[q])
          PROVE  Queue[q][k] \in Buf /\ QueuesOf(Queue[q][k]) # {}
      <4>1. Queue[q] \in Seq(Buf)
        BY Zenon DEF BufferTypes
      <4>2. Queue[q][k] \in Buf
        BY SMTT(60), <4>1
      <4> QED BY Zenon, <4>2 DEF QueuesOf
    <3> QED BY Zenon, <3>1, QueuedKept DEF HeadersKept, MessageInv
  <2>2. ASSUME NEW k \in 1..Len(Queue[q]), NEW l \in 1..Len(Queue[q]), k < l,
               Queue'[q][i] = Queue[q][k], Queue'[q][j] = Queue[q][l]
        PROVE  BufSeq'[Queue'[q][i]] < BufSeq'[Queue'[q][j]]
    <3>1. BufSeq[Queue[q][k]] < BufSeq[Queue[q][l]]
      <4>1. /\ BufMsgId[Queue[q][k]] = BufMsgId[Queue[q][l]]
            /\ BufSeq[Queue[q][k]] > 0 /\ BufSeq[Queue[q][l]] > 0
        BY <2>1, <2>2
      <4> QED BY Zenon, <2>2, <4>1 DEF SequenceInOrder
    <3> QED BY <2>1, <2>2, <3>1
  <2>3. CASE UNCHANGED Queue
    BY Zenon, <2>2, <2>3
  <2>4. ASSUME NEW r \in PID, Gets(r)
        PROVE  BufSeq'[Queue'[q][i]] < BufSeq'[Queue'[q][j]]
    <3>1. PICK d \in [PID -> {0, 1}] :
             \A k \in 1..Len(Queue'[q]) :
                 k + d[q] \in 1..Len(Queue[q]) /\ Queue'[q][k] = Queue[q][k + d[q]]
      BY Zenon, <2>4, <1>AfterGet
    <3>2. i + d[q] < j + d[q]
      BY <3>1
    <3> QED BY Zenon, <2>2, <3>1, <3>2
  <2>5. CASE Broadcast(t)
    <3>1. tBuf[t] \in Buf /\ BufMsgId[tBuf[t]] \in MsgId /\ BufSeq[tBuf[t]] = 0
      BY Zenon, <2>5 DEF Broadcast, Unsent, BufferTypes, BufLocal, HasBuffer
    <3>2. /\ BufMsgId' = BufMsgId
          /\ \/ UNCHANGED BufSeq
             \/ BufSeq' = [BufSeq EXCEPT ![tBuf[t]] = SeqCnt[BufMsgId[tBuf[t]]] + 1]
      BY Zenon, <2>5 DEF Broadcast
    <3>3. BufSeq'[tBuf[t]] > 0 => BufSeq'[tBuf[t]] = SeqCnt[BufMsgId[tBuf[t]]] + 1
      BY <3>1, <3>2 DEF HeaderTypes
    <3>4. \A k \in 1..Len(Queue'[q]) :
               \/ k \in 1..Len(Queue[q]) /\ Queue'[q][k] = Queue[q][k]
               \/ k = Len(Queue[q]) + 1 /\ Queue'[q][k] = tBuf[t]
      BY Zenon, <2>5, <3>1, <1>AfterBroadcast
    <3>5. i \in 1..Len(Queue[q]) /\ Queue'[q][i] = Queue[q][i]
      <4>1. Queue'[q] \in Seq(Buf) /\ Queue[q] \in Seq(Buf)
        <5>1. Queue[q] \in Seq(Buf)
          BY Zenon DEF BufferTypes
        <5>2. Queue'[q] = Queue[q] \/ Queue'[q] = Append(Queue[q], tBuf[t])
          BY Zenon, <2>5 DEF Broadcast
        <5>3. Append(Queue[q], tBuf[t]) \in Seq(Buf)
          BY <3>1, <5>1
        <5> QED BY Zenon, <5>1, <5>2, <5>3
      <4>2. Len(Queue'[q]) \in Nat /\ Len(Queue[q]) \in Nat
        BY <4>1
      <4>3. i # Len(Queue[q]) + 1
        BY <3>4, <4>2
      <4> QED BY Zenon, <3>4, <4>3
    <3>6. CASE j \in 1..Len(Queue[q]) /\ Queue'[q][j] = Queue[q][j]
      BY ZenonT(60), <2>2, <3>5, <3>6
    <3>7. CASE Queue'[q][j] = tBuf[t]
      <4>1. /\ BufSeq'[tBuf[t]] = SeqCnt[BufMsgId[tBuf[t]]] + 1
            /\ BufMsgId[Queue[q][i]] = BufMsgId[tBuf[t]]
        BY Zenon, <3>2, <3>3, <3>5, <3>7
      <4>2. BufSeq[Queue[q][i]] <= SeqCnt[BufMsgId[tBuf[t]]]
        BY ZenonT(60), <2>1, <3>5, <4>1 DEF Sent
      <4>3. BufSeq'[Queue'[q][i]] = BufSeq[Queue[q][i]] /\ Queue[q][i] \in Buf
        <5>1. Queue[q][i] \in Buf /\ BufSeq'[Queue[q][i]] = BufSeq[Queue[q][i]]
          BY Zenon, <2>1, <3>5
        <5> QED BY Zenon, <3>5, <5>1
      <4> QED BY SMTT(60), <3>1, <3>7, <4>1, <4>2, <4>3 DEF HeaderTypes
    <3> QED BY Zenon, <3>4, <3>6, <3>7
  <2> QED BY Zenon, <2>3, <2>4, <2>5, QueueMoves

\* OS_QueueCreate makes an empty queue, and only pipes that exist get messages.
<1>NewEmptyStep.
  ASSUME BufferInv, NEW t \in Task, Step(t), NEW u \in Task, NewEmpty(u)
  PROVE  NewEmpty(u)'
  <2> USE <1>NewEmptyStep
  <2> PipeTypes /\ BufferTypes /\ SlotsOK /\ Reserved
    BY Zenon DEF BufferInv, PipeInv, LocalsInv
  <2> SUFFICES ASSUME pc'[u] = "create_fill"
               PROVE  Queue'[tPipe'[u]] = <<>>
    BY Zenon DEF NewEmpty
  <2>1. CASE CreateQueue(t) /\ u = t
    <3>1. tPipe[t] \in PID /\ tPipe' = tPipe
      BY Zenon, <2>1 DEF CreateQueue, Reserved, ReservedBy, PipeWork, Creating
    <3>2. Queue' = [Queue EXCEPT ![tPipe[t]] = <<>>]
      BY Zenon, <2>1 DEF CreateQueue, Goto, PipeTypes
    <3> QED BY Zenon, <2>1, <3>1, <3>2 DEF BufferTypes
  <2>2. CASE pc[u] = "create_fill" /\ tPipe'[u] = tPipe[u]
    <3>1. tPipe[u] \in PID /\ PipeId[SlotOf(tPipe[u])] = RESERVED /\ Queue[tPipe[u]] = <<>>
      BY Zenon, <2>2 DEF Reserved, ReservedBy, PipeWork, Creating, NewEmpty
    <3>2. CASE Broadcast(t)
      <4>1. \A p : PipeDescIsMatch(p) => SysQueueId[SlotOf(p)] = p /\ p # tPipe[u]
        BY Zenon, <3>1, SlotOfInTable, PseudoIds DEF PipeDescIsMatch, SlotsOK
      <4>2. \A m : tPipe[u] \notin {SysQueueId[SlotOf(p)] : p \in Accepting(t, m)}
        BY Zenon, <4>1 DEF Accepting, Eligible
      <4>3. Queue'[tPipe[u]] = Queue[tPipe[u]]
        BY Zenon, <3>1, <3>2, <4>2 DEF Broadcast
      <4> QED BY Zenon, <2>2, <3>1, <4>3
    <3>3. ASSUME NEW q \in PID, Gets(q)
          PROVE  Queue'[tPipe[u]] = <<>>
      BY Zenon, <3>1, <3>3 DEF Gets, BufferTypes
    <3> QED BY Zenon, <2>2, <3>1, <3>2, <3>3, QueueMoves
  <2>3. CASE Quiet(t)
    <3>1. pc'[t] # "create_fill"
      BY Zenon, <2>3 DEF Quiet, PipeWork, Creating, Draining
    <3> QED BY Zenon, <2>2, <2>3, <3>1 DEF Quiet
  <2>4. CASE PipeStep(t)
    <3>1. CASE CreatePipe(t) \/ CreateFill(t) \/ CreateFail(t) \/ DeleteQueue(t) \/ DeleteFree(t)
      BY Zenon, <2>2, <3>1
         DEF CreatePipe, CreateFill, CreateFail, DeleteQueue, DeleteFree, Goto, Return, PipeTypes
    <3>2. CASE CreateQueue(t)
      BY Zenon, <2>1, <2>2, <3>2 DEF CreateQueue, Goto, PipeTypes
    <3>3. CASE Reserving(t)
      BY ZenonT(60), <2>2, <3>3 DEF Reserving, DeletePipeReserve, FirstDrainStep, Goto, PipeTypes
    <3>4. CASE \E m \in MsgId, p \in PID : Subscribe(t, m, p) \/ Unsubscribe(t, m, p)
      BY Zenon, <2>2, <3>4 DEF Subscribe, Unsubscribe, taskVars
    <3> QED BY Zenon, <2>4, <3>1, <3>2, <3>3, <3>4 DEF PipeStep
  <2> QED BY Zenon, <2>3, <2>4, TwoKinds

<1> SUFFICES ASSUME BufferInv, CountsAgree, MessageInv, NEW t \in Task, Step(t)
             PROVE  MessageInv'
  BY Zenon
<1>1. PipeTypes
  BY Zenon DEF BufferInv, PipeInv
<1> QED BY Zenon, <1>1, HeaderTypesStep, <1>UnsentStep, <1>NewEmptyStep, <1>ActiveStep, <1>SentStep, <1>OrderStep
           DEF MessageInv

\* It holds at the start.
LEMMA MessageInit == Init => MessageInv
<1> SUFFICES ASSUME Init
             PROVE  MessageInv
  OBVIOUS
<1>1. HeaderTypes
  BY SBAssumption DEF Init, HeaderTypes
<1>2. ActiveInv
  BY Zenon DEF Init, ActiveInv
<1>3. ASSUME NEW t \in Task
      PROVE  Unsent(t) /\ NewEmpty(t)
  BY Zenon DEF Init, Unsent, NewEmpty
<1>4. \A q \in PID : 1..Len(Queue[q]) = {}
  BY DEF Init
<1>5. \A b \in Buf : QueuesOf(b) = {}
  BY Zenon, <1>4 DEF QueuesOf
<1>6. SequenceInOrder
  BY Zenon, <1>4 DEF SequenceInOrder
<1> QED BY Zenon, <1>1, <1>2, <1>3, <1>5, <1>6 DEF MessageInv

-----------------------------------------------------------------------------
(***************************************************************************)
(* The life of a pipe as MessageBus sees it                                *)
(***************************************************************************)
\* Creating and deleting pipes, and subscribing, move no message.
LEMMA PipeStepQueues ==
  ASSUME BufferInv, NEW t \in Task, PipeStep(t)
  PROVE  UNCHANGED Queue
<1> PipeTypes /\ BufferTypes
  BY Zenon DEF BufferInv, PipeInv, LocalsInv
<1>1. CASE CreateQueue(t)
  <2>1. tPipe[t] \in PID \ QLive
    BY Zenon, <1>1 DEF CreateQueue, BufferInv, PipeInv, Reserved, ReservedBy, PipeWork, Creating
  <2>2. Queue[tPipe[t]] = <<>>
    BY Zenon, <2>1 DEF BufferInv, LocalsInv, EmptyQueues
  <2>3. Queue' = Queue \/ Queue' = [Queue EXCEPT ![tPipe[t]] = <<>>]
    BY Zenon, <1>1 DEF CreateQueue, osVars
  <2>4. [Queue EXCEPT ![tPipe[t]] = <<>>] = Queue
    BY Zenon, <2>1, <2>2 DEF BufferTypes
  <2> QED BY ZenonT(60), <2>3, <2>4
<1>2. CASE ~ CreateQueue(t)
  BY Zenon, <1>2
     DEF PipeStep, CreatePipe, CreateFill, CreateFail, Reserving, DeletePipeReserve,
         DeleteQueue, DeleteFree, Subscribe, Unsubscribe, osVars
<1> QED BY Zenon, <1>1, <1>2

\* Every step of the bus is one of MessageBus, or does not show.
LEMMA BusStep ==
  \A t \in Task :
    BufferInv /\ CountsAgree /\ MessageInv /\ PipeInv' /\ Step(t)
      => Bus!BusNext \/ UNCHANGED <<OpenPipes, ClosedPipes, Dests, Inbox>>
(***************************************************************************)
(* The pipes as MessageBus sees them                                       *)
(***************************************************************************)
\* The queues and the messages on them stay.
<1>SameInbox.
  ASSUME BufferTypes, HeadersKept, NEW q \in PID, Queue'[q] = Queue[q]
  PROVE  Inbox'[q] = Inbox[q]
  <2> USE <1>SameInbox
  <2>1. ASSUME NEW i \in 1..Len(Queue[q])
        PROVE  Header(Queue[q][i])' = Header(Queue[q][i])
    <3>1. Queue[q][i] \in Buf
      <4>1. Queue[q] \in Seq(Buf)
        BY Zenon DEF BufferTypes
      <4> QED BY <4>1
    <3>2. QueuesOf(Queue[q][i]) # {}
      BY Zenon DEF QueuesOf
    <3>3. /\ BufMsgId'[Queue[q][i]] = BufMsgId[Queue[q][i]]
          /\ BufSeq'[Queue[q][i]] = BufSeq[Queue[q][i]]
      BY Zenon, <3>1, <3>2 DEF HeadersKept
    <3>4. Queue'[q][i] = Queue[q][i]
      BY Zenon
    <3> QED BY Zenon, <3>3, <3>4 DEF Header
  <2> QED BY Zenon, <2>1 DEF Inbox, Header

\* No queue changes, so no inbox does.
<1>SameInboxes.
  ASSUME BufferTypes, HeadersKept, UNCHANGED Queue
  PROVE  Inbox' = Inbox
  <2> USE <1>SameInboxes
  <2>1. \A q \in PID : Inbox'[q] = Inbox[q]
    BY Zenon, <1>SameInbox
  <2> QED BY Zenon, <2>1 DEF Inbox

\* OS_QueueGet takes the oldest message.
<1>InboxTaken.
  ASSUME BufferTypes, HeadersKept, NEW q \in PID, Gets(q)
  PROVE  Inbox[q] # <<>> /\ Inbox' = [Inbox EXCEPT ![q] = Tail(@)]
  <2> USE <1>InboxTaken
  <2>1. Queue[q] \in Seq(Buf) /\ Queue[q] # <<>> /\ Queue'[q] = Tail(Queue[q])
    BY Zenon DEF BufferTypes, Gets
  <2> DEFINE n == Len(Queue[q])
  <2>2. n \in Nat /\ n > 0 /\ Len(Queue'[q]) = n - 1
    BY <2>1
  <2>3. /\ Inbox[q] = [i \in 1..n |-> Header(Queue[q][i])]
        /\ Inbox'[q] = [i \in 1..(n - 1) |-> <<BufMsgId'[Queue'[q][i]], BufSeq'[Queue'[q][i]]>>]
    BY Zenon, <2>2 DEF Inbox, Header
  <2>4. \A i \in 1..(n - 1) : /\ i + 1 \in 1..n
                              /\ Queue'[q][i] = Queue[q][i + 1] /\ Queue[q][i + 1] \in Buf
    BY SMTT(60), <2>1, <2>2
  <2>5. \A i \in 1..(n - 1) :
          <<BufMsgId'[Queue'[q][i]], BufSeq'[Queue'[q][i]]>> = Header(Queue[q][i + 1])
    <3> SUFFICES ASSUME NEW i \in 1..(n - 1)
                 PROVE  <<BufMsgId'[Queue'[q][i]], BufSeq'[Queue'[q][i]]>> = Header(Queue[q][i + 1])
      OBVIOUS
    <3> HIDE DEF n
    <3>1. Queue[q][i + 1] \in Buf /\ Queue'[q][i] = Queue[q][i + 1]
      BY Zenon, <2>4
    <3>2. QueuesOf(Queue[q][i + 1]) # {}
      BY Zenon, <2>4 DEF QueuesOf, n
    <3>3. /\ BufMsgId'[Queue[q][i + 1]] = BufMsgId[Queue[q][i + 1]]
          /\ BufSeq'[Queue[q][i + 1]] = BufSeq[Queue[q][i + 1]]
      BY Zenon, <3>1, <3>2 DEF HeadersKept
    <3> QED BY SMTT(60), <3>1, <3>3 DEF Header
  <2>6. Tail(Inbox[q]) = [i \in 1..(n - 1) |-> Inbox[q][i + 1]] /\ Inbox[q] # <<>>
    <3> DEFINE H == [i \in 1..n |-> Header(Queue[q][i])]
    <3> HIDE DEF n
    <3>1. Len(H) = n /\ H # <<>>
      BY <2>2
    <3>2. Tail(H) = [i \in 1..(n - 1) |-> H[i + 1]]
      BY <2>2, <3>1
    <3>3. Inbox[q] = H
      BY Zenon, <2>3
    <3> HIDE DEF H
    <3> QED BY SMTT(60), <3>1, <3>2, <3>3
  <2>7. Inbox'[q] = Tail(Inbox[q])
    <3> HIDE DEF n
    <3>1. \A i \in 1..(n - 1) : Inbox[q][i + 1] = Header(Queue[q][i + 1])
      BY Zenon, <2>3, <2>4
    <3>2. Tail(Inbox[q]) = [i \in 1..(n - 1) |-> Header(Queue[q][i + 1])]
      BY Zenon, <2>6, <3>1
    <3>3. Inbox'[q] = [i \in 1..(n - 1) |-> Header(Queue[q][i + 1])]
      BY Zenon, <2>3, <2>5
    <3> QED BY Zenon, <3>2, <3>3
  <2>8. \A r \in PID \ {q} : Inbox'[r] = Inbox[r]
    BY Zenon, <1>SameInbox DEF Gets, BufferTypes
  <2> QED BY Zenon, <2>6, <2>7, <2>8 DEF Inbox

\* A message comes behind those a pipe holds.
<1>InboxAppended.
  ASSUME BufferTypes, HeadersKept, NEW q \in PID, NEW b, Queue'[q] = Append(Queue[q], b)
  PROVE  Inbox'[q] = Append(Inbox[q], <<BufMsgId'[b], BufSeq'[b]>>)
  <2> USE <1>InboxAppended
  <2> DEFINE n == Len(Queue[q])
  <2>1. Queue[q] \in Seq(Buf)
    BY Zenon DEF BufferTypes
  <2>2. n \in Nat /\ Len(Queue'[q]) = n + 1
    BY <2>1
  <2>3. /\ Queue'[q][n + 1] = b
        /\ \A i \in 1..n : Queue'[q][i] = Queue[q][i] /\ Queue[q][i] \in Buf
    BY <2>1
  <2> HIDE DEF n
  <2>4. /\ Inbox[q] = [i \in 1..n |-> Header(Queue[q][i])]
        /\ Inbox'[q] = [i \in 1..(n + 1) |-> <<BufMsgId'[Queue'[q][i]], BufSeq'[Queue'[q][i]]>>]
    BY Zenon, <2>2 DEF Inbox, Header, n
  <2>5. \A i \in 1..n : <<BufMsgId'[Queue'[q][i]], BufSeq'[Queue'[q][i]]>> = Header(Queue[q][i])
    <3> SUFFICES ASSUME NEW i \in 1..n
                 PROVE  <<BufMsgId'[Queue'[q][i]], BufSeq'[Queue'[q][i]]>> = Header(Queue[q][i])
      BY Zenon
    <3>1. Queue[q][i] \in Buf /\ Queue'[q][i] = Queue[q][i]
      BY Zenon, <2>3
    <3>2. QueuesOf(Queue[q][i]) # {}
      BY Zenon DEF QueuesOf, n
    <3>3. BufMsgId'[Queue[q][i]] = BufMsgId[Queue[q][i]] /\ BufSeq'[Queue[q][i]] = BufSeq[Queue[q][i]]
      BY Zenon, <3>1, <3>2 DEF HeadersKept
    <3> QED BY SMTT(60), <3>1, <3>3 DEF Header
  <2> DEFINE h == <<BufMsgId'[b], BufSeq'[b]>>
             H == [i \in 1..n |-> Header(Queue[q][i])]
  <2>6. Append(H, h) = [i \in 1..(n + 1) |-> IF i = n + 1 THEN h ELSE H[i]]
    <3> HIDE DEF h
    <3>1. Len(H) = n
      BY <2>2
    <3> QED BY SMTT(60), <2>2, <3>1
  <2>7. \A i \in 1..(n + 1) : i # n + 1 => i \in 1..n
    BY <2>2
  <2>8. \A i \in 1..(n + 1) :
          <<BufMsgId'[Queue'[q][i]], BufSeq'[Queue'[q][i]]>> = IF i = n + 1 THEN h ELSE H[i]
    BY Zenon, <2>3, <2>5, <2>7
  <2> QED BY Zenon, <2>4, <2>6, <2>8

\* The pipe IDs stay as they are when the descriptors do and no creation
\* starts or ends.
<1>SamePipes.
  ASSUME \A r \in PID : PipeDescIsMatch(r)' <=> PipeDescIsMatch(r),
         LastPipeId' = LastPipeId, PipeTypes, PipeTypes',
         \A u \in Task : \/ pc[u] \notin Creating /\ pc'[u] \notin Creating
                        \/ /\ pc[u] \in Creating /\ pc'[u] \in Creating
                           /\ tPipe'[u] = tPipe[u]
  PROVE  OpenPipes' = OpenPipes /\ ClosedPipes' = ClosedPipes
  <2> USE <1>SamePipes
  <2>1. \A r : BeingCreated(r)' <=> BeingCreated(r)
    BY Zenon DEF BeingCreated, Creating
  <2>2. OpenPipes' = OpenPipes
    BY Zenon DEF OpenPipes
  <2>3. ClosedPipes' = ClosedPipes
    <3>1. 1..LastPipeId \subseteq PID
      BY SBAssumption DEF PipeTypes, PID
    <3> QED BY Zenon, <2>1, <3>1 DEF ClosedPipes
  <2> QED BY Zenon, <2>2, <2>3

\* Steps that have nothing to do with the life of a pipe.
<1>QuietPipes.
  ASSUME PipeInv, NEW t \in Task, Quiet(t)
  PROVE  OpenPipes' = OpenPipes /\ ClosedPipes' = ClosedPipes
  <2> USE <1>QuietPipes
  <2>1. PipeTypes /\ PipeTypes'
    BY Zenon, QuietStep DEF PipeInv
  <2>2. \A r \in PID : PipeDescIsMatch(r)' <=> PipeDescIsMatch(r)
    BY Zenon DEF Quiet, PipeDescIsMatch
  <2>3. \A u \in Task : \/ pc[u] \notin Creating /\ pc'[u] \notin Creating
                        \/ /\ pc[u] \in Creating /\ pc'[u] \in Creating
                           /\ tPipe'[u] = tPipe[u]
    BY Zenon DEF Quiet, PipeWork, Creating, Draining
  <2> QED BY ZenonT(60), <2>1, <2>2, <2>3, <1>SamePipes DEF Quiet

\* A broadcast publishes the message to the pipes that accept it.
<1>BroadcastPublishes.
  ASSUME BufferInv, HeaderTypes, HeaderTypes', ActiveInv, HeadersKept,
         NEW t \in Task, Unsent(t), Broadcast(t)
  PROVE  \E m \in MsgId, s \in 0..MaxSeq, P \in SUBSET PID :
           /\ P \subseteq Dests[m]
           /\ \A p \in P : Len(Inbox[p]) < QueueDepth
           /\ Inbox' = [p \in PID |-> IF p \in P THEN Append(Inbox[p], <<m, s>>) ELSE Inbox[p]]
  <2> USE <1>BroadcastPublishes
  <2> PipeTypes /\ BufferTypes /\ BufLocal /\ SlotsOK
    BY Zenon DEF BufferInv, PipeInv, LocalsInv
  <2> DEFINE b == tBuf[t]
             m == BufMsgId[b]
             P == IF tRoute[t] THEN Accepting(t, m) ELSE {}
  <2>1. b \in Buf /\ m \in MsgId /\ BufMsgId' = BufMsgId
    BY Zenon DEF Broadcast, Unsent, BufferTypes, BufLocal, HasBuffer
  <2>2. BufSeq'[b] \in 0..MaxSeq
    BY Zenon, <2>1 DEF HeaderTypes
  <2>3. \A p \in P : /\ p \in PID /\ p \in Active[m] /\ SysQueueId[SlotOf(p)] = p
                     /\ Len(Queue[p]) < QueueDepth
    <3>1. \A p : PipeDescIsMatch(p) => p \in PID /\ SysQueueId[SlotOf(p)] = p
      BY Zenon, SlotOfInTable DEF PipeDescIsMatch, SlotsOK
    <3> QED BY Zenon, <3>1 DEF Accepting, Eligible
  <2>4. Queue' = [q \in PID |-> IF q \in {SysQueueId[SlotOf(p)] : p \in P}
                                THEN Append(Queue[q], b) ELSE Queue[q]]
    BY Zenon DEF Broadcast
  <2> HIDE DEF P
  <2>5. {SysQueueId[SlotOf(p)] : p \in P} = P
    BY Zenon, <2>3
  <2>6. \A p \in P : Len(Inbox[p]) < QueueDepth
    <3> SUFFICES ASSUME NEW p \in P
                 PROVE  Len(Inbox[p]) < QueueDepth
      OBVIOUS
    <3>1. Queue[p] \in Seq(Buf) /\ Len(Queue[p]) < QueueDepth
      BY Zenon, <2>3 DEF BufferTypes
    <3>2. Inbox[p] = [i \in 1..Len(Queue[p]) |-> Header(Queue[p][i])]
      BY Zenon, <2>3 DEF Inbox
    <3>3. Len(Inbox[p]) = Len(Queue[p])
      BY <3>1, <3>2
    <3> QED BY Zenon, <3>1, <3>3
  <2>7. ASSUME NEW p \in PID
        PROVE  Inbox'[p] = IF p \in P THEN Append(Inbox[p], <<m, BufSeq'[b]>>) ELSE Inbox[p]
    <3>1. CASE p \in P
      <4>1. Queue'[p] = Append(Queue[p], b)
        BY ZenonT(60), <2>4, <2>5, <3>1
      <4>2. Inbox'[p] = Append(Inbox[p], <<BufMsgId'[b], BufSeq'[b]>>)
        BY Zenon, <4>1, <1>InboxAppended
      <4> QED BY Zenon, <2>1, <3>1, <4>2
    <3>2. CASE p \notin P
      <4>1. Queue'[p] = Queue[p]
        BY Zenon, <2>4, <2>5, <3>2
      <4> QED BY Zenon, <3>2, <4>1, <1>SameInbox
    <3> QED BY Zenon, <3>1, <3>2
  <2>8. Inbox' = [p \in PID |-> IF p \in P THEN Append(Inbox[p], <<m, BufSeq'[b]>>) ELSE Inbox[p]]
    BY Zenon, <2>7 DEF Inbox
  <2>9. P \in SUBSET PID /\ P \subseteq Dests[m]
    BY Zenon, <2>1, <2>3 DEF ActiveInv
  <2> HIDE DEF m, b
  <2> QED BY ZenonT(60), <2>1, <2>2, <2>6, <2>8, <2>9

\* CFE_SB_CreatePipe passes over the IDs between the last one and its own.
<1>CreatePipeRetires.
  ASSUME PipeInv, PipeInv', NEW t \in Task, CreatePipe(t)
  PROVE  \E P \in SUBSET PID : /\ P \cap OpenPipes = {}
                               /\ ClosedPipes' = ClosedPipes \cup P
                               /\ UNCHANGED <<OpenPipes, Dests>>
  <2> USE <1>CreatePipeRetires
  <2> PipeTypes /\ PipeTypes' /\ SlotsOK /\ Reserved
    BY Zenon DEF PipeInv
  <2>1. PICK p \in NextPipeId \cap PID :
          /\ PipeId' = [PipeId EXCEPT ![SlotOf(p)] = RESERVED]
          /\ LastPipeId' = p
          /\ tPipe' = [tPipe EXCEPT ![t] = p]
    BY ZenonT(60) DEF CreatePipe
  <2>2. /\ p > LastPipeId /\ PipeId[SlotOf(p)] = FREE /\ p \in 0..MaxPipeId
        /\ p \in PID /\ SlotOf(p) \in Slot
    BY Zenon, NextPipeIdFresh, SlotOfInTable
  <2>3. pc[t] = "idle" /\ pc' = [pc EXCEPT ![t] = "create_queue"] /\ UNCHANGED Dests
    BY Zenon DEF CreatePipe, MayCall, Goto, routeVars
  <2>4. \A r : PipeDescIsMatch(r)' <=> PipeDescIsMatch(r)
    BY Zenon, <2>1, <2>2, SlotOfInTable, PseudoIds DEF PipeDescIsMatch, PipeTypes
  <2>5. \A r : BeingCreated(r)' <=> BeingCreated(r) \/ r = p
    <3>1. pc'[t] = "create_queue" /\ tPipe'[t] = p
      BY Zenon, <2>1, <2>3 DEF PipeTypes
    <3>2. \A u \in Task \ {t} : pc'[u] = pc[u] /\ tPipe'[u] = tPipe[u]
      BY Zenon, <2>1, <2>3 DEF PipeTypes
    <3> QED BY Zenon, <2>3, <3>1, <3>2 DEF BeingCreated
  <2>6. \A r \in PID : PipeDescIsMatch(r) \/ BeingCreated(r) => r <= LastPipeId
    BY Zenon, SlotOfInTable
       DEF PipeDescIsMatch, BeingCreated, SlotsOK, Reserved, ReservedBy, PipeWork, Creating
  <2> DEFINE P == {r \in PID : LastPipeId < r /\ r < p}
  <2>7. P \cap OpenPipes = {}
    <3>1. \A r \in P : ~ (r <= LastPipeId)
      BY DEF PipeTypes, PID
    <3> QED BY Zenon, <2>6, <3>1 DEF OpenPipes
  <2>8. ClosedPipes' = ClosedPipes \cup P
    <3>1. \A r : r \in ClosedPipes' <=> r \in 1..p /\ ~ PipeDescIsMatch(r) /\ ~ BeingCreated(r) /\ r # p
      BY Zenon, <2>1, <2>4, <2>5 DEF ClosedPipes
    <3>2. \A r : r \in ClosedPipes <=> r \in 1..LastPipeId /\ ~ PipeDescIsMatch(r) /\ ~ BeingCreated(r)
      BY Zenon DEF ClosedPipes
    <3>3. /\ \A r : r \in 1..p <=> r \in 1..LastPipeId \/ r \in P \/ r = p
          /\ p \notin 1..LastPipeId /\ p \notin P /\ \A r \in P : ~ (r <= LastPipeId)
      <4>1. p \in Nat /\ LastPipeId \in Nat /\ LastPipeId < p /\ p <= MaxPipeId /\ MaxPipeId \in Nat
        BY SMTT(60), <2>2, SBAssumption DEF PipeTypes, PID
      <4>2. ASSUME NEW r
            PROVE  r \in 1..p <=> r \in 1..LastPipeId \/ r \in P \/ r = p
        <5>1. r \in P <=> r \in Nat /\ LastPipeId < r /\ r < p
          BY <4>1 DEF PID
        <5> HIDE DEF P
        <5> QED BY SMTT(60), <4>1, <5>1
      <4>3. p \notin 1..LastPipeId /\ p \notin P /\ \A r \in P : ~ (r <= LastPipeId)
        BY <4>1 DEF PID
      <4> QED BY ZenonT(60), <4>2, <4>3
    <3>4. \A r \in P : ~ PipeDescIsMatch(r) /\ ~ BeingCreated(r)
      BY Zenon, <2>6, <3>3
    <3> HIDE DEF P
    <3> QED BY ZenonT(60), <3>1, <3>2, <3>3, <3>4
  <2>9. OpenPipes' = OpenPipes
    BY Zenon, <2>4 DEF OpenPipes
  <2>10. P \in SUBSET PID
    BY Zenon
  <2> HIDE DEF P
  <2> QED BY ZenonT(60), <2>3, <2>7, <2>8, <2>9, <2>10

\* The second locked section of CFE_SB_CreatePipe: the pipe exists.
<1>CreateFillOpens.
  ASSUME PipeInv, PipeInv', NEW t \in Task, NewEmpty(t), CreateFill(t)
  PROVE  \E p \in PID : /\ p \notin OpenPipes \cup ClosedPipes
                        /\ OpenPipes' = OpenPipes \cup {p}
                        /\ Inbox[p] = <<>>
                        /\ UNCHANGED <<ClosedPipes, Dests>>
  <2> USE <1>CreateFillOpens
  <2> PipeTypes /\ PipeTypes' /\ SlotsOK /\ Reserved
    BY Zenon DEF PipeInv
  <2> DEFINE p == tPipe[t]
  <2>1. pc[t] = "create_fill" /\ p \in PID /\ PipeId[SlotOf(p)] = RESERVED /\ SlotOf(p) \in Slot
    BY Zenon, SlotOfInTable DEF CreateFill, Reserved, ReservedBy, PipeWork, Creating
  <2>2. /\ PipeId' = [PipeId EXCEPT ![SlotOf(p)] = p]
        /\ pc' = [pc EXCEPT ![t] = "idle"]
        /\ tPipe' = [tPipe EXCEPT ![t] = FREE]
        /\ UNCHANGED <<LastPipeId, Dests>>
    BY Zenon DEF CreateFill, Return, Goto, routeVars
  <2>3. BeingCreated(p) /\ ~ PipeDescIsMatch(p)
    BY Zenon, <2>1, PseudoIds DEF BeingCreated, PipeDescIsMatch
  <2>4. \A r : PipeDescIsMatch(r)' <=> PipeDescIsMatch(r) \/ r = p
    <3> HIDE DEF p
    <3> QED BY ZenonT(60), <2>1, <2>2, SlotOfInTable, PseudoIds DEF PipeDescIsMatch, PipeTypes
  <2>5. \A r : r # p => (BeingCreated(r)' <=> BeingCreated(r))
    <3>1. pc'[t] = "idle" /\ \A u \in Task \ {t} : pc'[u] = pc[u] /\ tPipe'[u] = tPipe[u]
      BY Zenon, <2>2 DEF PipeTypes
    <3> QED BY Zenon, <3>1 DEF BeingCreated
  <2>6. Inbox[p] = <<>>
    <3>1. Queue[p] = <<>>
      BY Zenon, <2>1 DEF NewEmpty
    <3>2. Inbox[p] = [i \in 1..Len(Queue[p]) |-> Header(Queue[p][i])]
      BY Zenon, <2>1 DEF Inbox
    <3> QED BY <3>1, <3>2
  <2> HIDE DEF p
  <2>7. p \notin OpenPipes \cup ClosedPipes
    BY Zenon, <2>3 DEF OpenPipes, ClosedPipes
  <2>8. OpenPipes' = OpenPipes \cup {p}
    BY Zenon, <2>1, <2>4 DEF OpenPipes
  <2>9. ClosedPipes' = ClosedPipes
    BY ZenonT(60), <2>2, <2>3, <2>4, <2>5 DEF ClosedPipes
  <2> QED BY ZenonT(60), <2>1, <2>2, <2>6, <2>7, <2>8, <2>9

\* OS_QueueCreate failed: the ID is used up.
<1>CreateFailRetires.
  ASSUME PipeInv, PipeInv', NEW t \in Task, CreateFail(t)
  PROVE  \E P \in SUBSET PID : /\ P \cap OpenPipes = {}
                               /\ ClosedPipes' = ClosedPipes \cup P
                               /\ UNCHANGED <<OpenPipes, Dests>>
  <2> USE <1>CreateFailRetires
  <2> PipeTypes /\ PipeTypes' /\ SlotsOK /\ Reserved /\ OneReserver
    BY Zenon DEF PipeInv
  <2> DEFINE p == tPipe[t]
  <2>1. /\ pc[t] = "create_fail" /\ p \in PID /\ p <= LastPipeId
        /\ PipeId[SlotOf(p)] = RESERVED /\ SlotOf(p) \in Slot
    BY Zenon, SlotOfInTable DEF CreateFail, Reserved, ReservedBy, PipeWork, Creating
  <2>2. /\ PipeId' = [PipeId EXCEPT ![SlotOf(p)] = FREE]
        /\ pc' = [pc EXCEPT ![t] = "idle"]
        /\ tPipe' = [tPipe EXCEPT ![t] = FREE]
        /\ UNCHANGED <<LastPipeId, Dests>>
    BY Zenon DEF CreateFail, Return, Goto, routeVars
  <2>3. pc'[t] = "idle" /\ \A u \in Task \ {t} : pc'[u] = pc[u] /\ tPipe'[u] = tPipe[u]
    BY Zenon, <2>2 DEF PipeTypes
  <2>4. \A r : r = p => ~ BeingCreated(r)'
    BY Zenon, <2>1, <2>3 DEF BeingCreated, OneReserver, PipeWork, Creating
  <2>5. \A r : r # p => (BeingCreated(r)' <=> BeingCreated(r))
    BY Zenon, <2>3 DEF BeingCreated
  <2> HIDE DEF p
  <2>6. \A r : PipeDescIsMatch(r)' <=> PipeDescIsMatch(r)
    BY ZenonT(60), <2>1, <2>2, SlotOfInTable, PseudoIds DEF PipeDescIsMatch, PipeTypes
  <2>7. ~ PipeDescIsMatch(p) /\ p \in 1..LastPipeId
    <3>1. ~ PipeDescIsMatch(p)
      BY Zenon, <2>1, PseudoIds DEF PipeDescIsMatch
    <3>2. p \in 1..LastPipeId
      BY SMTT(60), <2>1 DEF PID, PipeTypes
    <3> QED BY Zenon, <3>1, <3>2
  <2>8. OpenPipes' = OpenPipes /\ {p} \cap OpenPipes = {}
    BY Zenon, <2>6, <2>7 DEF OpenPipes
  <2>9. ClosedPipes' = ClosedPipes \cup {p}
    BY ZenonT(60), <2>2, <2>4, <2>5, <2>6, <2>7 DEF ClosedPipes
  <2> QED BY ZenonT(60), <2>1, <2>2, <2>8, <2>9

\* CFE_SB_DeletePipeFull invalidates the pipe ID and removes the pipe from
\* every route in one locked section.
<1>ReservingCloses.
  ASSUME PipeInv, PipeInv', NEW t \in Task, Reserving(t)
  PROVE  \E p \in PID : /\ p \in OpenPipes
                        /\ OpenPipes' = OpenPipes \ {p}
                        /\ ClosedPipes' = ClosedPipes \cup {p}
                        /\ Dests' = [m \in MsgId |-> Dests[m] \ {p}]
  <2> USE <1>ReservingCloses
  <2> PipeTypes /\ PipeTypes' /\ SlotsOK /\ Reserved
    BY Zenon DEF PipeInv
  <2>1. PICK p \in PID : pc[t] \in {"idle", "cleanup"} /\ DeletePipeReserve(t, p)
    BY Zenon DEF Reserving
  <2>2. /\ PipeDescIsMatch(p)
        /\ PipeId' = [PipeId EXCEPT ![SlotOf(p)] = RESERVED]
        /\ Dests' = [m \in MsgId |-> Dests[m] \ {p}]
        /\ pc' = [pc EXCEPT ![t] = FirstDrainStep(p)]
        /\ tPipe' = [tPipe EXCEPT ![t] = p]
        /\ UNCHANGED LastPipeId
    BY Zenon, <2>1 DEF DeletePipeReserve, RoutesWithout, Goto
  <2>3. SlotOf(p) \in Slot /\ PipeId[SlotOf(p)] = p /\ p <= LastPipeId
    BY Zenon, <2>2, SlotOfInTable DEF PipeDescIsMatch, SlotsOK
  <2>4. /\ pc'[t] \notin Creating /\ pc[t] \notin Creating
        /\ \A u \in Task \ {t} : pc'[u] = pc[u] /\ tPipe'[u] = tPipe[u]
    BY Zenon, <2>1, <2>2 DEF PipeTypes, Creating, FirstDrainStep
  <2>5. \A r : BeingCreated(r)' <=> BeingCreated(r)
    BY Zenon, <2>4 DEF BeingCreated, Creating
  <2>6. ~ BeingCreated(p)
    BY Zenon, <2>3, PseudoIds DEF BeingCreated, Reserved, ReservedBy, PipeWork, Creating
  <2>7. \A r : PipeDescIsMatch(r)' <=> PipeDescIsMatch(r) /\ r # p
    BY ZenonT(60), <2>2, <2>3, SlotOfInTable, PseudoIds DEF PipeDescIsMatch, PipeTypes
  <2>8. p \in 1..LastPipeId
    BY <2>3 DEF PID, PipeTypes
  <2>9. OpenPipes' = OpenPipes \ {p} /\ p \in OpenPipes
    BY Zenon, <2>2, <2>7 DEF OpenPipes
  <2>10. ClosedPipes' = ClosedPipes \cup {p}
    BY ZenonT(60), <2>2, <2>5, <2>6, <2>7, <2>8 DEF ClosedPipes
  <2> QED BY Zenon, <2>2, <2>9, <2>10

\* The steps in between do not show.
<1>HiddenPipes.
  ASSUME PipeInv, PipeInv', NEW t \in Task,
         CreateQueue(t) \/ DeleteQueue(t) \/ DeleteFree(t)
  PROVE  UNCHANGED <<OpenPipes, ClosedPipes, Dests>>
  <2> USE <1>HiddenPipes
  <2> PipeTypes /\ PipeTypes' /\ Reserved
    BY Zenon DEF PipeInv
  <2>1. UNCHANGED <<LastPipeId, Dests>>
    BY Zenon DEF CreateQueue, DeleteQueue, DeleteFree, pipeVars, routeVars
  <2>2. \A u \in Task : \/ pc[u] \notin Creating /\ pc'[u] \notin Creating
                        \/ /\ pc[u] \in Creating /\ pc'[u] \in Creating
                           /\ tPipe'[u] = tPipe[u]
    BY ZenonT(60) DEF CreateQueue, DeleteQueue, DeleteFree, Goto, PipeTypes, Creating
  <2>3. \A r \in PID : PipeDescIsMatch(r)' <=> PipeDescIsMatch(r)
    <3>1. CASE DeleteFree(t)
      <4>1. /\ PipeId[SlotOf(tPipe[t])] = RESERVED /\ SlotOf(tPipe[t]) \in Slot
            /\ PipeId' = [PipeId EXCEPT ![SlotOf(tPipe[t])] = FREE]
        BY Zenon, <3>1, SlotOfInTable DEF DeleteFree, Reserved, ReservedBy, PipeWork
      <4> QED BY Zenon, <4>1, SlotOfInTable, PseudoIds DEF PipeDescIsMatch, PipeTypes
    <3>2. CASE CreateQueue(t) \/ DeleteQueue(t)
      BY Zenon, <3>2 DEF CreateQueue, DeleteQueue, pipeVars, PipeDescIsMatch
    <3> QED BY Zenon, <3>1, <3>2
  <2> QED BY ZenonT(60), <2>1, <2>2, <2>3, <1>SamePipes

<1> SUFFICES ASSUME BufferInv, CountsAgree, MessageInv, PipeInv', NEW t \in Task, Step(t)
             PROVE  Bus!BusNext \/ UNCHANGED <<OpenPipes, ClosedPipes, Dests, Inbox>>
  BY Zenon
<1> /\ PipeInv /\ PipeTypes /\ BufferTypes /\ HeaderTypes /\ HeaderTypes' /\ ActiveInv /\ HeadersKept
    /\ Unsent(t) /\ NewEmpty(t)
  BY Zenon, HeaderTypesStep, QueuedKept DEF BufferInv, PipeInv, LocalsInv, MessageInv
<1>1. CASE Quiet(t)
  <2>1. UNCHANGED <<OpenPipes, ClosedPipes, Dests>>
    BY Zenon, <1>1, <1>QuietPipes DEF Quiet
  <2>2. CASE Broadcast(t)
    <3>1. PICK m \in MsgId, s \in 0..MaxSeq, P \in SUBSET PID :
           /\ P \subseteq Dests[m]
           /\ \A p \in P : Len(Inbox[p]) < QueueDepth
           /\ Inbox' = [p \in PID |-> IF p \in P THEN Append(Inbox[p], <<m, s>>) ELSE Inbox[p]]
      BY Zenon, <2>2, <1>BroadcastPublishes
    <3>2. Bus!Publish(m, s, P)
      BY Zenon, <2>1, <3>1 DEF Bus!Publish
    <3> QED BY Zenon, <3>2 DEF Bus!BusNext
  <2>3. ASSUME NEW q \in PID, Gets(q)
        PROVE  Bus!BusNext
    <3>1. Bus!Take(q)
      BY Zenon, <2>1, <2>3, <1>InboxTaken DEF Bus!Take
    <3> QED BY Zenon, <3>1 DEF Bus!BusNext
  <2>4. CASE UNCHANGED Queue
    BY Zenon, <2>1, <2>4, <1>SameInboxes
  <2> QED BY ZenonT(60), <2>2, <2>3, <2>4, QueueMoves
<1>2. CASE PipeStep(t)
  <2>1. UNCHANGED Inbox
    BY Zenon, <1>2, PipeStepQueues, <1>SameInboxes
  <2>2. CASE CreatePipe(t) \/ CreateFail(t)
    <3>1. PICK P \in SUBSET PID : /\ P \cap OpenPipes = {}
                                 /\ ClosedPipes' = ClosedPipes \cup P
                                 /\ UNCHANGED <<OpenPipes, Dests>>
      BY Zenon, <2>2, <1>CreatePipeRetires, <1>CreateFailRetires
    <3>2. Bus!Retire(P)
      BY Zenon, <2>1, <3>1 DEF Bus!Retire
    <3> QED BY Zenon, <3>2 DEF Bus!BusNext
  <2>3. CASE CreateFill(t)
    <3>1. PICK p \in PID : /\ p \notin OpenPipes \cup ClosedPipes
                          /\ OpenPipes' = OpenPipes \cup {p}
                          /\ Inbox[p] = <<>>
                          /\ UNCHANGED <<ClosedPipes, Dests>>
      BY Zenon, <2>3, <1>CreateFillOpens
    <3>2. Bus!Open(p)
      BY Zenon, <2>1, <3>1 DEF Bus!Open
    <3> QED BY Zenon, <3>2 DEF Bus!BusNext
  <2>4. CASE Reserving(t)
    <3>1. PICK p \in PID : /\ p \in OpenPipes
                          /\ OpenPipes' = OpenPipes \ {p}
                          /\ ClosedPipes' = ClosedPipes \cup {p}
                          /\ Dests' = [m \in MsgId |-> Dests[m] \ {p}]
      BY Zenon, <2>4, <1>ReservingCloses
    <3>2. Bus!Close(p)
      BY Zenon, <2>1, <3>1 DEF Bus!Close
    <3> QED BY Zenon, <3>2 DEF Bus!BusNext
  <2>5. CASE CreateQueue(t) \/ DeleteQueue(t) \/ DeleteFree(t)
    BY Zenon, <2>1, <2>5, <1>HiddenPipes
  <2>6. ASSUME NEW m \in MsgId, NEW p \in PID, Subscribe(t, m, p) \/ Unsubscribe(t, m, p)
        PROVE  Bus!BusNext \/ UNCHANGED <<OpenPipes, ClosedPipes, Dests, Inbox>>
    <3>1. UNCHANGED <<PipeId, LastPipeId, pc, tPipe>> /\ PipeDescIsMatch(p)
      BY Zenon, <2>6 DEF Subscribe, Unsubscribe, pipeVars, taskVars
    <3>2. UNCHANGED <<OpenPipes, ClosedPipes>> /\ p \in OpenPipes
      BY Zenon, <3>1 DEF OpenPipes, ClosedPipes, PipeDescIsMatch, BeingCreated
    <3>3. \/ Dests' = [Dests EXCEPT ![m] = @ \cup {p}]
          \/ Dests' = [Dests EXCEPT ![m] = @ \ {p}]
          \/ UNCHANGED Dests
      BY Zenon, <2>6 DEF Subscribe, Unsubscribe
    <3>4. Bus!Subscribe(m, p) \/ Bus!Unsubscribe(m, p) \/ UNCHANGED Dests
      BY Zenon, <2>1, <3>2, <3>3 DEF Bus!Subscribe, Bus!Unsubscribe
    <3> QED BY Zenon, <2>1, <3>2, <3>4 DEF Bus!BusNext
  <2> QED BY ZenonT(60), <1>2, <2>2, <2>3, <2>4, <2>5, <2>6 DEF PipeStep
<1> QED BY Zenon, <1>1, <1>2, TwoKinds

\* CFE_SB_EarlyInit maps to the initial state of MessageBus.
LEMMA BusStart == Init => Bus!BusInit
<1> SUFFICES ASSUME Init
             PROVE  Bus!BusInit
  OBVIOUS
<1>1. OpenPipes = {}
  BY Zenon, SlotOfInTable, PseudoIds DEF Init, OpenPipes, PipeDescIsMatch
<1>2. ClosedPipes = {}
  <2>1. 1..LastPipeId = {}
    BY DEF Init
  <2> QED BY Zenon, <2>1 DEF ClosedPipes
<1>3. Inbox = [q \in PID |-> <<>>]
  <2>1. ASSUME NEW q \in PID
        PROVE  [i \in 1..Len(Queue[q]) |-> Header(Queue[q][i])] = <<>>
    <3>1. Queue[q] = <<>>
      BY Zenon DEF Init
    <3> QED BY <3>1
  <2> QED BY Zenon, <2>1 DEF Inbox
<1>4. Dests = [m \in MsgId |-> {}]
  BY Zenon DEF Init
<1> QED BY Zenon, <1>1, <1>2, <1>3, <1>4 DEF Bus!BusInit

\* Nothing happens to the messages when nothing happens.
LEMMA MessageStutter ==
  ASSUME MessageInv, UNCHANGED vars
  PROVE  MessageInv'
<1>1. UNCHANGED <<Dests, Active, SeqCnt, Queue, BufMsgId, BufSeq, pc, tPipe, tBuf, tMsg, zcHandle>>
  BY Zenon DEF vars, routeVars, osVars, bufVars, taskVars
<1>2. HeaderTypes' /\ ActiveInv' /\ SequenceInOrder'
  BY Zenon, <1>1 DEF MessageInv, HeaderTypes, ActiveInv, SequenceInOrder
<1>3. \A t \in Task : Unsent(t)' /\ NewEmpty(t)'
  BY Zenon, <1>1 DEF MessageInv, Unsent, NewEmpty
<1>4. \A b \in Buf : QueuesOf(b)' # {} => Sent(b)'
  BY Zenon, <1>1 DEF MessageInv, QueuesOf, Sent
<1> QED BY Zenon, <1>2, <1>3, <1>4 DEF MessageInv

\* Nor to what MessageBus sees.
LEMMA BusStutter ==
  ASSUME UNCHANGED vars
  PROVE  UNCHANGED <<OpenPipes, ClosedPipes, Dests, Inbox>>
<1>1. UNCHANGED <<PipeId, LastPipeId, Dests, Queue, BufMsgId, BufSeq, pc, tPipe>>
  BY Zenon DEF vars, pipeVars, routeVars, osVars, bufVars, taskVars
<1> QED BY Zenon, <1>1
           DEF OpenPipes, ClosedPipes, Inbox, Header, PipeDescIsMatch, BeingCreated

-----------------------------------------------------------------------------
(***************************************************************************)
(* The counts of a pipe                                                    *)
(***************************************************************************)
\* The types of the variables that no other invariant is about.
CountTypes ==
    /\ PipeApp \in [Slot -> App \cup {NoApp}]
    /\ IgnoreMine \in [Slot -> BOOLEAN]
    /\ CurrentQueueDepth \in [Slot -> Nat]
    /\ Routes \subseteq MsgId
    /\ BuffCount \in [MsgId -> [PID -> Nat]]
    /\ tRoute \in [Task -> BOOLEAN]
    /\ tDelList \in [Task -> SUBSET (PID \cup {RESERVED})]

\* The messages with ID m on the queue of pipe p, and those a task has taken
\* from it.
Carrying(q, id, m) == {i \in 1..Len(q) : id[q[i]] = m}
OnQueue(m, p) == {i \in 1..Len(Queue[p]) : BufMsgId[Queue[p][i]] = m}
InHand(m, p) == {t \in Task : TakenFrom(t, p) /\ BufMsgId[tBuf[t]] = m}
ReadersAt(p) == {t \in Task : TakenFrom(t, p)}

\* The depth of a descriptor counts its messages; that of a new one is zero.
DepthAt(s) ==
    PipeId[s] \in PID =>
        CurrentQueueDepth[s] = Len(Queue[PipeId[s]]) + Cardinality(ReadersAt(PipeId[s]))
NewDepth(t) == pc[t] \in Creating => CurrentQueueDepth[SlotOf(tPipe[t])] = 0

\* BuffCount never exceeds the messages on the pipe.
CountAt(m, p) == p \in Dests[m] => BuffCount[m][p] <= Pending(m, p)

CountInv ==
    /\ CountTypes
    /\ \A s \in Slot : DepthAt(s)
    /\ \A t \in Task : NewDepth(t)
    /\ \A m \in MsgId, p \in PID : CountAt(m, p)

\* A task is only at work on its own local variables.
LEMMA OthersStay ==
  ASSUME PipeTypes, BufferTypes, BufLocal, NEW t \in Task, Step(t)
  PROVE  Others(t)
<1> /\ pc \in [Task -> PC] /\ tPipe \in [Task -> PID \cup {FREE, RESERVED}]
    /\ tQueue \in [Task -> PID \cup {FREE}] /\ tBuf \in [Task -> Buf \cup {NULL}]
    /\ tApp \in [Task -> App \cup {NoApp}]
  BY Zenon DEF PipeTypes, BufferTypes
<1>1. CASE Idle(t)
  BY Zenon, <1>1 DEF Idle, LocalStep
<1>2. CASE CreatePipe(t) \/ CreateQueue(t)
  BY Zenon, <1>2 DEF CreatePipe, CreateQueue, Goto, Others
<1>3. CASE CreateFill(t) \/ CreateFail(t)
  BY Zenon, <1>3 DEF CreateFill, CreateFail, Return, Goto, Others
<1>4. ASSUME NEW p \in PID, DeletePipeReserve(t, p)
      PROVE  Others(t)
  BY Zenon, <1>4 DEF DeletePipeReserve, Goto, Others
<1>5. CASE DeleteUnref(t) \/ DeleteGet(t)
  BY Zenon, <1>5 DEF DeleteUnref, DeleteGet, Goto, Others
<1>6. CASE DeleteQueue(t) \/ DeleteFree(t)
  BY Zenon, <1>6 DEF DeleteQueue, DeleteFree, Goto, Others
<1>7. CASE SendAlloc(t)
  BY Zenon, <1>7 DEF SendAlloc, Goto, Others
<1>8. CASE Broadcast(t)
  BY Zenon, <1>8 DEF Broadcast, Goto, Others
<1>9. CASE ZeroCopyGetPtr(t) \/ ZeroCopyReleasePtr(t)
  BY Zenon, <1>9 DEF ZeroCopyGetPtr, ZeroCopyReleasePtr, Others
<1>10. ASSUME NEW m \in MsgId, TransmitBuffer(t, m)
       PROVE  Others(t)
  BY Zenon, <1>10 DEF TransmitBuffer, Goto, Others
<1>11. ASSUME NEW p \in PID, ReceiveBuffer(t, p)
       PROVE  Others(t)
  BY Zenon, <1>11 DEF ReceiveBuffer, Goto, Others
<1>12. CASE ReceiveGet(t) \/ ReceiveStore(t)
  BY Zenon, <1>12 DEF ReceiveGet, ReceiveStore, Return, Goto, Others
<1>13. CASE CleanUpZeroCopy(t)
  BY Zenon, <1>13 DEF CleanUpZeroCopy, Goto, Others
<1> QED BY ZenonT(60), <1>1, <1>2, <1>3, <1>4, <1>5, <1>6, <1>7, <1>8, <1>9, <1>10, <1>11, <1>12,
           <1>13, IdleOrBusy DEF Busy, Reserving

\* The message another task has taken keeps its header.
LEMMA TakenKept ==
  ASSUME BufferInv, CountsAgree, NEW t \in Task, Step(t), NEW u \in Task \ {t},
         pc[u] = "receive_store"
  PROVE  BufMsgId'[tBuf[u]] = BufMsgId[tBuf[u]]
<1>1. tBuf[u] \in Buf
  BY Zenon DEF BufferInv, LocalsInv, BufferTypes, BufLocal, HasBuffer
<1>2. u \in WorkersOf(tBuf[u])
  BY Zenon DEF WorkersOf
<1>3. <<"worker", u>> \in References(tBuf[u])
  BY Zenon, <1>2, RefKinds
<1>4. <<"worker", u>> # <<"worker", t>> /\ <<"worker", u>> # <<"owner", t>>
  OBVIOUS
<1>5. References(tBuf[u]) \notin {{}, {<<"worker", t>>}, {<<"owner", t>>}}
  BY Zenon, <1>3, <1>4
<1> QED BY Zenon, <1>1, <1>5, HeaderWrites

\* The same tasks have taken the same messages.
ReadersKept ==
    \A u \in Task : /\ pc'[u] = "receive_store" <=> pc[u] = "receive_store"
                    /\ pc[u] = "receive_store" =>
                         /\ tPipe'[u] = tPipe[u]
                         /\ tBuf'[u] = tBuf[u]
                         /\ BufMsgId'[tBuf[u]] = BufMsgId[tBuf[u]]

\* What a step does when it neither moves a message nor counts one: it may
\* forget a destination and its count, or start one at zero.
Steady ==
    /\ UNCHANGED Queue
    /\ ReadersKept
    /\ \A m \in MsgId, p \in PID :
         p \in Dests'[m] =>
            \/ BuffCount'[m][p] = 0
            \/ p \in Dests[m] /\ BuffCount'[m][p] = BuffCount[m][p]

\* ... and neither makes a new pipe nor changes a depth.
DepthSteady ==
    /\ Steady
    /\ UNCHANGED CurrentQueueDepth
    /\ \A s \in Slot : PipeId'[s] \in PID => PipeId'[s] = PipeId[s]
    /\ \A u \in Task : pc'[u] \in Creating => pc[u] \in Creating /\ tPipe'[u] = tPipe[u]

\* The step of t leaves the taken messages alone.
LEMMA SteadyReaders ==
  ASSUME BufferInv, CountsAgree, NEW t \in Task, Step(t),
         pc[t] # "receive_store", pc'[t] # "receive_store"
  PROVE  ReadersKept
<1>1. Others(t)
  BY Zenon, OthersStay DEF BufferInv, PipeInv, LocalsInv
<1> QED BY ZenonT(60), <1>1, TakenKept DEF Others, ReadersKept

\* What the steps do that have nothing to do with the life of a pipe.
LEMMA CountKinds ==
  ASSUME BufferInv, CountsAgree, CountTypes, NEW t \in Task, Step(t)
  PROVE  \/ Broadcast(t) \/ ReceiveGet(t) \/ ReceiveStore(t) \/ DeleteGet(t)
         \/ (CreateFill(t) \/ CreatePipe(t)) /\ Steady
         \/ DepthSteady
<1> /\ pc \in [Task -> PC] /\ tPipe \in [Task -> PID \cup {FREE, RESERVED}]
    /\ Dests \in [MsgId -> SUBSET PID] /\ BuffCount \in [MsgId -> [PID -> Nat]]
    /\ PipeId \in [Slot -> PID \cup {FREE, RESERVED}]
  BY Zenon DEF BufferInv, PipeInv, PipeTypes, CountTypes
<1> DEFINE Counts == \A m \in MsgId, p \in PID :
                       p \in Dests'[m] =>
                          \/ BuffCount'[m][p] = 0
                          \/ p \in Dests[m] /\ BuffCount'[m][p] = BuffCount[m][p]
           Depths == UNCHANGED <<CurrentQueueDepth, Queue>>
<1>1. CASE PipeStep(t)
  <2>1. UNCHANGED Queue
    BY Zenon, <1>1, PipeStepQueues
  <2>2. pc[t] # "receive_store" /\ pc'[t] # "receive_store"
    BY ZenonT(60), <1>1
       DEF PipeStep, CreatePipe, CreateQueue, CreateFill, CreateFail, Reserving, DeleteQueue,
           DeleteFree, Subscribe, Unsubscribe, DeletePipeReserve, FirstDrainStep, taskVars,
           MayCall, Return, Goto
  <2>3. CASE CreatePipe(t) \/ CreateFill(t)
    <3>1. UNCHANGED <<Dests, BuffCount>>
      BY Zenon, <2>3 DEF CreatePipe, CreateFill, routeVars
    <3>2. Steady
      BY Zenon, <2>1, <2>2, <3>1, SteadyReaders DEF Steady
    <3> QED BY Zenon, <2>3, <3>2
  <2>4. CASE CreateQueue(t) \/ CreateFail(t) \/ DeleteQueue(t) \/ DeleteFree(t)
    <3>1. UNCHANGED <<Dests, BuffCount, CurrentQueueDepth>>
      BY Zenon, <2>4
         DEF CreateQueue, CreateFail, DeleteQueue, DeleteFree, routeVars, pipeVars
    <3>2. Steady
      BY Zenon, <2>1, <2>2, <3>1, SteadyReaders DEF Steady
    <3>3. \A s \in Slot : PipeId'[s] \in PID => PipeId'[s] = PipeId[s]
      BY Zenon, <2>4, PseudoIds DEF CreateQueue, CreateFail, DeleteQueue, DeleteFree, pipeVars
    <3>4. \A u \in Task : pc'[u] \in Creating => pc[u] \in Creating /\ tPipe'[u] = tPipe[u]
      BY Zenon, <2>4
         DEF CreateQueue, CreateFail, DeleteQueue, DeleteFree, Creating, Return, Goto
    <3> QED BY ZenonT(60), <3>1, <3>2, <3>3, <3>4 DEF DepthSteady
  <2>5. ASSUME NEW p \in PID, DeletePipeReserve(t, p), pc[t] \in {"idle", "cleanup"}
        PROVE  DepthSteady
    <3>1. /\ Dests' = [m \in MsgId |-> Dests[m] \ {p}]
          /\ BuffCount' = [m \in MsgId |-> [BuffCount[m] EXCEPT ![p] = 0]]
      BY Zenon, <2>5 DEF DeletePipeReserve, RoutesWithout
    <3>2. Counts
      BY <3>1
    <3>3. Steady
      BY Zenon, <2>1, <2>2, <3>2, SteadyReaders DEF Steady
    <3>4. \A s \in Slot : PipeId'[s] \in PID => PipeId'[s] = PipeId[s]
      BY Zenon, <2>5, PseudoIds DEF DeletePipeReserve
    <3>5. \A u \in Task : pc'[u] \in Creating => pc[u] \in Creating /\ tPipe'[u] = tPipe[u]
      BY Zenon, <2>5 DEF DeletePipeReserve, FirstDrainStep, Creating, Goto
    <3> QED BY ZenonT(60), <2>5, <3>3, <3>4, <3>5 DEF DepthSteady, DeletePipeReserve
  <2>6. ASSUME NEW m \in MsgId, NEW p \in PID, Subscribe(t, m, p) \/ Unsubscribe(t, m, p)
        PROVE  DepthSteady
    <3>1. \/ UNCHANGED <<Dests, BuffCount>>
          \/ /\ Dests' = [Dests EXCEPT ![m] = @ \cup {p}] \/ Dests' = [Dests EXCEPT ![m] = @ \ {p}]
             /\ BuffCount' = [BuffCount EXCEPT ![m][p] = 0]
      BY Zenon, <2>6 DEF Subscribe, Unsubscribe
    <3>2. Counts
      BY <3>1
    <3>3. Steady
      BY ZenonT(60), <2>1, <2>2, <3>2, SteadyReaders DEF Steady
    <3> QED BY Zenon, <2>6, <3>3 DEF DepthSteady, Subscribe, Unsubscribe, pipeVars, taskVars
  <2> QED BY ZenonT(60), <1>1, <2>3, <2>4, <2>5, <2>6 DEF PipeStep, Reserving
<1>2. ASSUME Quiet(t), ~ PipeStep(t), ~ Broadcast(t), ~ ReceiveGet(t), ~ ReceiveStore(t),
             ~ DeleteGet(t)
      PROVE  DepthSteady
  <2>1. /\ UNCHANGED <<Queue, CurrentQueueDepth, BuffCount>>
        /\ pc[t] # "receive_store" /\ pc'[t] # "receive_store"
        /\ pc'[t] \notin Creating
    <3> DEFINE Goal == /\ UNCHANGED <<Queue, CurrentQueueDepth, BuffCount>>
                       /\ pc[t] # "receive_store" /\ pc'[t] # "receive_store"
                       /\ pc'[t] \notin Creating
    <3> SUFFICES Goal
      OBVIOUS
    <3> USE DEF Creating, pipeVars, routeVars, osVars
    <3>1. CASE DeleteUnref(t) \/ ByNameScan(t)
      BY Zenon, <3>1 DEF DeleteUnref, ByNameScan, Goto
    <3>2. CASE ByNameReturn(t) \/ ReceiveNone(t)
      BY Zenon, <3>2 DEF ByNameReturn, ReceiveNone, Return, Goto
    <3>3. CASE SendAlloc(t) \/ SendEvents(t) \/ CleanUpZeroCopy(t)
      BY Zenon, <3>3 DEF SendAlloc, SendEvents, CleanUpZeroCopy, Goto
    <3>4. ASSUME NEW p \in PID \cup {RESERVED}, CleanUpPipe(t, p)
          PROVE  Goal
      BY Zenon, <1>2, <3>4
         DEF CleanUpPipe, DeletePipeReserve, PipeDescIsMatch, PipeStep, Reserving
    <3>5. ASSUME NEW p \in PID, DeletePipe(t, p)
          PROVE  Goal
      BY Zenon, <1>2, <3>5 DEF DeletePipe, MayCall, PipeStep, Reserving
    <3>6. ASSUME NEW p \in PID, ReceiveBuffer(t, p) \/ GetPipeIdByName(t, p)
          PROVE  Goal
      BY Zenon, <3>6 DEF ReceiveBuffer, GetPipeIdByName, MayCall, Goto
    <3>7. ASSUME NEW p \in PID, NEW on \in BOOLEAN, SetPipeOpts(t, p, on)
          PROVE  Goal
      BY Zenon, <3>7 DEF SetPipeOpts, MayCall, taskVars
    <3>8. ASSUME NEW m \in MsgId, NEW p \in PID, NEW on \in BOOLEAN, SetRoute(t, m, p, on)
          PROVE  Goal
      BY Zenon, <3>8 DEF SetRoute, MayCall, taskVars
    <3>9. ASSUME NEW m \in MsgId, TransmitMsg(t, m) \/ TransmitBuffer(t, m)
          PROVE  Goal
      BY Zenon, <3>9 DEF TransmitMsg, TransmitBuffer, MayCall, Goto
    <3>10. CASE ZeroCopyGetPtr(t) \/ ZeroCopyReleasePtr(t)
      BY Zenon, <3>10 DEF ZeroCopyGetPtr, ZeroCopyReleasePtr, MayCall
    <3>11. CASE ExitApp(t) \/ Refused(t)
      BY Zenon, <3>11 DEF ExitApp, Refused, vars, taskVars, MayCall, Goto
    <3>12. ASSUME NEW a \in App, CleanUpApp(t, a)
           PROVE  Goal
      BY Zenon, <3>12 DEF CleanUpApp, MayCall, Goto
    <3> HIDE DEF Creating, pipeVars, routeVars, osVars, Goal
    <3> QED
      BY ZenonT(60), <1>2, <3>1, <3>2, <3>3, <3>4, <3>5, <3>6, <3>7, <3>8, <3>9, <3>10, <3>11,
         <3>12
         DEF Step, Call, Continue, PipeStep
  <2>2. Steady
    BY Zenon, <1>2, <2>1, SteadyReaders DEF Steady, Quiet
  <2>3. Others(t)
    BY Zenon, OthersStay DEF BufferInv, PipeInv, LocalsInv
  <2> QED BY ZenonT(60), <1>2, <2>1, <2>2, <2>3 DEF DepthSteady, Others, Quiet
<1> QED BY Zenon, <1>1, <1>2, TwoKinds DEF BufferInv, PipeInv

\* One count is written.
LEMMA CountWritten ==
  ASSUME BuffCount \in [MsgId -> [PID -> Nat]], NEW m, NEW p,
         NEW k, m \in MsgId /\ p \in PID => k \in Nat
  PROVE  [BuffCount EXCEPT ![m][p] = k] \in [MsgId -> [PID -> Nat]]
<1> DEFINE row == [BuffCount[m] EXCEPT ![p] = k]
<1>1. m \in MsgId => row \in [PID -> Nat]
  BY Zenon
<1>2. [BuffCount EXCEPT ![m][p] = k] = [BuffCount EXCEPT ![m] = row]
  BY Zenon
<1> HIDE DEF row
<1>3. [BuffCount EXCEPT ![m] = row] \in [MsgId -> [PID -> Nat]]
  BY Zenon, <1>1
<1> QED BY Zenon, <1>2, <1>3

\* The types stay.
LEMMA CountTypesStep ==
  ASSUME BufferInv, CountTypes, NEW t \in Task, Unsent(t), Step(t)
  PROVE  CountTypes'
<1> /\ PipeApp \in [Slot -> App \cup {NoApp}] /\ IgnoreMine \in [Slot -> BOOLEAN]
    /\ CurrentQueueDepth \in [Slot -> Nat] /\ Routes \subseteq MsgId
    /\ BuffCount \in [MsgId -> [PID -> Nat]] /\ tRoute \in [Task -> BOOLEAN]
    /\ tDelList \in [Task -> SUBSET (PID \cup {RESERVED})]
  BY Zenon DEF CountTypes
<1>1. CASE UNCHANGED <<PipeApp, IgnoreMine, CurrentQueueDepth, Routes, BuffCount, tRoute, tDelList>>
  BY Zenon, <1>1 DEF CountTypes
<1>2. CASE CreatePipe(t)
  <2>1. UNCHANGED <<Routes, BuffCount, tRoute, tDelList>>
    BY Zenon, <1>2 DEF CreatePipe, routeVars
  <2>2. PICK p \in PID : /\ PipeApp' = [PipeApp EXCEPT ![SlotOf(p)] = NoApp]
                         /\ IgnoreMine' = [IgnoreMine EXCEPT ![SlotOf(p)] = FALSE]
                         /\ CurrentQueueDepth' = [CurrentQueueDepth EXCEPT ![SlotOf(p)] = 0]
    BY Zenon, <1>2 DEF CreatePipe, ClearedDepth
  <2>3. CurrentQueueDepth' \in [Slot -> Nat]
    BY Zenon, <2>2
  <2> QED BY Zenon, <2>1, <2>2, <2>3 DEF CountTypes
<1>3. CASE CreateFill(t)
  <2>1. AppOf[t] \in App \cup {NoApp}
    BY Zenon, SBAssumption
  <2> QED BY Zenon, <1>3, <2>1 DEF CreateFill, routeVars, CountTypes
<1>4. ASSUME NEW p \in PID, NEW on \in BOOLEAN, SetPipeOpts(t, p, on)
      PROVE  CountTypes'
  BY Zenon, <1>4 DEF SetPipeOpts, routeVars, taskVars, CountTypes
<1>5. ASSUME NEW m \in MsgId, NEW p \in PID, Subscribe(t, m, p) \/ Unsubscribe(t, m, p)
      PROVE  CountTypes'
  <2>1. UNCHANGED BuffCount \/ BuffCount' = [BuffCount EXCEPT ![m][p] = 0]
    BY Zenon, <1>5 DEF Subscribe, Unsubscribe
  <2>2. BuffCount' \in [MsgId -> [PID -> Nat]]
    <3>1. 0 \in Nat
      OBVIOUS
    <3>2. [BuffCount EXCEPT ![m][p] = 0] \in [MsgId -> [PID -> Nat]]
      BY Zenon, <3>1, CountWritten
    <3> QED BY Zenon, <2>1, <3>2
  <2> QED BY Zenon, <1>5, <2>2 DEF Subscribe, Unsubscribe, pipeVars, taskVars, CountTypes
<1>6. ASSUME NEW p \in PID, DeletePipeReserve(t, p)
      PROVE  /\ BuffCount' \in [MsgId -> [PID -> Nat]]
             /\ UNCHANGED <<PipeApp, IgnoreMine, CurrentQueueDepth, Routes, tRoute>>
  <2>1. BuffCount' = [m \in MsgId |-> [BuffCount[m] EXCEPT ![p] = 0]]
    BY Zenon, <1>6 DEF DeletePipeReserve
  <2>2. BuffCount' \in [MsgId -> [PID -> Nat]]
    BY <2>1
  <2> QED BY Zenon, <1>6, <2>2 DEF DeletePipeReserve
<1>7. ASSUME NEW p \in PID, DeletePipe(t, p)
      PROVE  CountTypes'
  BY Zenon, <1>6, <1>7 DEF DeletePipe, CountTypes
<1>8. ASSUME NEW p \in PID \cup {RESERVED}, CleanUpPipe(t, p)
      PROVE  CountTypes'
  <2>1. tDelList' \in [Task -> SUBSET (PID \cup {RESERVED})]
    BY Zenon, <1>8 DEF CleanUpPipe
  <2>2. CASE DeletePipeReserve(t, p)
    BY Zenon, <1>6, <2>1, <2>2 DEF DeletePipeReserve, PipeDescIsMatch, CountTypes
  <2>3. CASE UNCHANGED <<pipeVars, routeVars, tRoute>>
    BY Zenon, <2>1, <2>3 DEF pipeVars, routeVars, CountTypes
  <2> QED BY Zenon, <1>8, <2>2, <2>3 DEF CleanUpPipe
<1>9. ASSUME NEW a \in App, CleanUpApp(t, a)
      PROVE  CountTypes'
  <2>1. OwnedPipes(a) \in SUBSET (PID \cup {RESERVED})
    BY ZenonT(60) DEF OwnedPipes, BufferInv, PipeInv, PipeTypes
  <2> QED BY Zenon, <1>9, <2>1 DEF CleanUpApp, pipeVars, routeVars, CountTypes
<1>10. ASSUME NEW m \in MsgId, TransmitMsg(t, m) \/ TransmitBuffer(t, m)
       PROVE  CountTypes'
  <2>1. tRoute' \in [Task -> BOOLEAN]
    <3>1. \E r \in BOOLEAN : tRoute' = [tRoute EXCEPT ![t] = r]
      <4>1. TRUE \in BOOLEAN /\ (m \in Routes) \in BOOLEAN
        OBVIOUS
      <4> QED BY Zenon, <1>10, <4>1 DEF TransmitMsg, TransmitBuffer
    <3> QED BY Zenon, <3>1
  <2> QED BY Zenon, <1>10, <2>1 DEF TransmitMsg, TransmitBuffer, pipeVars, routeVars, CountTypes
<1>11. CASE SendAlloc(t)
  BY Zenon, <1>11 DEF SendAlloc, pipeVars, routeVars, CountTypes
<1>12. CASE Broadcast(t)
  <2> DEFINE m == BufMsgId[tBuf[t]]
             Acc == IF tRoute[t] THEN Accepting(t, m) ELSE {}
  <2>1. m \in MsgId
    BY Zenon, <1>12 DEF Unsent, Broadcast
  <2>2. /\ BuffCount' = [BuffCount EXCEPT ![m] =
                           [p \in PID |-> IF p \in Acc THEN @[p] + 1 ELSE @[p]]]
        /\ CurrentQueueDepth' =
             [s \in Slot |-> IF \E p \in Acc : SlotOf(p) = s
                             THEN CurrentQueueDepth[s] + 1
                             ELSE CurrentQueueDepth[s]]
    BY Zenon, <1>12 DEF Broadcast
  <2> HIDE DEF m, Acc
  <2>3. BuffCount' \in [MsgId -> [PID -> Nat]]
    BY SMTT(60), <2>1, <2>2
  <2>4. CurrentQueueDepth' \in [Slot -> Nat]
    BY <2>2
  <2> QED BY ZenonT(60), <1>12, <2>3, <2>4 DEF Broadcast, CountTypes
<1>13. CASE ReceiveStore(t)
  <2>1. BuffCount' \in [MsgId -> [PID -> Nat]]
    <3>1. \/ UNCHANGED BuffCount
          \/ \E m, p : /\ BuffCount[m][p] > 0
                       /\ BuffCount' = [BuffCount EXCEPT ![m][p] = BuffCount[m][p] - 1]
      BY Zenon, <1>13 DEF ReceiveStore, CountAfterReceive
    <3>2. ASSUME NEW m, NEW p, BuffCount[m][p] > 0,
                 BuffCount' = [BuffCount EXCEPT ![m][p] = BuffCount[m][p] - 1]
          PROVE  BuffCount' \in [MsgId -> [PID -> Nat]]
      <4>1. m \in MsgId /\ p \in PID => BuffCount[m][p] \in Nat
        BY Zenon
      <4>2. m \in MsgId /\ p \in PID => BuffCount[m][p] - 1 \in Nat
        BY SMTT(60), <3>2, <4>1
      <4> QED BY Zenon, <3>2, <4>2, CountWritten
    <3> QED BY Zenon, <3>1, <3>2
  <2>2. CurrentQueueDepth' \in [Slot -> Nat]
    <3>1. \/ UNCHANGED CurrentQueueDepth
          \/ \E s : CurrentQueueDepth' =
                       [CurrentQueueDepth EXCEPT ![s] = IF @ > 0 THEN @ - 1 ELSE @]
      BY Zenon, <1>13 DEF ReceiveStore
    <3> QED BY <3>1
  <2> QED BY Zenon, <1>13, <2>1, <2>2 DEF ReceiveStore, CountTypes
<1>14. CASE CreateQueue(t) \/ CreateFail(t) \/ DeleteUnref(t) \/ DeleteGet(t) \/ DeleteQueue(t)
            \/ DeleteFree(t)
  BY ZenonT(60), <1>1, <1>14
     DEF CreateQueue, CreateFail, DeleteUnref, DeleteGet, DeleteQueue, DeleteFree, pipeVars, routeVars
<1>15. CASE ByNameScan(t) \/ ByNameReturn(t) \/ SendEvents(t) \/ ReceiveGet(t) \/ ReceiveNone(t)
            \/ CleanUpZeroCopy(t)
  BY Zenon, <1>1, <1>15
     DEF ByNameScan, ByNameReturn, SendEvents, ReceiveGet, ReceiveNone, CleanUpZeroCopy, pipeVars,
         routeVars
<1>16. CASE ZeroCopyGetPtr(t) \/ ZeroCopyReleasePtr(t) \/ ExitApp(t) \/ Refused(t)
  BY Zenon, <1>1, <1>16
     DEF ZeroCopyGetPtr, ZeroCopyReleasePtr, ExitApp, Refused, vars, pipeVars, routeVars, taskVars
<1>17. ASSUME NEW p \in PID, ReceiveBuffer(t, p) \/ GetPipeIdByName(t, p)
       PROVE  CountTypes'
  BY Zenon, <1>1, <1>17 DEF ReceiveBuffer, GetPipeIdByName, pipeVars, routeVars
<1>18. ASSUME NEW m \in MsgId, NEW p \in PID, NEW on \in BOOLEAN, SetRoute(t, m, p, on)
       PROVE  CountTypes'
  BY Zenon, <1>1, <1>18 DEF SetRoute, pipeVars, taskVars
<1> QED
  BY ZenonT(60), <1>2, <1>3, <1>4, <1>5, <1>7, <1>8, <1>9, <1>10, <1>11, <1>12, <1>13, <1>14,
     <1>15, <1>16, <1>17, <1>18
     DEF Step, Call, Continue

\* Then the sets of the tasks that hold a message of a pipe are the same.
LEMMA SameReaders ==
  ASSUME ReadersKept, NEW p
  PROVE  ReadersAt(p)' = ReadersAt(p) /\ \A m : InHand(m, p)' = InHand(m, p)
<1>1. \A u \in Task : TakenFrom(u, p)' <=> TakenFrom(u, p)
  BY Zenon DEF ReadersKept, TakenFrom
<1>2. \A u \in Task : TakenFrom(u, p) => BufMsgId'[tBuf'[u]] = BufMsgId[tBuf[u]]
  BY Zenon DEF ReadersKept, TakenFrom
<1>3. ReadersAt(p)' = ReadersAt(p)
  BY Zenon, <1>1 DEF ReadersAt
<1>4. ASSUME NEW m
      PROVE  InHand(m, p)' = InHand(m, p)
  <2>1. \A u \in Task : (TakenFrom(u, p)' /\ BufMsgId'[tBuf'[u]] = m)
                         <=> (TakenFrom(u, p) /\ BufMsgId[tBuf[u]] = m)
    BY Zenon, <1>1, <1>2
  <2> QED BY Zenon, <2>1 DEF InHand
<1> QED BY Zenon, <1>3, <1>4

\* The pipe a task reads has this one reader.
LEMMA OneReader ==
  ASSUME Readers, NEW t \in Task, NEW p \in PID, tPipe[t] = p
  PROVE  /\ pc[t] = "receive_get" => ReadersAt(p) = {}
         /\ pc[t] = "receive_store" => ReadersAt(p) = {t}
<1>1. \A u \in Task : TakenFrom(u, p) <=> pc[u] = "receive_store" /\ tPipe[u] = p
  BY Zenon DEF TakenFrom
<1>2. ASSUME pc[t] = "receive_get"
      PROVE  ReadersAt(p) = {}
  <2>1. \A u \in Task : pc[u] \in InReceive /\ tPipe[u] = tPipe[t] => u = t
    BY Zenon, <1>2 DEF Readers, ReaderOf, InReceive
  <2> QED BY Zenon, <1>1, <1>2, <2>1 DEF ReadersAt, InReceive
<1>3. ASSUME pc[t] = "receive_store"
      PROVE  ReadersAt(p) = {t}
  <2>1. \A u \in Task : pc[u] \in InReceive /\ tPipe[u] = tPipe[t] => u = t
    BY Zenon, <1>3 DEF Readers, ReaderOf, InReceive
  <2>2. \A u : u \in ReadersAt(p) <=> u = t
    BY Zenon, <1>1, <1>3, <2>1 DEF ReadersAt, InReceive
  <2> QED BY Zenon, <2>2
<1> QED BY Zenon, <1>2, <1>3

\* What CFE_SB_BroadcastBufferToRoute does to the counts: the pipes it
\* delivers to exist, and each gets one more message.
Delivered(b, m, Acc) ==
    /\ \A p \in Acc : PipeDescIsMatch(p)
    /\ Queue' = [q \in PID |-> IF q \in Acc THEN Append(Queue[q], b) ELSE Queue[q]]
    /\ BuffCount' = [BuffCount EXCEPT ![m] =
                       [p \in PID |-> IF p \in Acc THEN @[p] + 1 ELSE @[p]]]
    /\ CurrentQueueDepth' = [s \in Slot |-> IF \E p \in Acc : SlotOf(p) = s
                                            THEN CurrentQueueDepth[s] + 1
                                            ELSE CurrentQueueDepth[s]]
    /\ UNCHANGED <<PipeId, Dests, BufMsgId, tPipe>>

\* The queues it writes to are those of the pipes that accept the message.
LEMMA BroadcastCounts ==
  ASSUME BufferInv, MessageInv, NEW t \in Task, Broadcast(t)
  PROVE  \E Acc \in SUBSET PID : Delivered(tBuf[t], BufMsgId[tBuf[t]], Acc)
<1> DEFINE m == BufMsgId[tBuf[t]]
           Acc == IF tRoute[t] THEN Accepting(t, m) ELSE {}
           AccQueues == {SysQueueId[SlotOf(p)] : p \in Acc}
<1>1. \A p \in Acc : PipeDescIsMatch(p)
  BY Zenon DEF Accepting, Eligible
<1>2. Acc \in SUBSET PID
  BY Zenon, <1>1 DEF PipeDescIsMatch
<1>3. /\ Queue' = [q \in PID |-> IF q \in AccQueues THEN Append(Queue[q], tBuf[t]) ELSE Queue[q]]
      /\ BuffCount' = [BuffCount EXCEPT ![m] =
                         [p \in PID |-> IF p \in Acc THEN @[p] + 1 ELSE @[p]]]
      /\ CurrentQueueDepth' = [s \in Slot |-> IF \E p \in Acc : SlotOf(p) = s
                                              THEN CurrentQueueDepth[s] + 1
                                              ELSE CurrentQueueDepth[s]]
      /\ UNCHANGED <<PipeId, Dests, BufMsgId, tPipe>>
  BY Zenon DEF Broadcast
<1>4. \A p \in Acc : SysQueueId[SlotOf(p)] = p
  BY Zenon, <1>1, SlotOfInTable DEF PipeDescIsMatch, BufferInv, PipeInv, SlotsOK
<1> HIDE DEF Acc, m
<1>5. AccQueues = Acc
  BY Zenon, <1>4
<1> HIDE DEF AccQueues
<1> QED BY Zenon, <1>1, <1>2, <1>3, <1>5 DEF Delivered, m
=============================================================================
