-------------------------- MODULE SoftwareBusProofs -------------------------
(***************************************************************************)
(* The theorems about SoftwareBus. The two on pipes follow from PipeInv of *)
(* SoftwareBusInvariant. Those on buffers follow from BufferInv of         *)
(* SoftwareBusInvariant, once the references are counted. Those on         *)
(* messages follow from MessageInv, and those on counts from CountInv, of  *)
(* SoftwareBusInvariant.                                                   *)
(***************************************************************************)
EXTENDS SoftwareBusInvariant, FiniteSetTheorems

-----------------------------------------------------------------------------
(***************************************************************************)
(* Counting references                                                     *)
(***************************************************************************)
\* A buffer has finitely many references.
LEMMA RefsFinite ==
  ASSUME NEW b
  PROVE  IsFiniteSet(References(b)) /\ Cardinality(References(b)) \in Nat
<1>1. IsFiniteSet(PID) /\ IsFiniteSet(Slot) /\ IsFiniteSet(Task)
  BY SBAssumption, FS_Interval DEF PID, Slot
<1>2. \A k : IsFiniteSet({k})
  BY FS_Singleton
<1>3. /\ IsFiniteSet({"queue"} \X PID) /\ IsFiniteSet({"reader"} \X Slot)
      /\ IsFiniteSet({"worker"} \X Task) /\ IsFiniteSet({"owner"} \X Task)
  BY Zenon, <1>1, <1>2, FS_Product
<1> DEFINE All == (({"queue"} \X PID) \cup ({"reader"} \X Slot))
                  \cup (({"worker"} \X Task) \cup ({"owner"} \X Task))
<1>4. IsFiniteSet(All)
  BY Zenon, <1>3, FS_Union
<1>5. References(b) \subseteq All
  BY DEF References, QueuesOf, ReadersOf, WorkersOf, OwnersOf
<1>6. IsFiniteSet(References(b))
  BY <1>4, <1>5, FS_Subset
<1> QED BY <1>6, FS_CardinalityType

\* A block in the pool has no references.
LEMMA FreeUnused ==
  ASSUME UseCountExact, NEW b \in Buf
  PROVE  UseCount[b] = 0 <=> References(b) = {}
  BY RefsFinite, FS_EmptySet DEF UseCountExact

\* What the steps need to know of the counts follows from UseCountExact.
LEMMA ExactAgrees == UseCountExact => CountsAgree
<1> SUFFICES ASSUME UseCountExact, NEW b \in Buf
             PROVE  /\ UseCount[b] = 0 <=> References(b) = {}
                    /\ \A r : References(b) = {r} => UseCount[b] = 1
  BY SMTT(60) DEF CountsAgree
<1>1. \A r : Cardinality({r}) = 1
  BY Zenon, FS_Singleton
<1> QED BY Zenon, <1>1, FreeUnused DEF UseCountExact

\* BufferInv is inductive.
LEMMA BufferInvInit == Init => BufferInv
<1> SUFFICES ASSUME Init
             PROVE  BufferInv
  OBVIOUS
<1>1. UseCountExact
  BY BufferInit, FS_EmptySet DEF UseCountExact
<1> QED BY Zenon, <1>1, BufferInit, InitInv DEF BufferInv

\* Every operation of every task keeps it.
LEMMA BufferInvStep == BufferInv /\ [Next]_vars => BufferInv'
\* The counting done by CFE_SB_IncrBufUseCnt and CFE_SB_DecrBufUseCnt, for
\* one buffer.
<1>CountRefs.
  ASSUME NEW b, NEW r
  PROVE  /\ r \notin References(b) =>
              Cardinality(References(b) \cup {r}) = Cardinality(References(b)) + 1
         /\ r \in References(b) =>
              /\ Cardinality(References(b) \ {r}) = Cardinality(References(b)) - 1
              /\ Cardinality(References(b)) > 0
              /\ \A q : q \notin References(b) =>
                   Cardinality((References(b) \ {r}) \cup {q}) = Cardinality(References(b))
  <2> USE <1>CountRefs
  <2>1. IsFiniteSet(References(b)) /\ Cardinality(References(b)) \in Nat
    BY RefsFinite
  <2>2. r \notin References(b) =>
          Cardinality(References(b) \cup {r}) = Cardinality(References(b)) + 1
    BY <2>1, FS_AddElement
  <2>3. ASSUME r \in References(b)
        PROVE  /\ IsFiniteSet(References(b) \ {r})
               /\ Cardinality(References(b) \ {r}) = Cardinality(References(b)) - 1
               /\ Cardinality(References(b)) > 0
    BY SMTT(60), <2>1, <2>3, FS_RemoveElement, FS_EmptySet
  <2>4. ASSUME r \in References(b), NEW q, q \notin References(b)
        PROVE  Cardinality((References(b) \ {r}) \cup {q}) = Cardinality(References(b))
    <3>1. Cardinality((References(b) \ {r}) \cup {q}) = Cardinality(References(b) \ {r}) + 1
      BY SMTT(60), <2>3, <2>4, FS_AddElement
    <3> QED BY SMTT(60), <2>1, <2>3, <2>4, <3>1
  <2> QED BY <2>2, <2>3, <2>4

\* A message that goes to a set of queues gets one reference for each.
<1>QueueRefs.
  ASSUME NEW Q \in SUBSET PID
  PROVE  /\ Cardinality(Q) \in Nat
         /\ Cardinality({<<"queue", q>> : q \in Q}) = Cardinality(Q)
  <2> USE <1>QueueRefs
  <2>1. IsFiniteSet(PID)
    BY SBAssumption, FS_Interval DEF PID
  <2>2. IsFiniteSet(Q) /\ Cardinality(Q) \in Nat
    BY SMTT(60), <2>1, FS_Subset, FS_CardinalityType
  <2>3. IsFiniteSet({"queue"}) /\ Cardinality({"queue"}) = 1
    BY Zenon, FS_Singleton
  <2>4. Cardinality({"queue"} \X Q) = 1 * Cardinality(Q)
    BY SMTT(60), <2>2, <2>3, FS_Product
  <2>5. {<<"queue", q>> : q \in Q} = {"queue"} \X Q
    OBVIOUS
  <2>6. \A n \in Nat : 1 * n = n
    OBVIOUS
  <2> QED BY Zenon, <2>2, <2>4, <2>5, <2>6

\* References and counts that change together stay equal.
<1>CountedStep.
  ASSUME UseCountExact, Counted
  PROVE  UseCountExact'
  <2> USE <1>CountedStep
  <2> SUFFICES ASSUME NEW b \in Buf
               PROVE  UseCount'[b] = Cardinality(References(b)')
    BY Zenon DEF UseCountExact
  <2>1. UseCount[b] = Cardinality(References(b))
    BY Zenon DEF UseCountExact
  <2>2. CASE Kept(b)
    BY <2>1, <2>2 DEF Kept
  <2>3. CASE Taken(b)
    BY Zenon, <2>3, FS_Singleton DEF Taken
  <2>4. CASE Passed(b)
    <3>1. PICK r \in References(b) : \E s : /\ s \notin References(b)
                                          /\ References(b)' = (References(b) \ {r}) \cup {s}
                                          /\ UseCount'[b] = UseCount[b]
      BY Zenon, <2>4 DEF Passed
    <3>2. PICK s : /\ s \notin References(b)
                   /\ References(b)' = (References(b) \ {r}) \cup {s}
                   /\ UseCount'[b] = UseCount[b]
      BY Zenon, <3>1
    <3>3. Cardinality((References(b) \ {r}) \cup {s}) = Cardinality(References(b))
      BY ZenonT(60), <3>2, <1>CountRefs
    <3> QED BY <2>1, <3>2, <3>3
  <2>5. CASE Dropped(b)
    BY <2>1, <2>5, <1>CountRefs DEF Dropped
  <2>6. CASE Spread(b)
    <3>1. PICK r : References(b) = {r}
      BY Zenon, <2>6 DEF Spread
    <3>2. UseCount[b] = 1
      BY SMTT(60), <2>1, <3>1, FS_Singleton
    <3>3. PICK Q \in SUBSET PID : /\ References(b)' = {<<"queue", q>> : q \in Q}
                                  /\ UseCount'[b] = UseAfter(b, Cardinality(Q))
      BY Zenon, <2>6 DEF Spread
    <3>4. UseAfter(b, Cardinality(Q)) = Cardinality(Q)
      <4>1. Cardinality(Q) \in Nat
        BY Zenon, <1>QueueRefs
      <4> QED BY SMTT(60), <3>2, <4>1 DEF UseAfter
    <3> QED BY <3>3, <3>4, <1>QueueRefs
  <2> QED BY Zenon, <2>2, <2>3, <2>4, <2>5, <2>6 DEF Counted

<1> SUFFICES ASSUME BufferInv, [Next]_vars
             PROVE  BufferInv'
  OBVIOUS
<1>1. PipeInv'
  BY Zenon, StepInv DEF BufferInv
<1>2. CASE UNCHANGED vars
  BY Zenon, <1>1, <1>2, BufferStutter DEF BufferInv
<1>3. ASSUME NEW t \in Task, Step(t)
      PROVE  BufferInv'
  <2>1. UseCountExact /\ CountsAgree
    BY Zenon, ExactAgrees DEF BufferInv
  <2>2. \A Q \in SUBSET PID : Cardinality(Q) \in Nat
    BY Zenon, <1>QueueRefs
  <2>3. LocalsInv' /\ SharingInv' /\ Counted
    BY Zenon, <1>3, <2>1, <2>2, BufferStep
  <2>4. UseCountExact'
    BY Zenon, <2>1, <2>3, <1>CountedStep
  <2> QED BY Zenon, <1>1, <2>3, <2>4 DEF BufferInv
<1> QED BY Zenon, <1>2, <1>3 DEF Next, Step

-----------------------------------------------------------------------------
(***************************************************************************)
(* The gauges of the statistics packet                                     *)
(***************************************************************************)
\* What the gauges count.
PipesHeld == {s \in Slot : PipeId[s] \in PID}
Deletions == {t \in Task : pc[t] \in {"delete_unref", "delete_get", "delete_queue", "delete_free"}}
Subscriptions == {mp \in MsgId \X PID : mp[2] \in Dests[mp[1]]}
BuffersOut == {b \in Buf : UseCount[b] > 0}

\* What a step does with the blocks of the pool.
PoolStep(t) ==
    \/ UNCHANGED <<UseCount, SBBuffersInUse>>
    \/ \E b \in Buf : \E m, a, l : GetBufferFromPool(b, m, a, l)
    \/ \E S \in SUBSET Buf : DecrBufUseCnt(S)
    \/ Broadcast(t)

\* Every step keeps the gauges.
LEMMA GaugesStep == BufferInv /\ GaugesExact /\ [Next]_vars => GaugesExact'
\* The steps that move the gauges.
<1>GaugeSteps.
  ASSUME BufferTypes, BufLocal, NEW t \in Task, Step(t)
  PROVE  /\ PoolStep(t)
         /\ CreateFill(t) \/ DeleteFree(t) \/ UNCHANGED PipesInUse
         /\ \/ UNCHANGED SubscriptionsInUse
            \/ Reserving(t)
            \/ \E m \in MsgId, p \in PID : Subscribe(t, m, p) \/ Unsubscribe(t, m, p)
  <2> USE <1>GaugeSteps
  <2> DEFINE Goal == /\ PoolStep(t)
                     /\ CreateFill(t) \/ DeleteFree(t) \/ UNCHANGED PipesInUse
                     /\ \/ UNCHANGED SubscriptionsInUse
                        \/ Reserving(t)
                        \/ \E m \in MsgId, p \in PID : Subscribe(t, m, p) \/ Unsubscribe(t, m, p)
  <2>1. /\ \A p \in PID : LastBuffer[SlotOf(p)] \in Buf \cup {NULL}
        /\ zcHandle[t] \in Buf \cup {NULL}
        /\ pc[t] \in HasBuffer => tBuf[t] \in Buf
    BY SlotOfInTable DEF BufferTypes, BufLocal
  <2>2. CASE CreatePipe(t) \/ CreateQueue(t) \/ CreateFill(t) \/ CreateFail(t)
    BY Zenon, <2>2 DEF CreatePipe, CreateQueue, CreateFill, CreateFail, bufVars, PoolStep
  <2>3. CASE DeleteGet(t) \/ DeleteQueue(t) \/ DeleteFree(t)
    BY Zenon, <2>3 DEF DeleteGet, DeleteQueue, DeleteFree, bufVars, PoolStep
  <2>4. CASE DeleteUnref(t)
    <3>1. {tBuf[t]} \in SUBSET Buf
      BY Zenon, <2>1, <2>4 DEF DeleteUnref, HasBuffer
    <3> QED BY Zenon, <2>4, <3>1 DEF DeleteUnref, PoolStep
  <2>5. CASE ByNameScan(t) \/ ByNameReturn(t) \/ SendEvents(t) \/ ReceiveGet(t) \/ ReceiveNone(t)
    BY Zenon, <2>5 DEF ByNameScan, ByNameReturn, SendEvents, ReceiveGet, ReceiveNone, bufVars, PoolStep
  <2>6. CASE SendAlloc(t)
    BY Zenon, <2>6 DEF SendAlloc, bufVars, PoolStep
  <2>7. CASE Broadcast(t)
    BY Zenon, <2>7 DEF Broadcast, PoolStep
  <2>8. CASE ReceiveStore(t)
    <3>1. {tBuf[t]} \in SUBSET Buf
      BY Zenon, <2>1, <2>8 DEF ReceiveStore, HasBuffer
    <3> QED BY Zenon, <2>8, <3>1 DEF ReceiveStore, PoolStep
  <2>9. CASE CleanUpZeroCopy(t)
    <3>1. ZeroCopyOf(tApp[t]) \in SUBSET Buf
      BY Zenon DEF ZeroCopyOf
    <3> QED BY Zenon, <2>9, <3>1 DEF CleanUpZeroCopy, PoolStep
  <2>10. ASSUME NEW p \in PID, DeletePipe(t, p)
         PROVE  Goal
    BY Zenon, <2>10 DEF DeletePipe, DeletePipeReserve, MayCall, Reserving, bufVars, PoolStep
  <2>11. ASSUME NEW p \in PID \cup {RESERVED}, CleanUpPipe(t, p)
         PROVE  Goal
    BY Zenon, <2>11
       DEF CleanUpPipe, DeletePipeReserve, PipeDescIsMatch, Reserving, bufVars, PoolStep
  <2>12. ASSUME NEW p \in PID, ReceiveBuffer(t, p)
         PROVE  Goal
    <3>1. {LastBuffer[SlotOf(p)]} \ {NULL} \in SUBSET Buf
      BY Zenon, <2>1
    <3> QED BY Zenon, <2>12, <3>1 DEF ReceiveBuffer, PoolStep
  <2>13. ASSUME NEW p \in PID, GetPipeIdByName(t, p) \/ (\E on \in BOOLEAN : SetPipeOpts(t, p, on))
         PROVE  Goal
    BY Zenon, <2>13 DEF GetPipeIdByName, SetPipeOpts, bufVars, PoolStep
  <2>14. ASSUME NEW m \in MsgId, NEW p \in PID,
                Subscribe(t, m, p) \/ Unsubscribe(t, m, p) \/ (\E on \in BOOLEAN : SetRoute(t, m, p, on))
         PROVE  Goal
    BY Zenon, <2>14 DEF Subscribe, Unsubscribe, SetRoute, bufVars, PoolStep
  <2>15. ASSUME NEW m \in MsgId, TransmitMsg(t, m) \/ TransmitBuffer(t, m)
         PROVE  Goal
    BY Zenon, <2>15 DEF TransmitMsg, TransmitBuffer, bufVars, PoolStep
  <2>16. CASE ZeroCopyGetPtr(t)
    BY Zenon, <2>16 DEF ZeroCopyGetPtr, PoolStep
  <2>17. CASE ZeroCopyReleasePtr(t)
    <3>1. {zcHandle[t]} \in SUBSET Buf
      BY Zenon, <2>1, <2>17 DEF ZeroCopyReleasePtr, HandleValidate
    <3> QED BY Zenon, <2>17, <3>1 DEF ZeroCopyReleasePtr, PoolStep
  <2>18. ASSUME NEW a \in App, ExitApp(t) \/ CleanUpApp(t, a)
         PROVE  Goal
    BY Zenon, <2>18 DEF ExitApp, CleanUpApp, bufVars, PoolStep
  <2>19. CASE ExitApp(t) \/ Refused(t)
    BY Zenon, <2>19 DEF ExitApp, Refused, vars, bufVars, PoolStep
  <2> QED
    BY ZenonT(60), <2>2, <2>3, <2>4, <2>5, <2>6, <2>7, <2>8, <2>9, <2>10, <2>11, <2>12, <2>13,
       <2>14, <2>15, <2>16, <2>17, <2>18, <2>19
       DEF Step, Call, Continue

\* CFE_SB_GetBufferFromPool, CFE_SB_ReturnBufferToPool and the broadcast count
\* the blocks that are out of the pool.
<1>BuffersCounted.
  ASSUME BufferInv, CountsAgree, NEW t \in Task, PoolStep(t),
         SBBuffersInUse = Cardinality(BuffersOut)
  PROVE  SBBuffersInUse' = Cardinality(BuffersOut')
  <2> USE <1>BuffersCounted
  <2>1. UseCount \in [Buf -> Nat]
    BY Zenon DEF BufferInv, LocalsInv, BufferTypes
  <2>2. IsFiniteSet(BuffersOut) /\ Cardinality(BuffersOut) \in Nat
    BY SMTT(60), SBAssumption, FS_Subset, FS_CardinalityType DEF BuffersOut
  <2>3. CASE UNCHANGED <<UseCount, SBBuffersInUse>>
    BY Zenon, <2>3 DEF BuffersOut
  <2>4. ASSUME NEW b \in Buf, NEW m, NEW a, NEW l, GetBufferFromPool(b, m, a, l)
        PROVE  SBBuffersInUse' = Cardinality(BuffersOut')
    <3>1. b \notin BuffersOut /\ BuffersOut' = BuffersOut \cup {b}
      BY <2>1, <2>4 DEF GetBufferFromPool, FreeBufs, BuffersOut
    <3>2. Cardinality(BuffersOut \cup {b}) = Cardinality(BuffersOut) + 1
      BY Zenon, <2>2, <3>1, FS_AddElement
    <3> QED BY SMTT(60), <2>4, <3>1, <3>2 DEF GetBufferFromPool
  <2>5. ASSUME NEW S \in SUBSET Buf, DecrBufUseCnt(S)
        PROVE  SBBuffersInUse' = Cardinality(BuffersOut')
    <3> DEFINE Released == {b \in S : UseCount[b] = 1}
    <3>1. BuffersOut' = BuffersOut \ Released /\ BuffersOut \cap Released = Released
      BY <2>1, <2>5 DEF DecrBufUseCnt, BuffersOut
    <3>2. Cardinality(BuffersOut \ Released) =
            Cardinality(BuffersOut) - Cardinality(BuffersOut \cap Released)
      BY Zenon, <2>2, FS_Difference
    <3> QED BY <2>5, <3>1, <3>2 DEF DecrBufUseCnt
  <2>6. CASE Broadcast(t)
    <3> DEFINE b == tBuf[t]
               n == Cardinality(IF tRoute[t] THEN Accepting(t, BufMsgId[b]) ELSE {})
    <3>1. b \in Buf /\ UseCount[b] = 1
      <4>1. b \in Buf
        BY Zenon, <2>6 DEF Broadcast, BufferInv, LocalsInv, BufferTypes, BufLocal, HasBuffer
      <4>2. References(b) = {<<"worker", t>>}
        BY Zenon, <2>6 DEF Broadcast, BufferInv, SharingInv, SoleSender
      <4> QED BY Zenon, <4>1, <4>2 DEF CountsAgree
    <3>2. n \in Nat
      <4>1. IsFiniteSet(PID)
        BY SMTT(60), SBAssumption, FS_Interval DEF PID
      <4>2. Accepting(t, BufMsgId[b]) \in SUBSET PID
        BY Zenon DEF Accepting, Eligible, PipeDescIsMatch
      <4> QED BY SMTT(60), <4>1, <4>2, FS_Subset, FS_CardinalityType, FS_EmptySet
    <3>3. /\ UseCount' = [UseCount EXCEPT ![b] = UseAfter(b, n)]
          /\ SBBuffersInUse' = IF UseAfter(b, n) = 0 THEN SBBuffersInUse - 1 ELSE SBBuffersInUse
      BY Zenon, <2>6 DEF Broadcast
    <3>4. UseAfter(b, n) = n
      BY SMTT(60), <3>1, <3>2 DEF UseAfter
    <3> HIDE DEF b, n
    <3>5. b \in BuffersOut
      BY <3>1 DEF BuffersOut
    <3>6. CASE n = 0
      <4>1. BuffersOut' = BuffersOut \ {b}
        BY SMTT(60), <2>1, <3>1, <3>3, <3>4, <3>6 DEF BuffersOut
      <4> QED BY SMTT(60), <2>2, <3>3, <3>4, <3>5, <3>6, <4>1, FS_RemoveElement
    <3>7. CASE n # 0
      <4>1. BuffersOut' = BuffersOut
        BY SMTT(60), <2>1, <3>1, <3>2, <3>3, <3>4, <3>7 DEF BuffersOut
      <4> QED BY SMTT(60), <3>3, <3>4, <3>7, <4>1
    <3> QED BY Zenon, <3>6, <3>7
  <2> QED BY Zenon, <2>3, <2>4, <2>5, <2>6 DEF PoolStep

\* CFE_SB_SubscribeFull, CFE_SB_UnsubscribeFull and the deletion of a pipe count
\* the destinations.
<1>SubscriptionsCounted.
  ASSUME PipeInv, BufferTypes, BufLocal, NEW t \in Task, Step(t),
         SubscriptionsInUse = Cardinality(Subscriptions)
  PROVE  SubscriptionsInUse' = Cardinality(Subscriptions')
  <2> USE <1>SubscriptionsCounted
  <2>1. Dests \in [MsgId -> SUBSET PID]
    BY Zenon DEF PipeInv, PipeTypes
  <2>2. IsFiniteSet(MsgId) /\ IsFiniteSet(PID)
    BY SMTT(60), SBAssumption, FS_Interval DEF PID
  <2>3. IsFiniteSet(Subscriptions) /\ Cardinality(Subscriptions) \in Nat
    <3>1. IsFiniteSet(MsgId \X PID)
      BY <2>2, FS_Product
    <3>2. Subscriptions \in SUBSET (MsgId \X PID)
      BY Zenon DEF Subscriptions
    <3> QED BY SMTT(60), <3>1, <3>2, FS_Subset, FS_CardinalityType
  <2>4. ASSUME NEW m \in MsgId, NEW p \in PID, Subscribe(t, m, p)
        PROVE  SubscriptionsInUse' = Cardinality(Subscriptions')
    <3>1. CASE UNCHANGED <<Dests, SubscriptionsInUse>>
      BY Zenon, <3>1 DEF Subscriptions
    <3>2. CASE /\ Dests' = [Dests EXCEPT ![m] = @ \cup {p}]
               /\ SubscriptionsInUse' = SubscriptionsInUse + 1
      <4>1. <<m, p>> \notin Subscriptions
        BY <2>4 DEF Subscribe, Subscriptions
      <4>2. Subscriptions' = Subscriptions \cup {<<m, p>>}
        BY SMTT(60), <2>1, <3>2 DEF Subscriptions
      <4> QED BY Zenon, <2>3, <3>2, <4>1, <4>2, FS_AddElement
    <3> QED BY Zenon, <2>4, <3>1, <3>2 DEF Subscribe
  <2>5. ASSUME NEW m \in MsgId, NEW p \in PID, Unsubscribe(t, m, p)
        PROVE  SubscriptionsInUse' = Cardinality(Subscriptions')
    <3>1. <<m, p>> \in Subscriptions
      BY SMTT(60), <2>5 DEF Unsubscribe, Subscriptions
    <3>2. Subscriptions' = Subscriptions \ {<<m, p>>}
      BY SMTT(60), <2>1, <2>5 DEF Unsubscribe, Subscriptions
    <3>3. SubscriptionsInUse' = SubscriptionsInUse - 1
      BY Zenon, <2>5 DEF Unsubscribe
    <3> QED BY Zenon, <2>3, <3>1, <3>2, <3>3, FS_RemoveElement
  <2>6. ASSUME NEW p \in PID, DeletePipeReserve(t, p)
        PROVE  SubscriptionsInUse' = Cardinality(Subscriptions')
    <3> DEFINE M == {m \in MsgId : p \in Dests[m]}
    <3>1. /\ Dests' = [m \in MsgId |-> Dests[m] \ {p}]
          /\ SubscriptionsInUse' = SubscriptionsInUse - Cardinality(M)
      BY Zenon, <2>6 DEF DeletePipeReserve, RoutesWithout
    <3>2. Subscriptions' = Subscriptions \ (M \X {p}) /\ Subscriptions \cap (M \X {p}) = M \X {p}
      BY SMTT(60), <2>1, <3>1 DEF Subscriptions
    <3>3. IsFiniteSet(M) /\ Cardinality(M) \in Nat
      BY SMTT(60), <2>2, FS_Subset, FS_CardinalityType
    <3> HIDE DEF M
    <3>4. Cardinality(M \X {p}) = Cardinality(M) * 1
      <4>1. IsFiniteSet({p}) /\ Cardinality({p}) = 1
        BY Zenon, FS_Singleton
      <4> QED BY Zenon, <3>3, <4>1, FS_Product
    <3>5. \A n \in Nat : n * 1 = n
      OBVIOUS
    <3>6. Cardinality(M \X {p}) = Cardinality(M)
      BY Zenon, <3>3, <3>4, <3>5
    <3>7. Cardinality(Subscriptions \ (M \X {p})) =
            Cardinality(Subscriptions) - Cardinality(Subscriptions \cap (M \X {p}))
      BY Zenon, <2>3, FS_Difference
    <3> QED BY Zenon, <3>1, <3>2, <3>6, <3>7
  <2>7. CASE UNCHANGED <<Dests, SubscriptionsInUse>>
    BY Zenon, <2>7 DEF Subscriptions
  <2>8. \/ UNCHANGED Dests
        \/ Reserving(t)
        \/ \E m \in MsgId, p \in PID : Subscribe(t, m, p) \/ Unsubscribe(t, m, p)
    <3>1. Quiet(t) \/ PipeStep(t)
      BY Zenon, TwoKinds DEF PipeInv
    <3> QED BY Zenon, <3>1
               DEF Quiet, PipeStep, CreatePipe, CreateQueue, CreateFill, CreateFail, DeleteQueue,
                   DeleteFree, routeVars
  <2> QED BY Zenon, <2>4, <2>5, <2>6, <2>7, <2>8, <1>GaugeSteps DEF Reserving

\* CFE_SB_CreatePipe and CFE_SB_DeletePipeFull count the pipes; one that is
\* being deleted counts until its descriptor is free.
<1>PipesCounted.
  ASSUME PipeInv, BufferTypes, BufLocal, NEW t \in Task, Step(t),
         PipesInUse = Cardinality(PipesHeld) + Cardinality(Deletions)
  PROVE  PipesInUse' = Cardinality(PipesHeld') + Cardinality(Deletions')
  <2> USE <1>PipesCounted
  <2>1. /\ PipeId \in [Slot -> PID \cup {FREE, RESERVED}]
        /\ pc \in [Task -> PC]
    BY Zenon DEF PipeInv, PipeTypes
  <2>2. IsFiniteSet(PipesHeld) /\ Cardinality(PipesHeld) \in Nat
    <3>1. IsFiniteSet(Slot)
      BY SMTT(60), SBAssumption, FS_Interval DEF Slot
    <3> QED BY SMTT(60), <3>1, FS_Subset, FS_CardinalityType DEF PipesHeld
  <2>3. IsFiniteSet(Deletions) /\ Cardinality(Deletions) \in Nat
    BY SMTT(60), SBAssumption, FS_Subset, FS_CardinalityType DEF Deletions
  <2>4. Deletions = {u \in Task : pc[u] \in Draining \cup {"delete_free"}}
    BY Zenon DEF Deletions, Draining
  <2>5. pc[t] \in PipeWork => tPipe[t] \in PID /\ SlotOf(tPipe[t]) \in Slot
                              /\ PipeId[SlotOf(tPipe[t])] = RESERVED
    BY Zenon, SlotOfInTable DEF PipeInv, Reserved, ReservedBy
  <2>6. CASE CreateFill(t)
    <3> DEFINE s == SlotOf(tPipe[t])
    <3>1. /\ PipeId' = [PipeId EXCEPT ![s] = tPipe[t]] /\ s \in Slot /\ tPipe[t] \in PID
          /\ PipeId[s] = RESERVED
      BY Zenon, <2>5, <2>6 DEF CreateFill, PipeWork, Creating
    <3> HIDE DEF s
    <3>2. s \notin PipesHeld /\ PipesHeld' = PipesHeld \cup {s}
      BY SMTT(60), <2>1, <3>1, PseudoIds DEF PipesHeld
    <3>3. Deletions' = Deletions
      BY Zenon, <2>1, <2>6 DEF CreateFill, Return, Goto, Deletions
    <3>4. PipesInUse' = PipesInUse + 1
      BY Zenon, <2>6 DEF CreateFill
    <3>5. Cardinality(PipesHeld \cup {s}) = Cardinality(PipesHeld) + 1
      BY SMTT(60), <2>2, <3>2, FS_AddElement
    <3> QED BY SMTT(60), <2>2, <2>3, <3>2, <3>3, <3>4, <3>5
  <2>7. CASE DeleteFree(t)
    <3> DEFINE s == SlotOf(tPipe[t])
    <3>1. PipeId' = [PipeId EXCEPT ![s] = FREE] /\ s \in Slot /\ PipeId[s] = RESERVED
      BY Zenon, <2>5, <2>7 DEF DeleteFree, PipeWork
    <3> HIDE DEF s
    <3>2. PipesHeld' = PipesHeld
      BY SMTT(60), <2>1, <3>1, PseudoIds DEF PipesHeld
    <3>3. t \in Deletions /\ Deletions' = Deletions \ {t}
      BY Zenon, <2>1, <2>7 DEF DeleteFree, Goto, Deletions
    <3>4. PipesInUse' = PipesInUse - 1
      BY Zenon, <2>7 DEF DeleteFree
    <3>5. Cardinality(Deletions \ {t}) = Cardinality(Deletions) - 1
      BY SMTT(60), <2>3, <3>3, FS_RemoveElement
    <3> QED BY SMTT(60), <2>2, <2>3, <3>2, <3>3, <3>4, <3>5
  <2>8. CASE Reserving(t)
    <3>1. PICK p \in PID : pc[t] \in {"idle", "cleanup"} /\ DeletePipeReserve(t, p)
      BY Zenon, <2>8 DEF Reserving
    <3> DEFINE s == SlotOf(p)
    <3>2. /\ PipeId' = [PipeId EXCEPT ![s] = RESERVED] /\ s \in Slot /\ PipeId[s] = p
          /\ PipesInUse' = PipesInUse
      BY Zenon, <3>1, SlotOfInTable DEF DeletePipeReserve, PipeDescIsMatch
    <3>3. t \notin Deletions /\ Deletions' = Deletions \cup {t}
      BY Zenon, <2>1, <3>1 DEF DeletePipeReserve, FirstDrainStep, Goto, Deletions
    <3> HIDE DEF s
    <3>4. s \in PipesHeld /\ PipesHeld' = PipesHeld \ {s}
      BY SMTT(60), <2>1, <3>2, PseudoIds DEF PipesHeld
    <3>5. Cardinality(PipesHeld \ {s}) = Cardinality(PipesHeld) - 1
      BY Zenon, <2>2, <3>4, FS_RemoveElement
    <3>6. Cardinality(Deletions \cup {t}) = Cardinality(Deletions) + 1
      BY SMTT(60), <2>3, <3>3, FS_AddElement
    <3> QED BY SMTT(60), <2>2, <2>3, <3>2, <3>3, <3>4, <3>5, <3>6
  <2>9. ASSUME PipesHeld' = PipesHeld, Deletions' = Deletions, UNCHANGED PipesInUse
        PROVE  PipesInUse' = Cardinality(PipesHeld') + Cardinality(Deletions')
    BY Zenon, <2>9
  <2>10. CASE Quiet(t)
    <3>1. PipesHeld' = PipesHeld
      BY Zenon, <2>10 DEF Quiet, PipesHeld
    <3>2. \A u \in Task : pc'[u] \in Draining \cup {"delete_free"}
                            <=> pc[u] \in Draining \cup {"delete_free"}
      BY Zenon, <2>10 DEF Quiet, PipeWork
    <3>3. Deletions' = Deletions
      BY Zenon, <3>2 DEF Deletions, Draining
    <3> QED BY Zenon, <2>6, <2>7, <2>9, <3>1, <3>3, <1>GaugeSteps
  <2>11. CASE CreatePipe(t)
    <3>1. PICK p \in NextPipeId \cap PID : PipeId' = [PipeId EXCEPT ![SlotOf(p)] = RESERVED]
      BY Zenon, <2>11 DEF CreatePipe
    <3>2. SlotOf(p) \in Slot /\ PipeId[SlotOf(p)] = FREE
      BY Zenon, <3>1, SlotOfInTable, NextPipeIdFresh DEF PipeInv
    <3>3. PipesHeld' = PipesHeld
      BY SMTT(60), <2>1, <3>1, <3>2, PseudoIds DEF PipesHeld
    <3>4. Deletions' = Deletions /\ UNCHANGED PipesInUse
      BY Zenon, <2>1, <2>11 DEF CreatePipe, MayCall, Goto, Deletions
    <3> QED BY Zenon, <2>9, <3>3, <3>4
  <2>12. CASE CreateFail(t)
    <3> DEFINE s == SlotOf(tPipe[t])
    <3>1. PipeId' = [PipeId EXCEPT ![s] = FREE] /\ s \in Slot /\ PipeId[s] = RESERVED
      BY Zenon, <2>5, <2>12 DEF CreateFail, PipeWork, Creating
    <3>2. Deletions' = Deletions /\ UNCHANGED PipesInUse
      BY Zenon, <2>1, <2>12 DEF CreateFail, Return, Goto, Deletions
    <3> HIDE DEF s
    <3>3. PipesHeld' = PipesHeld
      BY <2>1, <3>1, PseudoIds DEF PipesHeld
    <3> QED BY Zenon, <2>9, <3>2, <3>3
  <2>13. CASE CreateQueue(t) \/ DeleteQueue(t)
    <3>1. PipesHeld' = PipesHeld /\ UNCHANGED PipesInUse
      BY Zenon, <2>13 DEF CreateQueue, DeleteQueue, pipeVars, PipesHeld
    <3>2. Deletions' = Deletions
      BY Zenon, <2>1, <2>13 DEF CreateQueue, DeleteQueue, Goto, Deletions
    <3> QED BY Zenon, <2>9, <3>1, <3>2
  <2>14. ASSUME NEW m \in MsgId, NEW p \in PID, Subscribe(t, m, p) \/ Unsubscribe(t, m, p)
         PROVE  PipesInUse' = Cardinality(PipesHeld') + Cardinality(Deletions')
    BY Zenon, <2>9, <2>14
       DEF Subscribe, Unsubscribe, pipeVars, taskVars, PipesHeld, Deletions
  <2> QED BY Zenon, <2>6, <2>7, <2>8, <2>10, <2>11, <2>12, <2>13, <2>14, TwoKinds
             DEF PipeInv, PipeStep

<1> SUFFICES ASSUME BufferInv, GaugesExact, [Next]_vars
             PROVE  GaugesExact'
  BY Zenon
<1> USE DEF PipesHeld, Deletions, Subscriptions, BuffersOut
<1>1. CASE UNCHANGED vars
  BY Zenon, <1>1 DEF GaugesExact, vars, pipeVars, routeVars, bufVars, taskVars
<1>2. ASSUME NEW t \in Task, Step(t)
      PROVE  GaugesExact'
  <2>1. PipeInv /\ BufferTypes /\ BufLocal /\ CountsAgree
    BY Zenon, ExactAgrees DEF BufferInv, LocalsInv
  <2>2. PipesInUse' = Cardinality(PipesHeld') + Cardinality(Deletions')
    BY Zenon, <1>2, <2>1, <1>PipesCounted DEF GaugesExact
  <2>3. SubscriptionsInUse' = Cardinality(Subscriptions')
    BY Zenon, <1>2, <2>1, <1>SubscriptionsCounted DEF GaugesExact
  <2>4. SBBuffersInUse' = Cardinality(BuffersOut')
    BY Zenon, <1>2, <2>1, <1>BuffersCounted, <1>GaugeSteps DEF GaugesExact
  <2> QED BY Zenon, <2>2, <2>3, <2>4 DEF GaugesExact
<1> QED BY Zenon, <1>1, <1>2 DEF Next, Step

\* Nothing exists at the start.
LEMMA GaugesInit == Init => GaugesExact
<1> SUFFICES ASSUME Init
             PROVE  GaugesExact
  OBVIOUS
<1>1. /\ {s \in Slot : PipeId[s] \in PID} = {}
      /\ {t \in Task : pc[t] \in {"delete_unref", "delete_get", "delete_queue",
                                    "delete_free"}} = {}
  BY PseudoIds DEF Init
<1>2. {mp \in MsgId \X PID : mp[2] \in Dests[mp[1]]} = {}
  BY DEF Init
<1>3. {b \in Buf : UseCount[b] > 0} = {}
  BY DEF Init
<1>4. PipesInUse = 0 + 0 /\ SubscriptionsInUse = 0 /\ SBBuffersInUse = 0
  BY DEF Init
<1> QED BY Zenon, <1>1, <1>2, <1>3, <1>4, FS_EmptySet DEF GaugesExact

-----------------------------------------------------------------------------
-----------------------------------------------------------------------------
\* CFE_SB_EarlyInit: nothing to count.
LEMMA CountInit == Init => CountInv
<1> SUFFICES ASSUME Init PROVE CountInv
  OBVIOUS
<1>1. CountTypes
  <2>1. CurrentQueueDepth \in [Slot -> Nat] /\ BuffCount \in [MsgId -> [PID -> Nat]]
    BY DEF Init
  <2> QED BY ZenonT(60), <2>1 DEF Init, CountTypes
<1>2. ASSUME NEW s \in Slot
      PROVE  DepthAt(s)
  BY Zenon, PseudoIds DEF Init, DepthAt
<1>3. ASSUME NEW t \in Task
      PROVE  NewDepth(t)
  BY Zenon DEF Init, NewDepth, Creating
<1>4. ASSUME NEW m \in MsgId, NEW p \in PID
      PROVE  CountAt(m, p)
  BY Zenon DEF Init, CountAt
<1> QED BY Zenon, <1>1, <1>2, <1>3, <1>4 DEF CountInv

\* Every step keeps the counts.
LEMMA CountInvStep == BufferInv /\ MessageInv /\ CountInv /\ [Next]_vars => CountInv'
(***************************************************************************)
(* The counts of a pipe                                                    *)
(***************************************************************************)
\* The numbers behind the counts.
<1>CountSets.
  ASSUME BufferTypes, NEW p \in PID
  PROVE  /\ Len(Queue[p]) \in Nat
         /\ IsFiniteSet(ReadersAt(p)) /\ Cardinality(ReadersAt(p)) \in Nat
         /\ \A m : /\ IsFiniteSet(OnQueue(m, p)) /\ Cardinality(OnQueue(m, p)) \in Nat
                   /\ IsFiniteSet(InHand(m, p)) /\ Cardinality(InHand(m, p)) \in Nat
                   /\ Pending(m, p) = Cardinality(OnQueue(m, p)) + Cardinality(InHand(m, p))
  <2> USE <1>CountSets
  <2>1. Len(Queue[p]) \in Nat
    BY DEF BufferTypes
  <2>2. IsFiniteSet(Task)
    BY Zenon, SBAssumption
  <2>3. ReadersAt(p) \in SUBSET Task
    BY Zenon DEF ReadersAt
  <2>4. IsFiniteSet(ReadersAt(p)) /\ Cardinality(ReadersAt(p)) \in Nat
    BY Zenon, <2>2, <2>3, FS_Subset, FS_CardinalityType
  <2>5. ASSUME NEW m
        PROVE  /\ IsFiniteSet(OnQueue(m, p)) /\ Cardinality(OnQueue(m, p)) \in Nat
               /\ IsFiniteSet(InHand(m, p)) /\ Cardinality(InHand(m, p)) \in Nat
               /\ Pending(m, p) = Cardinality(OnQueue(m, p)) + Cardinality(InHand(m, p))
    <3>1. IsFiniteSet(1..Len(Queue[p]))
      <4>1. 1 \in Int /\ Len(Queue[p]) \in Int
        BY <2>1
      <4> QED BY Zenon, <4>1, FS_Interval
    <3>2. OnQueue(m, p) \in SUBSET (1..Len(Queue[p])) /\ InHand(m, p) \in SUBSET Task
      BY Zenon DEF OnQueue, InHand
    <3> QED BY Zenon, <2>2, <3>1, <3>2, FS_Subset, FS_CardinalityType
            DEF Pending, OnQueue, InHand
  <2> QED BY Zenon, <2>1, <2>4, <2>5

\* The depths stay right.
<1>DepthStep.
  ASSUME BufferInv, CountsAgree, MessageInv, CountInv, NEW t \in Task, Step(t), NEW s \in Slot
  PROVE  DepthAt(s)'
  <2> USE <1>DepthStep
  <2> SUFFICES ASSUME NEW p \in PID, PipeId'[s] = p
               PROVE  CurrentQueueDepth'[s] = Len(Queue'[p]) + Cardinality(ReadersAt(p)')
    BY Zenon DEF DepthAt, ReadersAt, TakenFrom
  <2> USE SlotOfInTable, PseudoIds
  <2>1. /\ PipeTypes /\ SlotsOK /\ Reserved /\ BufferTypes /\ Readers /\ CountTypes
        /\ \A u \in Task : NewEmpty(u) /\ NewDepth(u)
    BY Zenon DEF BufferInv, PipeInv, LocalsInv, MessageInv, CountInv
  <2>2. /\ PipeId \in [Slot -> PID \cup {FREE, RESERVED}] /\ CurrentQueueDepth \in [Slot -> Nat]
        /\ Queue \in [PID -> Seq(Buf)]
        /\ tPipe \in [Task -> PID \cup {FREE, RESERVED}] /\ pc \in [Task -> PC]
    BY Zenon, <2>1 DEF PipeTypes, CountTypes, BufferTypes
  <2>3. PipeId[s] = p => CurrentQueueDepth[s] = Len(Queue[p]) + Cardinality(ReadersAt(p))
    BY Zenon DEF CountInv, DepthAt
  <2>4. Len(Queue[p]) \in Nat /\ Cardinality(ReadersAt(p)) \in Nat /\ IsFiniteSet(ReadersAt(p))
    BY Zenon, <2>1, <1>CountSets
  <2>5. PipeId[s] = p => SlotOf(p) = s
    BY Zenon, <2>1 DEF SlotsOK
  <2>6. CASE DepthSteady
    BY Zenon, <2>3, <2>6, SameReaders DEF DepthSteady, Steady
  <2>7. CASE CreatePipe(t) /\ Steady
    <3>1. PICK q \in PID : /\ PipeId' = [PipeId EXCEPT ![SlotOf(q)] = RESERVED]
                           /\ CurrentQueueDepth' =
                                [CurrentQueueDepth EXCEPT ![SlotOf(q)] = ClearedDepth(@)]
      BY Zenon, <2>7 DEF CreatePipe
    <3>2. PipeId[s] = p /\ CurrentQueueDepth'[s] = CurrentQueueDepth[s]
      BY Zenon, <2>2, <3>1
    <3> QED BY Zenon, <2>3, <2>7, <3>2, SameReaders DEF Steady
  <2>8. CASE CreateFill(t) /\ Steady
    <3>1. UNCHANGED <<Queue, CurrentQueueDepth>> /\ ReadersAt(p)' = ReadersAt(p)
      BY Zenon, <2>8, SameReaders DEF Steady, CreateFill
    <3>2. PipeId' = [PipeId EXCEPT ![SlotOf(tPipe[t])] = tPipe[t]]
      BY Zenon, <2>8 DEF CreateFill
    <3>3. tPipe[t] \in PID /\ PipeId[SlotOf(tPipe[t])] = RESERVED
      BY Zenon, <2>1, <2>8 DEF CreateFill, Reserved, ReservedBy, PipeWork, Creating
    <3>4. CASE p = tPipe[t]
      <4>1. SlotOf(p) = s
        <5>1. s # SlotOf(p) => PipeId[s] = p
          BY Zenon, <2>2, <3>2, <3>4
        <5> QED BY Zenon, <5>1, <2>5
      <4>2. Queue[p] = <<>> /\ CurrentQueueDepth[s] = 0
        BY Zenon, <2>1, <2>8, <3>4, <4>1 DEF CreateFill, NewEmpty, NewDepth, Creating
      <4>3. ReadersAt(p) = {}
        <5>1. ASSUME NEW u \in ReadersAt(p)
              PROVE  FALSE
          <6>1. u \in Task /\ pc[u] = "receive_store" /\ tPipe[u] = p
            BY Zenon DEF ReadersAt, TakenFrom
          <6>2. \A v \in Task : pc[v] \in Creating => tPipe[v] # tPipe[u]
            BY Zenon, <2>1, <6>1 DEF Readers, ReaderOf, InReceive
          <6> QED BY Zenon, <2>8, <3>4, <6>1, <6>2 DEF CreateFill, Creating
        <5> QED BY Zenon, <5>1
      <4>4. Cardinality(ReadersAt(p)') = 0
        BY Zenon, <3>1, <4>3, FS_EmptySet
      <4>5. Len(Queue'[p]) = 0 /\ CurrentQueueDepth'[s] = 0
        BY <3>1, <4>2
      <4> QED BY <4>4, <4>5
    <3>5. CASE p # tPipe[t]
      <4>1. PipeId[s] = p
        BY Zenon, <2>2, <3>2, <3>3, <3>5
      <4> QED BY Zenon, <2>3, <3>1, <4>1
    <3> QED BY Zenon, <3>4, <3>5
  <2>9. CASE Broadcast(t)
    <3>1. PICK Acc \in SUBSET PID : Delivered(tBuf[t], BufMsgId[tBuf[t]], Acc)
      BY Zenon, <2>9, BroadcastCounts
    <3>2. pc[t] # "receive_store" /\ pc'[t] # "receive_store"
      BY Zenon, <2>2, <2>9 DEF Broadcast, Goto
    <3>3. ReadersAt(p)' = ReadersAt(p) /\ PipeId[s] = p
      BY Zenon, <3>1, <3>2, SteadyReaders, SameReaders DEF Delivered
    <3>4. (\E q \in Acc : SlotOf(q) = s) <=> p \in Acc
      BY Zenon, <2>5, <3>1, <3>3 DEF Delivered, PipeDescIsMatch
    <3>5. CASE p \in Acc
      <4>1. CurrentQueueDepth'[s] = CurrentQueueDepth[s] + 1 /\ Queue'[p] = Append(Queue[p], tBuf[t])
        BY Zenon, <3>1, <3>4, <3>5 DEF Delivered
      <4>2. tBuf[t] \in Buf
        BY Zenon, <2>1, <2>9 DEF Broadcast, BufferTypes, BufferInv, LocalsInv, BufLocal, HasBuffer
      <4>3. Len(Queue'[p]) = Len(Queue[p]) + 1
        BY SMTT(60), <2>2, <4>1, <4>2
      <4> QED BY SMTT(60), <2>3, <2>4, <3>3, <4>1, <4>3
    <3>6. CASE p \notin Acc
      BY Zenon, <2>3, <3>1, <3>3, <3>4, <3>6 DEF Delivered
    <3> QED BY Zenon, <3>5, <3>6
  <2>10. CASE ReceiveGet(t)
    <3>1. PipeId[s] = p /\ CurrentQueueDepth' = CurrentQueueDepth /\ tPipe' = tPipe
      BY Zenon, <2>10 DEF ReceiveGet, pipeVars
    <3>2. tPipe[t] \in PID /\ tQueue[t] = tPipe[t]
      BY Zenon, <2>1, <2>10 DEF ReceiveGet, Readers, ReaderOf, InReceive
    <3>3. Queue' = [Queue EXCEPT ![tPipe[t]] = Tail(@)] /\ Queue[tPipe[t]] # <<>>
      BY Zenon, <2>10, <3>2 DEF ReceiveGet
    <3>4. pc' = [pc EXCEPT ![t] = "receive_store"]
      BY Zenon, <2>10 DEF ReceiveGet, Goto
    <3>5. CASE p = tPipe[t]
      <4>1. ReadersAt(p) = {}
        BY Zenon, <2>1, <2>10, <3>2, <3>5, OneReader DEF ReceiveGet
      <4>2. \A u : u \in ReadersAt(p)' <=> u = t
        <5>1. \A u \in Task : TakenFrom(u, p)' <=> pc'[u] = "receive_store" /\ tPipe[u] = p
          BY Zenon, <3>1 DEF TakenFrom
        <5>2. \A u \in Task : ~ (pc[u] = "receive_store" /\ tPipe[u] = p)
          BY Zenon, <4>1 DEF ReadersAt, TakenFrom
        <5>3. \A u \in Task : TakenFrom(u, p)' <=> u = t
          BY Zenon, <2>2, <3>4, <3>5, <5>1, <5>2
        <5> QED BY Zenon, <5>3 DEF ReadersAt
      <4>3. ReadersAt(p)' = {t}
        BY Zenon, <4>2
      <4>4. Cardinality(ReadersAt(p)') = 1 /\ Cardinality(ReadersAt(p)) = 0
        BY Zenon, <4>1, <4>3, FS_Singleton, FS_EmptySet
      <4>5. Len(Queue'[p]) = Len(Queue[p]) - 1
        BY SMTT(60), <2>2, <3>3, <3>5
      <4> QED BY SMTT(60), <2>3, <2>4, <3>1, <4>4, <4>5
    <3>6. CASE p # tPipe[t]
      <4>1. \A u \in Task : TakenFrom(u, p)' <=> TakenFrom(u, p)
        BY Zenon, <2>2, <3>1, <3>4, <3>6 DEF TakenFrom
      <4>2. ReadersAt(p)' = ReadersAt(p)
        BY Zenon, <4>1 DEF ReadersAt
      <4>3. Queue'[p] = Queue[p]
        BY Zenon, <2>2, <3>3, <3>6
      <4> QED BY Zenon, <2>3, <3>1, <4>2, <4>3
    <3> QED BY Zenon, <3>5, <3>6
  <2>11. CASE ReceiveStore(t)
    <3>1. PipeId[s] = p /\ UNCHANGED Queue
      BY Zenon, <2>11 DEF ReceiveStore, osVars
    <3>2. tPipe[t] \in PID /\ tPipe' = [tPipe EXCEPT ![t] = FREE] /\ pc' = [pc EXCEPT ![t] = "idle"]
      BY Zenon, <2>1, <2>11 DEF ReceiveStore, Readers, ReaderOf, InReceive, Return, Goto
    <3>3. CASE p = tPipe[t]
      <4>1. ReadersAt(p) = {t}
        BY Zenon, <2>1, <2>11, <3>3, OneReader DEF ReceiveStore
      <4>2. ReadersAt(p)' = {}
        <5>1. \A u \in Task : ~ TakenFrom(u, p)'
          <6>1. \A u \in Task : TakenFrom(u, p)' <=> pc'[u] = "receive_store" /\ tPipe'[u] = p
            BY Zenon DEF TakenFrom
          <6>2. \A u \in Task \ {t} : ~ (pc[u] = "receive_store" /\ tPipe[u] = p)
            BY Zenon, <4>1 DEF ReadersAt, TakenFrom
          <6> QED BY Zenon, <2>2, <3>2, <6>1, <6>2
        <5> QED BY Zenon, <5>1 DEF ReadersAt
      <4>3. Cardinality(ReadersAt(p)) = 1 /\ Cardinality(ReadersAt(p)') = 0
        BY Zenon, <4>1, <4>2, FS_Singleton, FS_EmptySet
      <4>4. SamePipe(p)
        BY Zenon, <2>5, <3>1 DEF SamePipe, PipeDescIsMatch
      <4>5. CurrentQueueDepth' = [CurrentQueueDepth EXCEPT ![s] = IF @ > 0 THEN @ - 1 ELSE @]
        BY Zenon, <2>5, <2>11, <3>1, <3>3, <4>4 DEF ReceiveStore
      <4> QED BY SMTT(60), <2>2, <2>3, <2>4, <3>1, <4>3, <4>5
    <3>4. CASE p # tPipe[t]
      <4>1. \A u \in Task : TakenFrom(u, p)' <=> TakenFrom(u, p)
        BY Zenon, <2>2, <3>2, <3>4 DEF TakenFrom
      <4>2. ReadersAt(p)' = ReadersAt(p)
        BY Zenon, <4>1 DEF ReadersAt
      <4>3. CurrentQueueDepth'[s] = CurrentQueueDepth[s]
        <5>1. SamePipe(tPipe[t]) => SlotOf(tPipe[t]) # s
          BY Zenon, <3>1, <3>4 DEF SamePipe, PipeDescIsMatch
        <5>2. \/ CurrentQueueDepth' = CurrentQueueDepth
              \/ /\ SamePipe(tPipe[t])
                 /\ CurrentQueueDepth' = [CurrentQueueDepth EXCEPT ![SlotOf(tPipe[t])] =
                                            IF @ > 0 THEN @ - 1 ELSE @]
          BY Zenon, <2>11 DEF ReceiveStore
        <5> QED BY Zenon, <2>2, <5>1, <5>2
      <4> QED BY Zenon, <2>3, <3>1, <4>2, <4>3
    <3> QED BY Zenon, <3>3, <3>4
  <2>12. CASE DeleteGet(t)
    <3>1. PipeId[s] = p /\ CurrentQueueDepth' = CurrentQueueDepth
      BY Zenon, <2>12 DEF DeleteGet, pipeVars
    <3>2. pc[t] # "receive_store" /\ pc'[t] # "receive_store"
      BY Zenon, <2>2, <2>12 DEF DeleteGet, Goto
    <3>3. tQueue[t] = tPipe[t] /\ PipeId[SlotOf(tPipe[t])] = RESERVED
      BY Zenon, <2>1, <2>12 DEF DeleteGet, Reserved, ReservedBy, PipeWork, Draining
    <3>4. p # tPipe[t]
      BY Zenon, <2>5, <3>1, <3>3
    <3>5. UNCHANGED Queue \/ Queue' = [Queue EXCEPT ![tPipe[t]] = Tail(@)]
      BY Zenon, <2>12, <3>3 DEF DeleteGet
    <3>6. Queue'[p] = Queue[p]
      BY Zenon, <2>2, <3>4, <3>5
    <3> QED BY Zenon, <2>3, <3>1, <3>2, <3>6, SteadyReaders, SameReaders
  <2> QED
    BY Zenon, <2>1, <2>6, <2>7, <2>8, <2>9, <2>10, <2>11, <2>12, CountKinds

\* The depth of a new pipe is zero until it exists.
<1>NewDepthStep.
  ASSUME BufferInv, CountsAgree, MessageInv, CountInv, NEW t \in Task, Step(t), NEW u \in Task
  PROVE  NewDepth(u)'
  <2> USE <1>NewDepthStep
  <2> SUFFICES ASSUME pc'[u] \in Creating
               PROVE  CurrentQueueDepth'[SlotOf(tPipe'[u])] = 0
    BY Zenon DEF NewDepth, SlotOf
  <2> USE SlotOfInTable, PseudoIds
  <2>1. /\ PipeTypes /\ SlotsOK /\ Reserved /\ BufferTypes /\ Readers /\ CountTypes
        /\ \A v \in Task : NewDepth(v)
    BY Zenon DEF BufferInv, PipeInv, LocalsInv, CountInv
  <2>2. /\ PipeId \in [Slot -> PID \cup {FREE, RESERVED}] /\ CurrentQueueDepth \in [Slot -> Nat]
        /\ tPipe \in [Task -> PID \cup {FREE, RESERVED}] /\ pc \in [Task -> PC]
    BY Zenon, <2>1 DEF PipeTypes, CountTypes
  <2>3. CASE DepthSteady
    BY Zenon, <2>1, <2>3 DEF DepthSteady, NewDepth
  <2>4. CASE CreatePipe(t)
    <3>1. PICK p \in NextPipeId \cap PID :
             /\ CurrentQueueDepth' = [CurrentQueueDepth EXCEPT ![SlotOf(p)] = ClearedDepth(@)]
             /\ tPipe' = [tPipe EXCEPT ![t] = p]
      BY Zenon, <2>4 DEF CreatePipe
    <3>2. pc' = [pc EXCEPT ![t] = "create_queue"] /\ PipeId[SlotOf(p)] = FREE
      BY Zenon, <2>1, <2>4, NextPipeIdFresh DEF CreatePipe, Goto
    <3>3. CASE u = t
      BY Zenon, <2>2, <3>1, <3>3 DEF ClearedDepth
    <3>4. CASE u # t
      <4>1. pc[u] \in Creating /\ tPipe'[u] = tPipe[u]
        BY Zenon, <2>2, <3>1, <3>2, <3>4
      <4>2. PipeId[SlotOf(tPipe[u])] = RESERVED /\ tPipe[u] \in PID
        BY Zenon, <2>1, <4>1 DEF Reserved, ReservedBy, PipeWork
      <4> QED BY Zenon, <2>1, <2>2, <3>1, <3>2, <4>1, <4>2 DEF NewDepth
    <3> QED BY Zenon, <3>3, <3>4
  <2>5. ASSUME pc[u] \in Creating, tPipe'[u] = tPipe[u],
               \A s \in Slot : PipeId[s] = RESERVED => CurrentQueueDepth'[s] = CurrentQueueDepth[s]
        PROVE  CurrentQueueDepth'[SlotOf(tPipe'[u])] = 0
    <3>1. PipeId[SlotOf(tPipe[u])] = RESERVED /\ tPipe[u] \in PID
      BY Zenon, <2>1, <2>5 DEF Reserved, ReservedBy, PipeWork
    <3> QED BY Zenon, <2>1, <2>5, <3>1 DEF NewDepth
  <2>6. ASSUME NEW l, l \notin Creating, pc' = [pc EXCEPT ![t] = l]
        PROVE  pc[u] \in Creating /\ u # t
    BY Zenon, <2>2, <2>6
  <2>7. CASE CreateFill(t)
    <3>1. pc' = [pc EXCEPT ![t] = "idle"] /\ tPipe' = [tPipe EXCEPT ![t] = FREE]
          /\ CurrentQueueDepth' = CurrentQueueDepth
      BY Zenon, <2>7 DEF CreateFill, Return, Goto
    <3> QED BY Zenon, <2>2, <2>5, <2>6, <3>1 DEF Creating
  <2>8. CASE Broadcast(t)
    <3>1. PICK Acc \in SUBSET PID : Delivered(tBuf[t], BufMsgId[tBuf[t]], Acc)
      BY Zenon, <2>8, BroadcastCounts
    <3>2. pc' = [pc EXCEPT ![t] = "send_events"] \/ pc' = [pc EXCEPT ![t] = "idle"]
      BY Zenon, <2>8 DEF Broadcast, Goto
    <3>3. \A s \in Slot : PipeId[s] = RESERVED => CurrentQueueDepth'[s] = CurrentQueueDepth[s]
      BY Zenon, <3>1 DEF Delivered, PipeDescIsMatch
    <3> QED BY Zenon, <2>5, <2>6, <3>1, <3>2, <3>3 DEF Delivered, Creating
  <2>9. CASE ReceiveGet(t) \/ DeleteGet(t)
    <3>1. tPipe' = tPipe /\ CurrentQueueDepth' = CurrentQueueDepth
      BY Zenon, <2>9 DEF ReceiveGet, DeleteGet, pipeVars
    <3>2. \E l : l \notin Creating /\ pc' = [pc EXCEPT ![t] = l]
      BY Zenon, <2>9 DEF ReceiveGet, DeleteGet, Goto, Creating
    <3> QED BY Zenon, <2>5, <2>6, <3>1, <3>2
  <2>10. CASE ReceiveStore(t)
    <3>1. pc' = [pc EXCEPT ![t] = "idle"] /\ tPipe' = [tPipe EXCEPT ![t] = FREE]
      BY Zenon, <2>10 DEF ReceiveStore, Return, Goto
    <3>2. \/ CurrentQueueDepth' = CurrentQueueDepth
          \/ /\ SamePipe(tPipe[t])
             /\ CurrentQueueDepth' = [CurrentQueueDepth EXCEPT ![SlotOf(tPipe[t])] =
                                        IF @ > 0 THEN @ - 1 ELSE @]
      BY Zenon, <2>10 DEF ReceiveStore
    <3>3. \A s \in Slot : PipeId[s] = RESERVED => CurrentQueueDepth'[s] = CurrentQueueDepth[s]
      BY Zenon, <2>2, <3>2 DEF SamePipe, PipeDescIsMatch
    <3> QED BY Zenon, <2>2, <2>5, <2>6, <3>1, <3>3 DEF Creating
  <2> QED
    BY Zenon, <2>1, <2>3, <2>4, <2>7, <2>8, <2>9, <2>10, CountKinds

\* Taking the first message off a queue takes it out of the count of its ID.
<1>TailCount.
  ASSUME NEW q \in Seq(Buf), q # <<>>, NEW id, NEW m, IsFiniteSet(Carrying(q, id, m))
  PROVE  Cardinality(Carrying(Tail(q), id, m)) =
           IF id[Head(q)] = m THEN Cardinality(Carrying(q, id, m)) - 1
           ELSE Cardinality(Carrying(q, id, m))
  <2> USE <1>TailCount
  <2> DEFINE n == Len(q)
             A == {i \in 1..n : id[q[i]] = m}
             B == {i \in 1..Len(Tail(q)) : id[Tail(q)[i]] = m}
             f == [i \in A \ {1} |-> i - 1]
  <2>1. /\ n \in Nat /\ n >= 1 /\ Len(Tail(q)) = n - 1 /\ Head(q) = q[1]
        /\ \A i \in 1..(n - 1) : Tail(q)[i] = q[i + 1]
    OBVIOUS
  <2>2. \A i \in A \ {1} : i - 1 \in B
    BY <2>1
  <2>3. \A j \in B : j + 1 \in A \ {1} /\ (j + 1) - 1 = j
    BY <2>1
  <2>4. \A i, j \in A \ {1} : i - 1 = j - 1 => i = j
    BY <2>1
  <2>5. 1 \in A <=> id[Head(q)] = m
    BY <2>1
  <2> HIDE DEF n, A, B
  <2>6. f \in Bijection(A \ {1}, B)
    <3>1. f \in [A \ {1} -> B]
      BY Zenon, <2>2
    <3>2. \A i, j \in A \ {1} : f[i] = f[j] => i = j
      BY Zenon, <2>4
    <3>3. \A j \in B : \E i \in A \ {1} : f[i] = j
      BY Zenon, <2>3
    <3> HIDE DEF f
    <3>4. DOMAIN f = A \ {1}
      BY Zenon, <3>1
    <3> QED BY Zenon, <3>1, <3>2, <3>3, <3>4 DEF Bijection, Injection, Surjection, IsInjective
  <2>7. IsFiniteSet(A)
    BY Zenon DEF A, n, Carrying
  <2>8. IsFiniteSet(A \ {1}) /\
        Cardinality(A \ {1}) = IF 1 \in A THEN Cardinality(A) - 1 ELSE Cardinality(A)
    BY Zenon, <2>7, FS_RemoveElement
  <2>9. Cardinality(B) = Cardinality(A \ {1})
    <3>1. ExistsBijection(A \ {1}, B)
      BY Zenon, <2>6 DEF ExistsBijection
    <3>2. IsFiniteSet(A \ {1})
      BY Zenon, <2>8
    <3> HIDE DEF f
    <3> QED BY Zenon, <3>1, <3>2, FS_Bijection
  <2>10. Cardinality(B) = IF id[Head(q)] = m THEN Cardinality(A) - 1 ELSE Cardinality(A)
    BY Zenon, <2>5, <2>8, <2>9
  <2> QED BY Zenon, <2>10 DEF A, B, n, Carrying

\* BuffCount never exceeds the messages on the pipe.
<1>CountStep.
  ASSUME BufferInv, CountsAgree, MessageInv, CountInv, NEW t \in Task, Step(t),
         NEW m \in MsgId, NEW p \in PID
  PROVE  CountAt(m, p)'
  <2> USE <1>CountStep
  <2> SUFFICES ASSUME p \in Dests'[m]
               PROVE  BuffCount'[m][p] <= Cardinality(OnQueue(m, p)') + Cardinality(InHand(m, p)')
    BY Zenon DEF CountAt, Pending, OnQueue, InHand
  <2> DEFINE On == Cardinality(OnQueue(m, p))
             Hand == Cardinality(InHand(m, p))
  <2>1. /\ PipeTypes /\ Reserved /\ DestsOK /\ BufferTypes /\ Readers /\ CountTypes
        /\ \A u \in Task : Unsent(u)
    BY Zenon DEF BufferInv, PipeInv, LocalsInv, MessageInv, CountInv
  <2>2. /\ Queue \in [PID -> Seq(Buf)] /\ BuffCount \in [MsgId -> [PID -> Nat]]
        /\ tPipe \in [Task -> PID \cup {FREE, RESERVED}] /\ pc \in [Task -> PC]
        /\ tBuf \in [Task -> Buf \cup {NULL}]
    BY Zenon, <2>1 DEF PipeTypes, CountTypes, BufferTypes
  <2>3. /\ On \in Nat /\ Hand \in Nat /\ Pending(m, p) = On + Hand /\ Len(Queue[p]) \in Nat
        /\ IsFiniteSet(OnQueue(m, p))
    BY Zenon, <2>1, <1>CountSets
  <2>4. BuffCount[m][p] \in Nat
    BY Zenon, <2>2
  <2>5. p \in Dests[m] => BuffCount[m][p] <= On + Hand
    BY Zenon, <2>3 DEF CountInv, CountAt
  <2>6. p \in Dests[m] => PipeDescIsMatch(p)
    BY Zenon, <2>1 DEF DestsOK
  <2> HIDE DEF On, Hand
  <2>7. ASSUME Queue'[p] = Queue[p]
        PROVE  OnQueue(m, p)' = OnQueue(m, p)
    <3>1. HeadersKept
      BY Zenon, QueuedKept
    <3>2. \A i \in 1..Len(Queue[p]) : Queue[p][i] \in Buf
      BY <2>2
    <3>3. \A i \in 1..Len(Queue[p]) : BufMsgId'[Queue[p][i]] = BufMsgId[Queue[p][i]]
      BY Zenon, <3>1, <3>2 DEF HeadersKept, QueuesOf
    <3>4. OnQueue(m, p)' = {i \in 1..Len(Queue[p]) : BufMsgId'[Queue[p][i]] = m}
      BY Zenon, <2>7 DEF OnQueue
    <3> QED BY Zenon, <3>3, <3>4 DEF OnQueue
  <2>8. CASE Steady
    <3>1. OnQueue(m, p)' = OnQueue(m, p) /\ InHand(m, p)' = InHand(m, p)
      BY Zenon, <2>7, <2>8, SameReaders DEF Steady
    <3>2. \/ BuffCount'[m][p] = 0
          \/ p \in Dests[m] /\ BuffCount'[m][p] = BuffCount[m][p]
      BY Zenon, <2>8 DEF Steady
    <3>3. Cardinality(OnQueue(m, p)') = On /\ Cardinality(InHand(m, p)') = Hand
      BY Zenon, <3>1 DEF On, Hand
    <3> QED BY SMTT(60), <2>3, <2>5, <3>2, <3>3
  <2>9. CASE Broadcast(t)
    <3> DEFINE b == tBuf[t]
               n == Len(Queue[p])
    <3>1. PICK Acc \in SUBSET PID : Delivered(b, BufMsgId[b], Acc)
      BY Zenon, <2>9, BroadcastCounts
    <3>2. pc[t] # "receive_store" /\ pc'[t] # "receive_store"
      BY Zenon, <2>2, <2>9 DEF Broadcast, Goto
    <3>3. Cardinality(InHand(m, p)') = Hand /\ p \in Dests[m] /\ BufMsgId' = BufMsgId
      BY Zenon, <3>1, <3>2, SteadyReaders, SameReaders DEF Delivered, Hand
    <3>4. b \in Buf /\ BufMsgId[b] \in MsgId
      BY Zenon, <2>1, <2>2, <2>9
         DEF Broadcast, BufferInv, LocalsInv, BufLocal, HasBuffer, Unsent
    <3>5. BuffCount' = [BuffCount EXCEPT ![BufMsgId[b]] =
                         [r \in PID |-> IF r \in Acc THEN @[r] + 1 ELSE @[r]]]
      BY Zenon, <3>1 DEF Delivered
    <3>6. CASE p \in Acc
      <4>1. Queue'[p] = Append(Queue[p], b)
        BY Zenon, <3>1, <3>6 DEF Delivered
      <4>2. /\ Len(Queue'[p]) = n + 1 /\ Queue'[p][n + 1] = b
            /\ \A i \in 1..n : Queue'[p][i] = Queue[p][i]
        BY SMTT(60), <2>2, <3>4, <4>1
      <4>3. OnQueue(m, p)' = {i \in 1..Len(Queue'[p]) : BufMsgId[Queue'[p][i]] = m}
        BY Zenon, <3>3 DEF OnQueue
      <4>4. OnQueue(m, p) = {i \in 1..n : BufMsgId[Queue[p][i]] = m} /\ n \in Nat
        BY Zenon, <2>3 DEF OnQueue
      <4>5. CASE BufMsgId[b] = m
        <5>1. OnQueue(m, p)' = OnQueue(m, p) \cup {n + 1} /\ n + 1 \notin OnQueue(m, p)
          <6>1. 1..(n + 1) = (1..n) \cup {n + 1} /\ n + 1 \notin 1..n
            BY <4>4
          <6> HIDE DEF n
          <6>2. \A i \in 1..(n + 1) : BufMsgId[Queue'[p][i]] = m
                                        <=> i = n + 1 \/ i \in OnQueue(m, p)
            BY Zenon, <4>2, <4>4, <4>5, <6>1
          <6> QED BY Zenon, <4>2, <4>3, <4>4, <6>1, <6>2
        <5>2. Cardinality(OnQueue(m, p)') = On + 1
          BY Zenon, <2>3, <5>1, FS_AddElement DEF On
        <5>3. BuffCount'[m][p] = BuffCount[m][p] + 1
          BY SMTT(60), <2>2, <3>5, <3>6, <4>5
        <5> QED BY SMTT(60), <2>3, <2>4, <2>5, <3>3, <5>2, <5>3
      <4>6. CASE BufMsgId[b] # m
        <5>1. OnQueue(m, p)' = OnQueue(m, p)
          <6>1. 1..(n + 1) = (1..n) \cup {n + 1} /\ n + 1 \notin 1..n
            BY <4>4
          <6> HIDE DEF n
          <6>2. \A i \in 1..(n + 1) : BufMsgId[Queue'[p][i]] = m <=> i \in OnQueue(m, p)
            BY Zenon, <4>2, <4>4, <4>6, <6>1
          <6> QED BY Zenon, <4>2, <4>3, <4>4, <6>1, <6>2
        <5>2. Cardinality(OnQueue(m, p)') = On
          BY Zenon, <5>1 DEF On
        <5>3. BuffCount'[m][p] = BuffCount[m][p]
          BY Zenon, <2>2, <3>5, <4>6
        <5> QED BY SMTT(60), <2>3, <2>4, <2>5, <3>3, <5>2, <5>3
      <4> QED BY Zenon, <4>5, <4>6
    <3>7. CASE p \notin Acc
      <4>1. Queue'[p] = Queue[p]
        BY Zenon, <3>1, <3>7 DEF Delivered
      <4>2. BuffCount'[m][p] = BuffCount[m][p]
        BY SMTT(60), <2>2, <3>5, <3>7
      <4>3. Cardinality(OnQueue(m, p)') = On
        BY Zenon, <2>7, <4>1 DEF On
      <4> QED BY SMTT(60), <2>3, <2>5, <3>3, <4>2, <4>3
    <3> QED BY Zenon, <3>6, <3>7
  <2>10. CASE ReceiveGet(t)
    <3> DEFINE h == Head(Queue[p])
    <3>1. /\ p \in Dests[m] /\ BuffCount' = BuffCount /\ tPipe' = tPipe /\ BufMsgId' = BufMsgId
      BY Zenon, <2>10 DEF ReceiveGet, routeVars, bufVars
    <3>2. tPipe[t] \in PID /\ tQueue[t] = tPipe[t]
      BY Zenon, <2>1, <2>10 DEF ReceiveGet, Readers, ReaderOf, InReceive
    <3>3. /\ Queue' = [Queue EXCEPT ![tPipe[t]] = Tail(@)] /\ Queue[tPipe[t]] # <<>>
          /\ tBuf' = [tBuf EXCEPT ![t] = Head(Queue[tPipe[t]])]
          /\ pc' = [pc EXCEPT ![t] = "receive_store"]
      BY ZenonT(60), <2>10, <3>2 DEF ReceiveGet, Goto
    <3>4. CASE p = tPipe[t]
      <4>1. Queue'[p] = Tail(Queue[p]) /\ Queue[p] \in Seq(Buf) /\ Queue[p] # <<>>
        BY Zenon, <2>2, <3>3, <3>4
      <4>2. Cardinality(OnQueue(m, p)') = IF BufMsgId[h] = m THEN On - 1 ELSE On
        <5>1. OnQueue(m, p)' = Carrying(Tail(Queue[p]), BufMsgId, m)
          BY Zenon, <3>1, <4>1 DEF OnQueue, Carrying
        <5>2. OnQueue(m, p) = Carrying(Queue[p], BufMsgId, m)
          BY Zenon DEF OnQueue, Carrying
        <5>3. IsFiniteSet(Carrying(Queue[p], BufMsgId, m))
          BY Zenon, <2>3, <5>2
        <5>4. Cardinality(Carrying(Tail(Queue[p]), BufMsgId, m)) =
                IF BufMsgId[h] = m THEN Cardinality(Carrying(Queue[p], BufMsgId, m)) - 1
                ELSE Cardinality(Carrying(Queue[p], BufMsgId, m))
          BY Zenon, <4>1, <5>3, <1>TailCount
        <5> QED BY Zenon, <5>1, <5>2, <5>4 DEF On
      <4>3. ReadersAt(p) = {}
        BY Zenon, <2>1, <2>10, <3>2, <3>4, OneReader DEF ReceiveGet
      <4>4. InHand(m, p) = {} /\ Hand = 0
        BY Zenon, <4>3, FS_EmptySet DEF ReadersAt, InHand, Hand
      <4>5. \A u \in Task : TakenFrom(u, p)' <=> u = t
        <5>1. \A u \in Task : TakenFrom(u, p)' <=> pc'[u] = "receive_store" /\ tPipe[u] = p
          BY Zenon, <3>1 DEF TakenFrom
        <5>2. \A u \in Task : ~ (pc[u] = "receive_store" /\ tPipe[u] = p)
          BY Zenon, <4>3 DEF ReadersAt, TakenFrom
        <5> QED BY Zenon, <2>2, <3>3, <3>4, <5>1, <5>2
      <4>6. tBuf'[t] = h
        BY Zenon, <2>2, <3>3, <3>4
      <4>7. InHand(m, p)' = IF BufMsgId[h] = m THEN {t} ELSE {}
        <5>1. InHand(m, p)' = {u \in Task : TakenFrom(u, p)' /\ BufMsgId[tBuf'[u]] = m}
          BY Zenon, <3>1 DEF InHand
        <5>2. \A u : u \in InHand(m, p)' <=> u = t /\ BufMsgId[h] = m
          BY Zenon, <4>5, <4>6, <5>1
        <5> HIDE DEF h
        <5> QED BY Zenon, <5>2
      <4>8. Cardinality(InHand(m, p)') = IF BufMsgId[h] = m THEN 1 ELSE 0
        BY Zenon, <4>7, FS_Singleton, FS_EmptySet
      <4> HIDE DEF h
      <4> QED BY SMTT(60), <2>3, <2>5, <3>1, <4>2, <4>4, <4>8
    <3>5. CASE p # tPipe[t]
      <4>1. Queue'[p] = Queue[p]
        BY Zenon, <2>2, <3>3, <3>5
      <4>2. \A u \in Task : /\ TakenFrom(u, p)' <=> TakenFrom(u, p)
                            /\ TakenFrom(u, p) => tBuf'[u] = tBuf[u]
        BY Zenon, <2>2, <3>1, <3>3, <3>5 DEF TakenFrom
      <4>3. InHand(m, p)' = InHand(m, p)
        <5>1. InHand(m, p)' = {u \in Task : TakenFrom(u, p)' /\ BufMsgId[tBuf'[u]] = m}
          BY Zenon, <3>1 DEF InHand
        <5> QED BY Zenon, <4>2, <5>1 DEF InHand
      <4>4. Cardinality(OnQueue(m, p)') = On /\ Cardinality(InHand(m, p)') = Hand
        BY Zenon, <2>7, <4>1, <4>3 DEF On, Hand
      <4> QED BY SMTT(60), <2>3, <2>5, <3>1, <4>4
    <3> QED BY Zenon, <3>4, <3>5
  <2>11. CASE ReceiveStore(t)
    <3> DEFINE id == BufMsgId[tBuf[t]]
    <3>1. p \in Dests[m] /\ UNCHANGED <<Queue, BufMsgId>>
      BY Zenon, <2>11 DEF ReceiveStore, osVars
    <3>2. /\ tPipe' = [tPipe EXCEPT ![t] = FREE] /\ tBuf' = [tBuf EXCEPT ![t] = NULL]
          /\ pc' = [pc EXCEPT ![t] = "idle"]
      BY Zenon, <2>11 DEF ReceiveStore, Return, Goto
    <3>3. Cardinality(OnQueue(m, p)') = On
      BY Zenon, <2>7, <3>1 DEF On
    <3>4. \A u \in Task : TakenFrom(u, p)' <=> TakenFrom(u, p) /\ u # t
      BY Zenon, <2>2, <3>2 DEF TakenFrom
    <3>5. CASE p = tPipe[t]
      <4>1. SamePipe(p)
        BY Zenon, <2>6, <3>1 DEF SamePipe
      <4>2. BuffCount' = CountAfterReceive(id, p)
        BY Zenon, <2>11, <3>5, <4>1 DEF ReceiveStore
      <4>3. ReadersAt(p) = {t}
        BY Zenon, <2>1, <2>11, <3>5, OneReader DEF ReceiveStore
      <4>4. \A u \in Task : TakenFrom(u, p) <=> u = t
        BY Zenon, <4>3 DEF ReadersAt
      <4>5. InHand(m, p)' = {}
        BY Zenon, <3>4, <4>4 DEF InHand
      <4>6. Cardinality(InHand(m, p)') = 0
        BY Zenon, <4>5, FS_EmptySet
      <4>7. InHand(m, p) = IF id = m THEN {t} ELSE {}
        <5>1. \A u : u \in InHand(m, p) <=> u = t /\ id = m
          BY Zenon, <4>4 DEF InHand
        <5> HIDE DEF id
        <5> QED BY Zenon, <5>1
      <4>8. Hand = IF id = m THEN 1 ELSE 0
        BY Zenon, <4>7, FS_Singleton, FS_EmptySet DEF Hand
      <4> HIDE DEF id
      <4>9. CASE id = m
        <5>1. \/ BuffCount[m][p] > 0 /\ BuffCount' = [BuffCount EXCEPT ![m][p] = @ - 1]
              \/ ~ (BuffCount[m][p] > 0) /\ BuffCount' = BuffCount
          BY Zenon, <3>1, <4>2, <4>9 DEF CountAfterReceive
        <5>2. \/ BuffCount[m][p] > 0 /\ BuffCount'[m][p] = BuffCount[m][p] - 1
              \/ ~ (BuffCount[m][p] > 0) /\ BuffCount'[m][p] = BuffCount[m][p]
          BY SMTT(60), <2>2, <5>1
        <5> QED BY SMTT(60), <2>3, <2>4, <2>5, <3>1, <3>3, <4>6, <4>8, <4>9, <5>2
      <4>10. CASE id # m
        <5>1. BuffCount' = BuffCount \/ BuffCount' = [BuffCount EXCEPT ![id][p] = @ - 1]
          BY Zenon, <4>2 DEF CountAfterReceive
        <5>2. BuffCount'[m][p] = BuffCount[m][p]
          BY Zenon, <2>2, <4>10, <5>1
        <5> QED BY SMTT(60), <2>3, <2>4, <2>5, <3>1, <3>3, <4>6, <4>8, <4>10, <5>2
      <4> QED BY Zenon, <4>9, <4>10
    <3>6. CASE p # tPipe[t]
      <4>1. \A u \in Task : /\ TakenFrom(u, p)' <=> TakenFrom(u, p)
                            /\ TakenFrom(u, p) => tBuf'[u] = tBuf[u]
        BY Zenon, <2>2, <3>2, <3>6 DEF TakenFrom
      <4>2. InHand(m, p)' = InHand(m, p)
        <5>1. InHand(m, p)' = {u \in Task : TakenFrom(u, p)' /\ BufMsgId[tBuf'[u]] = m}
          BY Zenon, <3>1 DEF InHand
        <5> QED BY Zenon, <4>1, <5>1 DEF InHand
      <4>3. Cardinality(InHand(m, p)') = Hand
        BY Zenon, <4>2 DEF Hand
      <4>4. \/ BuffCount' = BuffCount
            \/ BuffCount' = [BuffCount EXCEPT ![id][tPipe[t]] = @ - 1]
        BY Zenon, <2>11 DEF ReceiveStore, CountAfterReceive
      <4> HIDE DEF id
      <4>5. BuffCount'[m][p] = BuffCount[m][p]
        BY SMTT(60), <2>2, <3>6, <4>4
      <4> QED BY SMTT(60), <2>3, <2>5, <3>1, <3>3, <4>3, <4>5
    <3> QED BY Zenon, <3>5, <3>6
  <2>12. CASE DeleteGet(t)
    <3>1. p \in Dests[m] /\ BuffCount' = BuffCount
      BY Zenon, <2>12 DEF DeleteGet, routeVars
    <3>2. pc[t] # "receive_store" /\ pc'[t] # "receive_store"
      BY Zenon, <2>2, <2>12 DEF DeleteGet, Goto
    <3>3. tQueue[t] = tPipe[t] /\ PipeId[SlotOf(tPipe[t])] = RESERVED
      BY Zenon, <2>1, <2>12 DEF DeleteGet, Reserved, ReservedBy, PipeWork, Draining
    <3>4. p # tPipe[t]
      BY Zenon, <2>6, <3>1, <3>3, PseudoIds DEF PipeDescIsMatch
    <3>5. UNCHANGED Queue \/ Queue' = [Queue EXCEPT ![tPipe[t]] = Tail(@)]
      BY Zenon, <2>12, <3>3 DEF DeleteGet
    <3>6. Queue'[p] = Queue[p]
      BY Zenon, <2>2, <3>4, <3>5
    <3>7. InHand(m, p)' = InHand(m, p)
      BY Zenon, <3>2, SteadyReaders, SameReaders
    <3>8. Cardinality(OnQueue(m, p)') = On /\ Cardinality(InHand(m, p)') = Hand
      BY Zenon, <2>7, <3>6, <3>7 DEF On, Hand
    <3> QED BY SMTT(60), <2>3, <2>5, <3>1, <3>8
  <2> QED
    BY Zenon, <2>1, <2>8, <2>9, <2>10, <2>11, <2>12, CountKinds DEF DepthSteady

<1> SUFFICES ASSUME BufferInv, MessageInv, CountInv, [Next]_vars
             PROVE  CountInv'
  BY Zenon
<1>1. CASE UNCHANGED vars
  <2>1. UNCHANGED <<PipeApp, IgnoreMine, CurrentQueueDepth, Routes, BuffCount, tRoute, tDelList>>
        /\ UNCHANGED <<PipeId, Queue, pc, tPipe, tBuf, BufMsgId, Dests>>
    BY Zenon, <1>1 DEF vars, pipeVars, routeVars, osVars, bufVars, taskVars
  <2>2. CountTypes'
    BY Zenon, <2>1 DEF CountInv, CountTypes
  <2>3. ASSUME NEW s \in Slot
        PROVE  DepthAt(s)'
    BY Zenon, <2>1 DEF CountInv, DepthAt, ReadersAt, TakenFrom
  <2>4. ASSUME NEW t \in Task
        PROVE  NewDepth(t)'
    BY Zenon, <2>1 DEF CountInv, NewDepth
  <2>5. ASSUME NEW m \in MsgId, NEW p \in PID
        PROVE  CountAt(m, p)'
    BY Zenon, <2>1 DEF CountInv, CountAt, Pending, TakenFrom
  <2> QED BY Zenon, <2>2, <2>3, <2>4, <2>5 DEF CountInv
<1>2. ASSUME NEW t \in Task, Step(t)
      PROVE  CountInv'
  <2>1. CountsAgree
    BY Zenon, ExactAgrees DEF BufferInv
  <2>2. CountTypes'
    BY Zenon, <1>2, CountTypesStep DEF CountInv, MessageInv
  <2>3. \A s \in Slot : DepthAt(s)'
    BY Zenon, <1>2, <2>1, <1>DepthStep
  <2>4. \A u \in Task : NewDepth(u)'
    BY Zenon, <1>2, <2>1, <1>NewDepthStep
  <2>5. \A m \in MsgId, p \in PID : CountAt(m, p)'
    BY Zenon, <1>2, <2>1, <1>CountStep
  <2> QED BY Zenon, <2>2, <2>3, <2>4, <2>5 DEF CountInv
<1> QED BY Zenon, <1>1, <1>2 DEF Next, Step

\* The invariants give the counts, and the types of all variables.
LEMMA CountsHold ==
  ASSUME BufferInv, MessageInv, GaugesExact, CountInv
  PROVE  PipeCountsExact
<1>1. SBBuffersInUse \in Int /\ PipesInUse \in Int /\ SubscriptionsInUse \in Int
  <2>1. IsFiniteSet(PipesHeld) /\ IsFiniteSet(Deletions)
    <3>1. IsFiniteSet(Slot) /\ IsFiniteSet(Task)
      BY SMTT(60), SBAssumption, FS_Interval DEF Slot
    <3>2. PipesHeld \in SUBSET Slot /\ Deletions \in SUBSET Task
      BY Zenon DEF PipesHeld, Deletions
    <3> QED BY Zenon, <3>1, <3>2, FS_Subset
  <2>2. IsFiniteSet(Subscriptions) /\ IsFiniteSet(BuffersOut)
    <3>1. IsFiniteSet(MsgId) /\ IsFiniteSet(PID) /\ IsFiniteSet(Buf)
      BY SMTT(60), SBAssumption, FS_Interval DEF PID
    <3>2. IsFiniteSet(MsgId \X PID)
      BY SMTT(60), <3>1, FS_Product
    <3>3. Subscriptions \in SUBSET (MsgId \X PID) /\ BuffersOut \in SUBSET Buf
      BY Zenon DEF Subscriptions, BuffersOut
    <3> QED BY Zenon, <3>1, <3>2, <3>3, FS_Subset
  <2>3. /\ Cardinality(PipesHeld) \in Nat /\ Cardinality(Deletions) \in Nat
        /\ Cardinality(Subscriptions) \in Nat /\ Cardinality(BuffersOut) \in Nat
    BY Zenon, <2>1, <2>2, FS_CardinalityType
  <2>4. /\ PipesInUse = Cardinality(PipesHeld) + Cardinality(Deletions)
        /\ SubscriptionsInUse = Cardinality(Subscriptions)
        /\ SBBuffersInUse = Cardinality(BuffersOut)
    BY Zenon DEF GaugesExact, PipesHeld, Deletions, Subscriptions, BuffersOut
  <2> QED BY SMTT(60), <2>3, <2>4
<1>2. TypeOK
  BY Zenon, <1>1
     DEF TypeOK, BufferInv, PipeInv, PipeTypes, LocalsInv, BufferTypes, MessageInv, HeaderTypes,
         ActiveInv, CountInv, CountTypes
<1>3. ASSUME NEW s \in Slot, PipeId[s] \in PID
      PROVE  CurrentQueueDepth[s] = Len(Queue[SysQueueId[s]])
                                    + Cardinality({t \in Task : TakenFrom(t, PipeId[s])})
  BY Zenon, <1>3 DEF BufferInv, PipeInv, SlotsOK, CountInv, DepthAt, ReadersAt
<1>4. ASSUME NEW m \in MsgId, NEW p \in Dests[m]
      PROVE  BuffCount[m][p] <= Pending(m, p)
  BY Zenon DEF BufferInv, PipeInv, PipeTypes, CountInv, CountAt
<1> QED BY Zenon, <1>2, <1>3, <1>4 DEF PipeCountsExact

-----------------------------------------------------------------------------
(***************************************************************************)
(* The theorems                                                            *)
(***************************************************************************)
\* Whatever creations, deletions, subscriptions and clean-ups interleave, every
\* destination of a route is a pipe that exists and has its queue.
THEOREM DestinationsAreLive == Spec => []DestinationsLive
<1>1. PipeInv => DestinationsLive
  BY SMTT(60), SlotOfInTable
     DEF PipeInv, PipeTypes, SlotsOK, DestsOK, DestinationsLive, PipeDescIsMatch
<1> QED BY <1>1, InitInv, StepInv, PTL DEF Spec

\* ... and no OSAL queue is lost or has two owners.
THEOREM QueuesAreOwned == Spec => []QueueOwned
<1>1. ASSUME PipeInv, NEW q \in QLive
      PROVE  /\ (\E s \in Slot : OwnsQueue(s, q)) # (\E t \in Task : HoldsQueue(t, q))
             /\ \A r, s \in Slot : OwnsQueue(r, q) /\ OwnsQueue(s, q) => r = s
             /\ \A t, u \in Task : HoldsQueue(t, q) /\ HoldsQueue(u, q) => t = u
  <2>1. \A s \in Slot : OwnsQueue(s, q) => s = SlotOf(q) /\ PipeDescIsMatch(q)
    BY SMTT(60), <1>1 DEF PipeInv, SlotsOK, OwnsQueue, PipeDescIsMatch
  <2>2. PipeDescIsMatch(q) => \E s \in Slot : OwnsQueue(s, q)
    BY SMTT(60), <1>1, SlotOfInTable DEF PipeInv, SlotsOK, OwnsQueue, PipeDescIsMatch
  <2>3. \A t \in Task : HoldsQueue(t, q) => pc[t] \in PipeWork /\ tPipe[t] = q
    BY SMTT(60), <1>1
       DEF PipeInv, Reserved, ReservedBy, HoldsQueue, PipeWork, Creating,
           Draining
  <2>4. \A t \in Task : HoldsQueue(t, q) => ~ PipeDescIsMatch(q)
    BY SMTT(60), <1>1, <2>3, PseudoIds
       DEF PipeInv, Reserved, ReservedBy, PipeDescIsMatch
  <2>5. \A t, u \in Task : HoldsQueue(t, q) /\ HoldsQueue(u, q) => t = u
    BY SMTT(60), <1>1, <2>3 DEF PipeInv, OneReserver
  <2>6. PipeDescIsMatch(q) \/ \E t \in Task : HoldsQueue(t, q)
    BY <1>1 DEF PipeInv, QueuesKept
  <2> QED BY SMTT(60), <2>1, <2>2, <2>4, <2>5, <2>6
<1>2. PipeInv => QueueOwned
  BY <1>1 DEF QueueOwned
<1> QED BY <1>2, InitInv, StepInv, PTL DEF Spec

\* However sends, receives, zero copy calls, deletions and clean-ups interleave,
\* the use count of a buffer is the number of queue entries, last buffers of
\* pipes, tasks and zero copy handles that refer to it: a block goes back to
\* the pool exactly when nobody has it any more.
THEOREM UseCountsAreExact == Spec => []UseCountExact
<1>1. BufferInv => UseCountExact
  BY Zenon DEF BufferInv
<1> QED BY <1>1, BufferInvInit, BufferInvStep, PTL DEF Spec

\* No task writes the header of a message that another one may be reading.
THEOREM ContentIsStable == Spec => ContentStable
<1> DEFINE A == \A b \in Buf : QueuesOf(b) # {} \/ ReadersOf(b) # {} =>
                    BufMsgId'[b] = BufMsgId[b] /\ BufSeq'[b] = BufSeq[b]
<1>1. ASSUME BufferInv, [Next]_vars
      PROVE  [A]_vars
  <2>1. CASE UNCHANGED vars
    BY Zenon, <2>1
  <2>2. ASSUME NEW t \in Task, Step(t)
        PROVE  A
    <3>1. CountsAgree
      BY Zenon, <1>1, ExactAgrees DEF BufferInv
    <3> QED BY Zenon, <1>1, <2>2, <3>1, ContentStep
  <2> QED BY Zenon, <1>1, <2>1, <2>2 DEF Next, Step
<1> QED BY <1>1, BufferInvInit, BufferInvStep, PTL DEF Spec, ContentStable

\* BufferInv and MessageInv together are inductive.
LEMMA MessagesHold == Spec => [](BufferInv /\ MessageInv)
<1>1. Init => BufferInv /\ MessageInv
  BY ZenonT(60), BufferInvInit, MessageInit
<1>2. ASSUME BufferInv, MessageInv, [Next]_vars
      PROVE  BufferInv' /\ MessageInv'
  <2>1. BufferInv' /\ CountsAgree
    BY Zenon, <1>2, BufferInvStep, ExactAgrees DEF BufferInv
  <2>2. CASE UNCHANGED vars
    BY Zenon, <1>2, <2>1, <2>2, MessageStutter
  <2> QED BY Zenon, <1>2, <2>1, <2>2, MessageStep DEF Next, Step
<1> QED BY <1>1, <1>2, PTL DEF Spec

\* Two senders of the same message cannot overtake each other between taking a
\* sequence count and queueing: on every pipe the counts of a message increase.
THEOREM SequencesAreInOrder == Spec => []SequenceInOrder
<1>1. MessageInv => SequenceInOrder
  BY Zenon DEF MessageInv
<1> QED BY <1>1, MessagesHold, PTL

\* The gauges of the statistics packet count what is in use, however the steps
\* of a creation, a deletion and a broadcast interleave with others.
THEOREM GaugesAreExact == Spec => []GaugesExact
<1>1. BufferInv /\ GaugesExact /\ [Next]_vars => GaugesExact'
  BY Zenon, GaugesStep
<1> QED BY <1>1, GaugesInit, BufferInvInit, BufferInvStep, PTL DEF Spec

\* CurrentQueueDepth of a pipe is the number of messages on its queue and in
\* the hands of a reader on the way, and the count of a destination never
\* exceeds the messages of its ID among them: the limit on the messages of an ID
\* never refuses a message for one that is long gone.
THEOREM PipeCountsAreExact == Spec => []PipeCountsExact
<1>1. BufferInv /\ MessageInv /\ CountInv /\ [Next]_vars => CountInv'
  BY Zenon, CountInvStep
<1>2. BufferInv /\ MessageInv /\ GaugesExact /\ CountInv => PipeCountsExact
  BY Zenon, CountsHold
<1> QED BY <1>1, <1>2, CountInit, MessagesHold, GaugesAreExact, PTL DEF Spec

\* The Software Bus implements MessageBus: with descriptors, routes, buffers and
\* locks hidden, every step of every task opens or closes a pipe, uses up pipe
\* IDs, changes a subscription, publishes one message to subscribed pipes with
\* room, takes the oldest message of a pipe, or does nothing.
THEOREM BusIsImplemented == Spec => ImplementsMessageBus
<1>1. ASSUME BufferInv, MessageInv, BufferInv', [Next]_vars
      PROVE  [Bus!BusNext]_<<OpenPipes, ClosedPipes, Dests, Inbox>>
  <2>1. CountsAgree /\ PipeInv'
    BY Zenon, <1>1, ExactAgrees DEF BufferInv
  <2>2. CASE UNCHANGED vars
    BY Zenon, <2>2, BusStutter
  <2> QED BY Zenon, <1>1, <2>1, <2>2, BusStep DEF Next, Step
<1> QED BY <1>1, BusStart, MessagesHold, PTL
        DEF Spec, ImplementsMessageBus, Bus!BusSpec, Bus!busVars
=============================================================================
