------------------------ MODULE SoftwareBusProperties -----------------------
(***************************************************************************)
(* Properties of SoftwareBus: what the statistics say, the order of        *)
(* messages, what a clean-up leaves, the refinement of MessageBus and      *)
(* liveness.                                                               *)
(***************************************************************************)
EXTENDS SoftwareBus

\* A task has taken a message from the pipe p and not yet stored it.
TakenFrom(t, p) == pc[t] = "receive_store" /\ tPipe[t] = p

\* Messages with ID m on the pipe p, the one being received included.
Pending(m, p) ==
    Cardinality({i \in 1..Len(Queue[p]) : BufMsgId[Queue[p][i]] = m})
    + Cardinality({t \in Task : TakenFrom(t, p) /\ BufMsgId[tBuf[t]] = m})

\* CurrentQueueDepth, which the statistics packet reports, is the number of
\* messages on the queue plus the one its reader has taken from it and not yet
\* stored (that count is only taken back in the second locked section).
\* BuffCount never exceeds the messages really on the pipe, whatever
\* unsubscriptions and deletions happen in between: no message is refused for
\* the message limit while fewer than MsgLim of its kind are pending.  Neither
\* count, nor any other variable, leaves its type.
PipeCountsExact ==
    /\ TypeOK
    /\ \A s \in Slot : PipeId[s] \in PID =>
          CurrentQueueDepth[s] =
              Len(Queue[SysQueueId[s]])
              + Cardinality({t \in Task : TakenFrom(t, PipeId[s])})
    /\ \A m \in MsgId : \A p \in Dests[m] : BuffCount[m][p] <= Pending(m, p)

\* The gauges of the statistics packet count what exists: pipes (until their
\* deletion is complete), subscriptions, and buffers out of the pool.
GaugesExact ==
    /\ PipesInUse = Cardinality({s \in Slot : PipeId[s] \in PID})
                    + Cardinality({t \in Task : pc[t] \in {"delete_unref", "delete_get",
                                                           "delete_queue", "delete_free"}})
    /\ SubscriptionsInUse = Cardinality({mp \in MsgId \X PID : mp[2] \in Dests[mp[1]]})
    /\ SBBuffersInUse = Cardinality({b \in Buf : UseCount[b] > 0})

\* On every pipe the automatic sequence counts of a message ID increase: the
\* count is taken and the message queued in one locked section, so two senders
\* of the same message cannot overtake each other.
SequenceInOrder ==
    \A q \in PID : \A i, j \in 1..Len(Queue[q]) :
        (/\ i < j
         /\ BufMsgId[Queue[q][i]] = BufMsgId[Queue[q][j]]
         /\ BufSeq[Queue[q][i]] > 0
         /\ BufSeq[Queue[q][j]] > 0)
        => BufSeq[Queue[q][i]] < BufSeq[Queue[q][j]]

\* When CFE_SB_CleanUpApp returns, nothing of the application is left in the
\* bus: no descriptor, no queue, no zero copy buffer; ES may reuse its ID.
CleanUpComplete ==
    [][\A t \in Task : pc[t] = "cleanup" /\ pc'[t] = "idle" =>
           /\ \A s \in Slot : PipeApp'[s] = tApp[t] =>
                 PipeId'[s] = FREE /\ SysQueueId'[s] \notin QLive'
           /\ \A b \in Buf : BufApp'[b] = tApp[t] => UseCount'[b] = 0]_vars

\* The Software Bus as MessageBus sees it: the pipes that exist, the pipe IDs
\* that are used up (those being created are not), and the messages on each
\* queue.
OpenPipes == {p \in PID : PipeDescIsMatch(p)}
BeingCreated(p) ==
    \E t \in Task : tPipe[t] = p /\ pc[t] \in {"create_queue", "create_fill", "create_fail"}
ClosedPipes == {p \in 1..LastPipeId : ~ PipeDescIsMatch(p) /\ ~ BeingCreated(p)}
Header(b) == <<BufMsgId[b], BufSeq[b]>>
Inbox == [q \in PID |-> [i \in 1..Len(Queue[q]) |-> Header(Queue[q][i])]]

\* What the Software Bus does implements MessageBus: each pipe is a FIFO of
\* the messages published to it while it was subscribed, a broadcast reaches
\* its destinations in one step, and pipe IDs do not come back.
Bus == INSTANCE MessageBus
          WITH Pipe <- PID, Seqs <- 0..MaxSeq, Capacity <- QueueDepth,
               open <- OpenPipes, closed <- ClosedPipes, subs <- Dests, inbox <- Inbox

ImplementsMessageBus == Bus!BusSpec

-----------------------------------------------------------------------------
(***************************************************************************)
(* Liveness. A task inside a call keeps running, a reader waits with a     *)
(* timeout, and readers keep reading; nothing is assumed of senders or of  *)
(* the tasks that create and delete pipes.                                 *)
(***************************************************************************)
Fairness ==
    \A t \in Task : /\ WF_vars(Continue(t))
                    /\ WF_vars(ReceiveNone(t))
                    /\ WF_vars(\E p \in PID : ReceiveBuffer(t, p))

FairSpec == Spec /\ Fairness

\* The deletion of a pipe ends, even while other tasks go on sending: the
\* drain loop of CFE_SB_DeletePipeFull is not fed by new messages.
DeletionEnds ==
    \A t \in Task : pc[t] \in {"delete_unref", "delete_get", "delete_queue", "delete_free"}
                    ~> pc[t] \in {"idle", "cleanup"}

\* Every buffer taken from the pool goes back to it, whichever way the pipe,
\* its reader and its deletion interleave: no path loses the last reference.
BuffersReturn == \A b \in Buf : UseCount[b] > 0 ~> UseCount[b] = 0
=============================================================================
