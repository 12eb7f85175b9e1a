----------------------------- MODULE MessageBus -----------------------------
(***************************************************************************)
(* What the Software Bus promises its applications, without buffers, locks *)
(* or descriptor tables: a set of open pipes, each a first-in first-out    *)
(* queue of messages; a message is published to any number of the pipes    *)
(* subscribed to its ID, in one step; what is on a pipe does not change    *)
(* until it is taken from the front.                                       *)
(***************************************************************************)
EXTENDS Naturals, Sequences

CONSTANTS Pipe,      \* pipe IDs; an ID is opened at most once
          MsgId,     \* message IDs
          Seqs,      \* sequence counts a message can carry
          Capacity   \* messages a pipe can hold

VARIABLES open,      \* the pipes that exist
          closed,    \* the IDs that are used up
          subs,      \* the pipes subscribed to each message ID
          inbox      \* the messages on each pipe, oldest first

busVars == <<open, closed, subs, inbox>>

Message == MsgId \X Seqs

BusInit ==
    /\ open = {}
    /\ closed = {}
    /\ subs = [m \in MsgId |-> {}]
    /\ inbox = [p \in Pipe |-> <<>>]

Open(p) ==
    /\ p \notin open \cup closed
    /\ open' = open \cup {p}
    /\ inbox[p] = <<>>
    /\ UNCHANGED <<closed, subs, inbox>>

\* IDs are passed over, or the creation of a pipe fails.
Retire(P) ==
    /\ P \cap open = {}
    /\ closed' = closed \cup P
    /\ UNCHANGED <<open, subs, inbox>>

Close(p) ==
    /\ p \in open
    /\ open' = open \ {p}
    /\ closed' = closed \cup {p}
    /\ subs' = [m \in MsgId |-> subs[m] \ {p}]
    /\ UNCHANGED inbox

Subscribe(m, p) ==
    /\ p \in open
    /\ subs' = [subs EXCEPT ![m] = @ \cup {p}]
    /\ UNCHANGED <<open, closed, inbox>>

Unsubscribe(m, p) ==
    /\ subs' = [subs EXCEPT ![m] = @ \ {p}]
    /\ UNCHANGED <<open, closed, inbox>>

\* Exactly the pipes of P get the message, none of them twice.
Publish(m, s, P) ==
    /\ P \subseteq subs[m]
    /\ \A p \in P : Len(inbox[p]) < Capacity
    /\ inbox' = [p \in Pipe |-> IF p \in P THEN Append(inbox[p], <<m, s>>)
                                ELSE inbox[p]]
    /\ UNCHANGED <<open, closed, subs>>

\* A reader takes the oldest message, or the deletion of the pipe discards it.
Take(p) ==
    /\ inbox[p] # <<>>
    /\ inbox' = [inbox EXCEPT ![p] = Tail(@)]
    /\ UNCHANGED <<open, closed, subs>>

BusNext ==
    \/ \E p \in Pipe : Open(p) \/ Close(p) \/ Take(p)
    \/ \E m \in MsgId, p \in Pipe : Subscribe(m, p) \/ Unsubscribe(m, p)
    \/ \E P \in SUBSET Pipe : Retire(P)
    \/ \E m \in MsgId, s \in Seqs, P \in SUBSET Pipe : Publish(m, s, P)

BusSpec == BusInit /\ [][BusNext]_busVars
=============================================================================
