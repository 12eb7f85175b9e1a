--------------------------- MODULE MCSoftwareBus ---------------------------
(***************************************************************************)
(* Small instances of SoftwareBus: which task makes which calls.           *)
(***************************************************************************)
EXTENDS SoftwareBusProperties, SoftwareBusInvariant, TLC

CONSTANTS t1, t2, t3, a1, a2

\* Life cycle: t1 manages the pipes of a1 and t2 reads them, sends and owns
\* zero copy buffers, until both exit; t3 is the ES task that cleans up, and
\* also looks pipes up by name.
LifeAppOf == t1 :> a1 @@ t2 :> a1 @@ t3 :> a2
LifeRoles == t1 :> {"create", "delete", "subscribe", "unsubscribe", "exit"}
          @@ t2 :> {"receive", "send", "zerocopy", "exit"}
          @@ t3 :> {"send", "cleanup", "byname"}

\* Delivery: t1 makes the pipes and reads them, t2 and t3 send;
\* t1 also sets pipe options and t3 is the SB task that switches routes.
DeliveryAppOf == t1 :> a1 @@ t2 :> a2 @@ t3 :> a2
DeliveryRoles == t1 :> {"create", "subscribe", "receive", "opts"}
              @@ t2 :> {"send", "zerocopy"}
              @@ t3 :> {"send", "route"}

\* The second pipe of the delivery accepts one message of a kind, every other
\* pipe as many as there are buffers, or one.
DeliveryMsgLim == 1 :> 2 @@ 2 :> 1
LifeMsgLim == 1 :> 2 @@ 2 :> 2
LiveMsgLim == 1 :> 1 @@ 2 :> 1

\* Liveness: as the life cycle, without exits and zero copy buffers.
LiveRoles == t1 :> {"create", "delete", "subscribe", "unsubscribe"}
          @@ t2 :> {"receive"}
          @@ t3 :> {"send"}

\* The blocks of the pool are interchangeable.
BufSymmetry == Permutations(Buf)
=============================================================================
