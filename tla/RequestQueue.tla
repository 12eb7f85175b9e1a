---------------------------- MODULE RequestQueue ----------------------------
(***************************************************************************)
(* What the background file writer promises its requesters: accepted       *)
(* requests are served one at a time, in the order of acceptance; at most  *)
(* Capacity wait; a request is not accepted again before it is finished.   *)
(***************************************************************************)
EXTENDS Naturals, Sequences

CONSTANTS Meta, Capacity

VARIABLE pending    \* accepted and not finished, the one being served first

Accept(m) ==
    /\ Len(pending) < Capacity
    /\ \A i \in 1..Len(pending) : pending[i] # m
    /\ pending' = Append(pending, m)

Finish ==
    /\ pending # << >>
    /\ pending' = Tail(pending)

Init == pending = << >>

Next == (\E m \in Meta : Accept(m)) \/ Finish

Spec == Init /\ [][Next]_pending
=============================================================================
