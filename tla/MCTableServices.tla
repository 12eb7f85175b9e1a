-------------------------- MODULE MCTableServices --------------------------
(***************************************************************************)
(* Instances of TableServices for TLC: the tables an instance has.         *)
(***************************************************************************)
EXTENDS TableServices, TLC

CONSTANTS owner, user, crit, plain, dump, userdef, g1, g2, b1

Plain(n) ==
    [App |-> owner, Users |-> {}, Dbl |-> FALSE, DumpOnly |-> FALSE, UserDef |-> FALSE,
     Critical |-> FALSE, Func |-> TRUE]

\* A critical, double buffered table and a single buffered one that is shared.
LoadTables ==
    (crit :> [Plain(crit) EXCEPT !.Dbl = TRUE, !.Critical = TRUE])
      @@ (plain :> [Plain(plain) EXCEPT !.Users = {user}])

\* A table that is shared, and two dump-only tables that are not, one of them at
\* an address of its owner.
DumpTables ==
    (dump :> [Plain(dump) EXCEPT !.DumpOnly = TRUE, !.Func = FALSE])
      @@ (plain :> [Plain(plain) EXCEPT !.Users = {user}, !.Func = FALSE])
      @@ (userdef :> [Plain(userdef) EXCEPT !.DumpOnly = TRUE, !.UserDef = TRUE, !.Func = FALSE])

\* Two states that differ only in what no guard and no property reads are one:
\* the notices of GetAddress, the buffer an unlocked descriptor last used, and
\* the contents of a shared buffer that is free.
Seen(locks) ==
    <<Registry, ValidationResults, DumpControlBlocks, PoolFree, CritReg, SavedCritReg, CDS,
      [h \in Handle |-> [Handles[h] EXCEPT !.Updated = FALSE, !.LockFlag = locks /\ @,
                             !.BufferIndex = IF Handles[h].LockFlag THEN @ ELSE 0]],
      [i \in Shared |-> [LoadBuffs[i] EXCEPT !.Data = IF LoadBuffs[i].Taken THEN @ ELSE ZERO]]>>

LoadView == Seen(TRUE)

\* In an instance without loads no guard reads the locks either.
DumpView == Seen(FALSE)
=============================================================================
