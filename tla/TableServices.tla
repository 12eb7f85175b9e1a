--------------------------- MODULE TableServices ---------------------------
(***************************************************************************)
(* The table registry of the table services (cfe/fsw/cfe-core/src/tbl):    *)
(* registration and sharing of tables, the access descriptors and their    *)
(* lists, the working buffers, the load / validate / activate / abort      *)
(* commands of the table task and the calls of the applications that       *)
(* complete them, the dump of dump-only tables, and the critical tables    *)
(* that survive a processor reset.                                         *)
(*                                                                         *)
(* One action is one call of the API or one command of the table task.     *)
(* What spans several of them is what the model is about: a load is        *)
(* started by a command, validated by the owner, activated by another      *)
(* command and applied by the owner, while other applications hold the     *)
(* address of the table, abort the load, dump, unregister or are deleted.  *)
(***************************************************************************)
EXTENDS Integers, FiniteSets, FiniteSetsExt, Functions

CONSTANTS
    App,         \* applications
    NoApp,       \* CFE_TBL_NOT_OWNED
    TblName,     \* the full names of the tables
    Opt,         \* Opt[n]: who registers table n and with which options, who shares it
    NumTables,   \* CFE_PLATFORM_TBL_MAX_NUM_TABLES
    NumHandles,  \* CFE_PLATFORM_TBL_MAX_NUM_HANDLES
    NumLoads,    \* CFE_PLATFORM_TBL_MAX_SIMULTANEOUS_LOADS
    NumVals,     \* CFE_PLATFORM_TBL_MAX_NUM_VALIDATIONS
    NumCrit,     \* CFE_PLATFORM_TBL_MAX_CRITICAL_TABLES
    PoolSize,    \* how many table buffers the memory pool can hold
    Good, Bad,   \* the contents the validation functions accept and reject
    ZERO,        \* a zero filled buffer
    TORN,        \* what a read that stops half way leaves behind
    USER,        \* the memory of an application behind a user defined address
    NULL,        \* no buffer, no name, no block in the CDS
    EMPTY        \* a block of the CDS whose CRC does not match its contents

ASSUME SizesAssumption ==
    /\ {NumTables, NumHandles, NumLoads, NumVals, NumCrit, PoolSize} \subseteq Nat
    /\ 0 \notin {NumTables, NumHandles, NumLoads, NumVals}
ASSUME OptAssumption ==
    \A n \in TblName :
        /\ Opt[n].App \in App /\ Opt[n].Users \subseteq App
        /\ {Opt[n].Dbl, Opt[n].DumpOnly, Opt[n].UserDef, Opt[n].Critical, Opt[n].Func}
               \subseteq BOOLEAN
        /\ Opt[n].UserDef => Opt[n].DumpOnly
        /\ Opt[n].DumpOnly => ~Opt[n].Dbl /\ ~Opt[n].Critical

VARIABLES
    Registry,           \* CFE_TBL_Global.Registry
    Handles,            \* CFE_TBL_Global.Handles
    LoadBuffs,          \* CFE_TBL_Global.LoadBuffs
    ValidationResults,  \* the State of CFE_TBL_Global.ValidationResults
    DumpControlBlocks,  \* CFE_TBL_Global.DumpControlBlocks
    PoolFree,           \* how many table buffers the pool can still give
    CritReg,            \* CFE_TBL_Global.CritReg
    SavedCritReg,       \* its copy in the critical data store
    CDS                 \* the images of the critical tables in that store

vars == <<Registry, Handles, LoadBuffs, ValidationResults, DumpControlBlocks,
          PoolFree, CritReg, SavedCritReg, CDS>>
cdsVars == <<CritReg, SavedCritReg, CDS>>
-----------------------------------------------------------------------------
NONE == -1          \* CFE_TBL_NO_LOAD_IN_PROGRESS and its like
END_OF_LIST == -1   \* CFE_TBL_END_OF_LIST
NOT_FOUND == -1

Reg == 0 .. NumTables - 1
Handle == 0 .. NumHandles - 1
Shared == 0 .. NumLoads - 1
Image == Good \cup Bad \cup {ZERO, TORN}

\* The least index in S, or the given value when there is none: how every
\* search through one of the tables ends.
First(S, none) == IF S = {} THEN none ELSE Min(S)

Buffer == [Data : Image \cup {USER, NULL}, Validated : BOOLEAN]
NoBuffer == [Data |-> NULL, Validated |-> FALSE]
ZeroBuffer == [Data |-> ZERO, Validated |-> FALSE]

InitRegistryRecord ==
    [OwnerAppId |-> NoApp, Name |-> NULL, Buffers |-> [b \in 0..1 |-> NoBuffer],
     ActiveBufferIndex |-> 0, DoubleBuffered |-> FALSE, DumpOnly |-> FALSE,
     UserDefAddr |-> FALSE, CriticalTable |-> FALSE, Func |-> FALSE,
     TableLoadedOnce |-> FALSE, LoadPending |-> FALSE, LoadInProgress |-> NONE,
     ValidateActiveIndex |-> NONE, ValidateInactiveIndex |-> NONE,
     DumpControlIndex |-> NONE, CDSHandle |-> NULL,
     HeadOfAccessList |-> END_OF_LIST]

FreeHandle ==
    [UsedFlag |-> FALSE, AppId |-> NoApp, RegIndex |-> 0, PrevLink |-> END_OF_LIST,
     NextLink |-> END_OF_LIST, LockFlag |-> FALSE, Updated |-> FALSE,
     BufferIndex |-> 0]

FreeDump == [State |-> "FREE", Reg |-> 0, Buf |-> 0]

\* What CFE_TBL_EarlyInit builds in memory, at start up and after a processor
\* reset: everything empty, and the shared buffers free.
EarlyInitMemory ==
    [Registry |-> [r \in Reg |-> InitRegistryRecord],
     Handles |-> [h \in Handle |-> FreeHandle],
     LoadBuffs |-> [i \in Shared |-> [Data |-> ZERO, Validated |-> FALSE, Taken |-> FALSE]],
     ValidationResults |-> [v \in 0 .. NumVals - 1 |-> "FREE"],
     DumpControlBlocks |-> [i \in Shared |-> FreeDump]]

NoCritEntry == [Name |-> NULL, TableLoadedOnce |-> FALSE]
EmptyCritReg == [i \in 1 .. NumCrit |-> NoCritEntry]

\* CFE_TBL_EarlyInit after a power-on reset: the critical data store is empty.
Init ==
    /\ Registry = EarlyInitMemory.Registry
    /\ Handles = EarlyInitMemory.Handles
    /\ LoadBuffs = EarlyInitMemory.LoadBuffs
    /\ ValidationResults = EarlyInitMemory.ValidationResults
    /\ DumpControlBlocks = EarlyInitMemory.DumpControlBlocks
    /\ PoolFree = PoolSize
    /\ CritReg = EmptyCritReg
    /\ SavedCritReg = EmptyCritReg
    /\ CDS = [n \in TblName |-> NULL]
-----------------------------------------------------------------------------
(***************************************************************************)
(* Searches and lists                                                      *)
(***************************************************************************)
FindTableInRegistry(n) ==
    First({r \in Reg : Registry[r].OwnerAppId # NoApp /\ Registry[r].Name = n}, NOT_FOUND)

FindFreeRegistryEntry ==
    First({r \in Reg : /\ Registry[r].OwnerAppId = NoApp
                       /\ Registry[r].HeadOfAccessList = END_OF_LIST}, NOT_FOUND)

FindFreeHandle == First({h \in Handle : ~Handles[h].UsedFlag}, END_OF_LIST)

\* CFE_TBL_ValidateAccess: the handle is in use and belongs to the caller.
ValidateAccess(a, h) == Handles[h].UsedFlag /\ Handles[h].AppId = a

\* The descriptors a loop meets that starts at HeadOfAccessList and follows
\* NextLink: those in every set with the head and, with each descriptor, the
\* next one.
Linked(r, S) ==
    /\ Registry[r].HeadOfAccessList \in S \cup {END_OF_LIST}
    /\ \A h \in S : Handles[h].NextLink \in S \cup {END_OF_LIST}
AccessList(r) == {h \in Handle : \A S \in SUBSET Handle : Linked(r, S) => h \in S}

LockedByHead(r) == Registry[r].HeadOfAccessList # END_OF_LIST
                     /\ Handles[Registry[r].HeadOfAccessList].LockFlag
Locked(r) == \E h \in AccessList(r) : Handles[h].LockFlag

\* The buffer the application sees, and the other one of a double buffer.
ActiveData(r) == Registry[r].Buffers[Registry[r].ActiveBufferIndex].Data
Inactive(r) == 1 - Registry[r].ActiveBufferIndex
-----------------------------------------------------------------------------
(***************************************************************************)
(* Working buffers                                                         *)
(***************************************************************************)
Own(b) == [Kind |-> "own", Index |-> b]
SharedBuf(i) == [Kind |-> "shared", Index |-> i]
NoWork == [Kind |-> "none", Index |-> NONE]

FreeShared == {i \in Shared : ~LoadBuffs[i].Taken}

\* The buffer CFE_TBL_GetWorkingBuffer returns: that of the load in progress,
\* the active buffer for a first load by an application, the inactive buffer
\* when nobody still uses it, or the first free shared buffer.
GetWorkingBuffer(r, CalledByApp) ==
    LET rec == Registry[r]
    IN  CASE rec.LoadInProgress # NONE ->
                 IF rec.DoubleBuffered THEN Own(Inactive(r)) ELSE SharedBuf(rec.LoadInProgress)
          [] rec.LoadInProgress = NONE /\ ~rec.TableLoadedOnce /\ CalledByApp ->
                 Own(rec.ActiveBufferIndex)
          [] OTHER ->
                 IF rec.DoubleBuffered
                 THEN IF \E h \in AccessList(r) :
                             Handles[h].LockFlag /\ Handles[h].BufferIndex = Inactive(r)
                      THEN NoWork ELSE Own(Inactive(r))
                 ELSE IF FreeShared = {} THEN NoWork ELSE SharedBuf(Min(FreeShared))

\* CFE_TBL_GetWorkingBuffer records the buffer it hands out as the load in
\* progress, but for the first load by an application.
WithLoadInProgress(r, w, CalledByApp) ==
    IF ~Registry[r].TableLoadedOnce /\ CalledByApp THEN Registry
    ELSE [Registry EXCEPT ![r].LoadInProgress = w.Index]

\* Registry rg, or shared buffers lb, with data d in working buffer w of table r.
PutOwn(rg, r, w, d) ==
    IF w.Kind = "own" THEN [rg EXCEPT ![r].Buffers[w.Index].Data = d] ELSE rg
PutShared(lb, w, d) ==
    IF w.Kind = "shared" THEN [lb EXCEPT ![w.Index].Data = d, ![w.Index].Taken = TRUE] ELSE lb
-----------------------------------------------------------------------------
(***************************************************************************)
(* Completion of a load                                                    *)
(***************************************************************************)
\* CFE_TBL_NotifyTblUsersOfUpdate: no load in progress any more, and every
\* descriptor of the table is told.
LoadDone(rg, r) ==
    [rg EXCEPT ![r].LoadInProgress = NONE, ![r].LoadPending = FALSE,
               ![r].TableLoadedOnce = TRUE]
Notified(r) ==
    [h \in Handle |-> IF h \in AccessList(r) THEN [Handles[h] EXCEPT !.Updated = TRUE]
                                             ELSE Handles[h]]

\* CFE_TBL_FindCriticalTblInfo: the first entry for that block of the CDS.
FindCriticalTblInfo(n) == First({i \in 1 .. NumCrit : CritReg[i].Name = n}, NOT_FOUND)

\* CFE_TBL_UpdateCriticalTblCDS, for the registry rg of the moment: the image
\* goes into the CDS, then the critical table registry.
UpdateCriticalTblCDS(rg, r) ==
    IF ~rg[r].CriticalTable THEN UNCHANGED cdsVars
    ELSE LET n == rg[r].CDSHandle
             i == FindCriticalTblInfo(n)
         IN  /\ CDS' = [CDS EXCEPT ![n] = rg[r].Buffers[rg[r].ActiveBufferIndex].Data]
             /\ IF i = NOT_FOUND THEN UNCHANGED <<CritReg, SavedCritReg>>
                ELSE /\ CritReg' = [CritReg EXCEPT ![i].TableLoadedOnce = rg[r].TableLoadedOnce]
                     /\ SavedCritReg' = CritReg'

\* CFE_TBL_UpdateInternal, given the registry rg and the shared buffers lb the
\* caller leaves: a double buffered table switches buffers, a single buffered
\* one is copied unless somebody holds its address.
UpdateInternal(r, rg, lb) ==
    LET rec == rg[r]
        i == rec.LoadInProgress
        swapped == LoadDone([rg EXCEPT ![r].ActiveBufferIndex = i], r)
        copied == LoadDone([rg EXCEPT ![r].Buffers[0].Data = lb[i].Data], r)
    IN  \/ /\ ~rec.LoadPending \/ i = NONE \/ (~rec.DoubleBuffered /\ Locked(r))
           /\ Registry' = rg /\ LoadBuffs' = lb
           /\ UNCHANGED <<Handles, cdsVars>>
        \/ /\ rec.LoadPending /\ i # NONE /\ rec.DoubleBuffered
           /\ Registry' = swapped /\ LoadBuffs' = lb
           /\ Handles' = Notified(r)
           /\ UpdateCriticalTblCDS(swapped, r)
        \/ /\ rec.LoadPending /\ i # NONE /\ ~rec.DoubleBuffered /\ ~Locked(r)
           /\ Registry' = copied /\ LoadBuffs' = [lb EXCEPT ![i].Taken = FALSE]
           /\ Handles' = Notified(r)
           /\ UpdateCriticalTblCDS(copied, r)
-----------------------------------------------------------------------------
(***************************************************************************)
(* Registration                                                            *)
(***************************************************************************)
\* How many buffers of the pool table n takes.
BuffersOf(n) == IF Opt[n].UserDef THEN 0 ELSE IF Opt[n].Dbl THEN 2 ELSE 1

\* The record CFE_TBL_Register fills in, h being the descriptor of the owner.
NewRecord(a, n, h) ==
    [InitRegistryRecord EXCEPT
        !.OwnerAppId = a, !.Name = n,
        !.Buffers = [b \in 0..1 |-> IF b < BuffersOf(n) THEN ZeroBuffer ELSE NoBuffer],
        !.DoubleBuffered = Opt[n].Dbl, !.DumpOnly = Opt[n].DumpOnly,
        !.UserDefAddr = Opt[n].UserDef, !.Func = Opt[n].Func,
        !.TableLoadedOnce = Opt[n].DumpOnly /\ ~Opt[n].UserDef,
        !.CriticalTable = Opt[n].Critical,
        !.CDSHandle = IF Opt[n].Critical THEN n ELSE NULL,
        !.HeadOfAccessList = h]

NewHandle(a, r, updated, next) ==
    [FreeHandle EXCEPT !.UsedFlag = TRUE, !.AppId = a, !.RegIndex = r,
                       !.Updated = updated, !.NextLink = next]

\* The pool cannot give the second buffer: the first one is not returned, and
\* the record, which nobody owns, keeps the only pointer to it.
HalfAllocated(r) ==
    [Registry EXCEPT ![r] = [InitRegistryRecord EXCEPT
        !.Buffers = [b \in 0..1 |-> IF b = 0 THEN ZeroBuffer ELSE NoBuffer],
        !.DoubleBuffered = TRUE]]

\* The block of a critical table is new, cannot be restored, or has no entry
\* that says it was loaded: a new entry of the critical table registry, if any
\* is left.
NewCritEntry(n) ==
    LET i == FindCriticalTblInfo(NULL)
    IN  IF i = NOT_FOUND THEN UNCHANGED <<CritReg, SavedCritReg>>
        ELSE /\ CritReg' = [CritReg EXCEPT ![i] = [Name |-> n, TableLoadedOnce |-> FALSE]]
             /\ SavedCritReg' = CritReg'

\* The critical table n becomes record rec with descriptor h.  A block with a
\* bad CRC is read all the same.
RegisterCritical(n, r, h, rec, desc) ==
    LET i == FindCriticalTblInfo(n)
        known == i # NOT_FOUND /\ CritReg[i].TableLoadedOnce
        recovered == CDS[n] \in Image /\ known
        data == CASE CDS[n] = NULL -> ZERO
                  [] CDS[n] = EMPTY -> TORN
                  [] OTHER -> CDS[n]
        restored == [rec EXCEPT !.Buffers[0].Data = data]
    IN  /\ CDS' = [CDS EXCEPT ![n] = IF @ = NULL THEN EMPTY ELSE @]
        /\ \/ /\ recovered
              /\ Registry' = LoadDone([Registry EXCEPT ![r] = restored], r)
              /\ Handles' = [Handles EXCEPT ![h] = [desc EXCEPT !.Updated = TRUE]]
              /\ UNCHANGED <<CritReg, SavedCritReg>>
           \/ /\ ~recovered
              /\ Registry' = [Registry EXCEPT ![r] = restored]
              /\ Handles' = [Handles EXCEPT ![h] = desc]
              /\ NewCritEntry(n)

\* CFE_TBL_Register.  A table that is registered already, or for which there is
\* no record or no descriptor, changes nothing.
Register(a, n) ==
    LET r == FindFreeRegistryEntry
        h == FindFreeHandle
        rec == NewRecord(a, n, h)
        desc == NewHandle(a, r, FALSE, END_OF_LIST)
    IN  /\ Opt[n].App = a
        /\ FindTableInRegistry(n) = NOT_FOUND
        /\ r # NOT_FOUND /\ h # END_OF_LIST
        /\ \/ /\ BuffersOf(n) > PoolFree
              /\ PoolFree' = 0
              /\ Registry' = IF PoolFree = 1 THEN HalfAllocated(r)
                             ELSE [Registry EXCEPT ![r] = InitRegistryRecord]
              /\ UNCHANGED <<Handles, cdsVars>>
           \/ /\ BuffersOf(n) <= PoolFree
              /\ PoolFree' = PoolFree - BuffersOf(n)
              /\ IF Opt[n].Critical THEN RegisterCritical(n, r, h, rec, desc)
                 ELSE /\ Registry' = [Registry EXCEPT ![r] = rec]
                      /\ Handles' = [Handles EXCEPT ![h] = desc]
                      /\ UNCHANGED cdsVars
        /\ UNCHANGED <<LoadBuffs, ValidationResults, DumpControlBlocks>>

\* CFE_TBL_Share: a new head of the list of descriptors.
Share(a, n) ==
    LET r == FindTableInRegistry(n)
        h == FindFreeHandle
        head == Registry[r].HeadOfAccessList
    IN  /\ a \in Opt[n].Users
        /\ r # NOT_FOUND /\ h # END_OF_LIST
        /\ Handles' = [Handles EXCEPT ![h] = NewHandle(a, r, Registry[r].TableLoadedOnce, head),
                                      ![head].PrevLink = h]
        /\ Registry' = [Registry EXCEPT ![r].HeadOfAccessList = h]
        /\ UNCHANGED <<LoadBuffs, ValidationResults, DumpControlBlocks, PoolFree, cdsVars>>

\* The descriptors H without h in its list.
UnlinkNextOnly(H, h) ==
    [i \in Handle |->
        CASE i = h -> FreeHandle
          [] i # h /\ i = H[h].NextLink -> [H[i] EXCEPT !.PrevLink = H[h].PrevLink]
          [] OTHER -> H[i]]
Unlink(H, h) ==
    [i \in Handle |->
        CASE i = h -> FreeHandle
          [] i # h /\ i = H[h].NextLink -> [H[i] EXCEPT !.PrevLink = H[h].PrevLink]
          [] i # h /\ i = H[h].PrevLink -> [H[i] EXCEPT !.NextLink = H[h].NextLink]
          [] OTHER -> H[i]]

\* Whether a table without its descriptor is kept: while others have one.
KeptByOwner(rec) == rec.HeadOfAccessList # END_OF_LIST /\ rec.OwnerAppId # NoApp
Kept(rec) == rec.HeadOfAccessList # END_OF_LIST

\* How many buffers go back to the pool with a table.
Returned(rec) == Cardinality({b \in 0..1 : ~rec.UserDefAddr /\ rec.Buffers[b] # NoBuffer})

\* CFE_TBL_RemoveAccessLink on the state S: the descriptor leaves the list, and
\* the last one takes the buffers and the working buffer along.  What else a
\* free descriptor or record holds is never read: Register and Share clear it.
RemoveAccessLink(S, h) ==
    LET d == S.H[h]
        r == d.RegIndex
        rec == IF d.PrevLink = END_OF_LIST
               THEN [S.R[r] EXCEPT !.HeadOfAccessList = d.NextLink] ELSE S.R[r]
        i == rec.LoadInProgress
        frees == ~rec.UserDefAddr /\ ~rec.DoubleBuffered /\ i # NONE
    IN  IF Kept(rec)
        THEN [S EXCEPT !.R[r] = rec, !.H = Unlink(S.H, h)]
        ELSE [R |-> [S.R EXCEPT ![r] = [InitRegistryRecord EXCEPT
                        !.LoadInProgress = IF rec.UserDefAddr THEN i ELSE NONE]],
              H |-> Unlink(S.H, h),
              L |-> IF frees THEN [S.L EXCEPT ![i].Taken = FALSE] ELSE S.L,
              P |-> S.P + Returned(rec)]

\* The owner gives the table up, whoever still has a descriptor of it.
Disown(S, a, h) ==
    LET r == S.H[h].RegIndex
    IN  IF S.R[r].OwnerAppId = a
        THEN [S EXCEPT !.R[r].OwnerAppId = NoApp, !.R[r].Name = NULL] ELSE S

Removed(S) ==
    /\ Registry' = S.R /\ Handles' = S.H /\ LoadBuffs' = S.L /\ PoolFree' = S.P
    /\ UNCHANGED <<ValidationResults, cdsVars>>

Now == [R |-> Registry, H |-> Handles, L |-> LoadBuffs, P |-> PoolFree]

Unregister(a, h) ==
    /\ ValidateAccess(a, h)
    /\ Removed(RemoveAccessLink(Disown(Now, a, h), h))
    /\ UNCHANGED DumpControlBlocks

\* CFE_TBL_CleanUpApp, when an application is deleted: the dumps of its tables
\* are dropped, then its descriptors in ascending order.
DescriptorsOf(a) == {h \in Handle : ValidateAccess(a, h)}
RemovedUpTo(a) ==
    LET after[h \in -1 .. NumHandles - 1] ==
            IF h = -1 THEN Now
            ELSE IF h \in DescriptorsOf(a) THEN RemoveAccessLink(Disown(after[h-1], a, h), h)
            ELSE after[h-1]
    IN  after
CleanUpApp(a) ==
    /\ DescriptorsOf(a) # {}
    /\ DumpControlBlocks' = [i \in Shared |->
         IF /\ DumpControlBlocks[i].State # "FREE"
            /\ Registry[DumpControlBlocks[i].Reg].OwnerAppId = a
         THEN FreeDump ELSE DumpControlBlocks[i]]
    /\ Removed(RemovedUpTo(a)[NumHandles - 1])
-----------------------------------------------------------------------------
(***************************************************************************)
(* The calls of an application that has a descriptor                       *)
(***************************************************************************)
\* CFE_TBL_GetAddress
GetAddress(a, h) ==
    LET rec == Registry[Handles[h].RegIndex]
    IN  /\ ValidateAccess(a, h)
        /\ rec.OwnerAppId # NoApp
        /\ Handles' = [Handles EXCEPT ![h].LockFlag = TRUE, ![h].Updated = FALSE,
                                      ![h].BufferIndex = rec.ActiveBufferIndex]
        /\ UNCHANGED <<Registry, LoadBuffs, ValidationResults, DumpControlBlocks, PoolFree, cdsVars>>

ReleaseAddress(a, h) ==
    /\ ValidateAccess(a, h)
    /\ Handles' = [Handles EXCEPT ![h].LockFlag = FALSE]
    /\ UNCHANGED <<Registry, LoadBuffs, ValidationResults, DumpControlBlocks, PoolFree, cdsVars>>

\* CFE_TBL_Load of a user defined dump-only table: the address, once.
LoadAddress(a, h) ==
    LET r == Handles[h].RegIndex
    IN  /\ ValidateAccess(a, h)
        /\ Registry[r].UserDefAddr /\ ~Registry[r].TableLoadedOnce
        /\ Registry' = [Registry EXCEPT ![r].Buffers[0].Data = USER, ![r].TableLoadedOnce = TRUE]
        /\ UNCHANGED <<Handles, LoadBuffs, ValidationResults, DumpControlBlocks, PoolFree, cdsVars>>

\* What CFE_TBL_Load leaves in its working buffer: the image, zeroes when the
\* validation function rejects it, TORN when the file ends too early.
Loaded(r, img, ok) ==
    IF ~ok THEN TORN ELSE IF Registry[r].Func /\ img \notin Good THEN ZERO ELSE img

\* CFE_TBL_Load from a file or from memory.
Load(a, h, img, ok) ==
    LET r == Handles[h].RegIndex
        rec == Registry[r]
        w == GetWorkingBuffer(r, TRUE)
        d == Loaded(r, img, ok)
        rg == PutOwn(WithLoadInProgress(r, w, TRUE), r, w, d)
        lb == PutShared(LoadBuffs, w, d)
    IN  /\ ValidateAccess(a, h)
        /\ ~rec.DumpOnly
        /\ rec.LoadInProgress = NONE
        /\ w # NoWork
        /\ \/ /\ d # img
              /\ Registry' = [rg EXCEPT ![r].LoadInProgress = NONE]
              /\ LoadBuffs' = IF w.Kind = "shared" THEN [lb EXCEPT ![w.Index].Taken = FALSE] ELSE lb
              /\ UNCHANGED <<Handles, cdsVars>>
           \/ /\ d = img /\ rec.TableLoadedOnce
              /\ UpdateInternal(r, [rg EXCEPT ![r].LoadPending = TRUE], lb)
           \/ /\ d = img /\ ~rec.TableLoadedOnce
              /\ Registry' = LoadDone(rg, r)
              /\ LoadBuffs' = lb
              /\ Handles' = Notified(r)
              /\ UpdateCriticalTblCDS(LoadDone(rg, r), r)
        /\ UNCHANGED <<ValidationResults, DumpControlBlocks, PoolFree>>

\* CFE_TBL_Update
Update(a, h) ==
    LET r == Handles[h].RegIndex
    IN  /\ ValidateAccess(a, h)
        /\ Registry[r].LoadPending
        /\ UpdateInternal(r, Registry, LoadBuffs)
        /\ UNCHANGED <<ValidationResults, DumpControlBlocks, PoolFree>>

\* CFE_TBL_Validate of the inactive image.  When the load was aborted or
\* completed meanwhile, a single buffered table has none: the function is called
\* with what lies in front of LoadBuffs, and whatever it says goes nowhere.
ValidateInactive(a, h) ==
    LET r == Handles[h].RegIndex
        rec == Registry[r]
        b == Inactive(r)
        i == rec.LoadInProgress
    IN  /\ ValidateAccess(a, h)
        /\ rec.ValidateInactiveIndex # NONE
        /\ ValidationResults' = [ValidationResults EXCEPT ![rec.ValidateInactiveIndex] = "PERFORMED"]
        /\ Registry' = [Registry EXCEPT
             ![r].ValidateInactiveIndex = NONE,
             ![r].Buffers[b].Validated = @ \/ (rec.DoubleBuffered /\ rec.Buffers[b].Data \in Good)]
        /\ LoadBuffs' = IF ~rec.DoubleBuffered /\ i # NONE /\ LoadBuffs[i].Data \in Good
                        THEN [LoadBuffs EXCEPT ![i].Validated = TRUE] ELSE LoadBuffs
        /\ UNCHANGED <<Handles, DumpControlBlocks, PoolFree, cdsVars>>

\* CFE_TBL_Validate of the active image, when no inactive one waits for it.
ValidateActive(a, h) ==
    LET r == Handles[h].RegIndex
        v == Registry[r].ValidateActiveIndex
    IN  /\ ValidateAccess(a, h)
        /\ Registry[r].ValidateInactiveIndex = NONE /\ v # NONE
        /\ ValidationResults' = [ValidationResults EXCEPT ![v] = "PERFORMED"]
        /\ Registry' = [Registry EXCEPT ![r].ValidateActiveIndex = NONE]
        /\ UNCHANGED <<Handles, LoadBuffs, DumpControlBlocks, PoolFree, cdsVars>>

DumpStillAsked(a, h) ==
    LET r == Handles[h].RegIndex
        rec == Registry[r]
        c == rec.DumpControlIndex
    IN  /\ ValidateAccess(a, h)
        /\ ~rec.LoadPending
        /\ rec.ValidateActiveIndex = NONE /\ rec.ValidateInactiveIndex = NONE
        /\ c # NONE
        /\ LoadBuffs' = [LoadBuffs EXCEPT ![DumpControlBlocks[c].Buf].Data =
                             IF rec.UserDefAddr THEN TORN ELSE rec.Buffers[0].Data]
        /\ DumpControlBlocks' = [DumpControlBlocks EXCEPT ![c].State = "PERFORMED"]
        /\ UNCHANGED <<Registry, Handles, ValidationResults, PoolFree, cdsVars>>

\* CFE_TBL_DumpToBuffer, when CFE_TBL_GetStatus says that a dump is pending.
DumpToBuffer(a, h) ==
    LET r == Handles[h].RegIndex
        rec == Registry[r]
        c == rec.DumpControlIndex
    IN  /\ ValidateAccess(a, h)
        /\ ~rec.LoadPending
        /\ rec.ValidateActiveIndex = NONE /\ rec.ValidateInactiveIndex = NONE
        /\ c # NONE
        /\ LoadBuffs' = [LoadBuffs EXCEPT ![DumpControlBlocks[c].Buf].Data =
                             IF rec.UserDefAddr THEN TORN ELSE rec.Buffers[0].Data]
        /\ DumpControlBlocks' = [DumpControlBlocks EXCEPT ![c].State = "PERFORMED"]
        /\ Registry' = [Registry EXCEPT ![r].DumpControlIndex = NONE]
        /\ UNCHANGED <<Handles, ValidationResults, PoolFree, cdsVars>>

ModifiedUnsaved(a, h, img) ==
    LET r == Handles[h].RegIndex
        rg == [Registry EXCEPT ![r].Buffers[Registry[r].ActiveBufferIndex].Data = img]
    IN  /\ ValidateAccess(a, h)
        /\ ~Registry[r].UserDefAddr
        /\ Handles[h].LockFlag /\ Handles[h].BufferIndex = Registry[r].ActiveBufferIndex
        /\ Registry' = rg
        /\ Handles' = [i \in Handle |-> IF i \in AccessList(r) /\ Handles[i].AppId # a
                                        THEN [Handles[i] EXCEPT !.Updated = TRUE] ELSE Handles[i]]
        /\ UNCHANGED cdsVars
        /\ UNCHANGED <<LoadBuffs, ValidationResults, DumpControlBlocks, PoolFree>>

\* An application that holds the address of a table writes into it and calls
\* CFE_TBL_Modified.
Modified(a, h, img) ==
    LET r == Handles[h].RegIndex
        rg == [Registry EXCEPT ![r].Buffers[Registry[r].ActiveBufferIndex].Data = img]
    IN  /\ ValidateAccess(a, h)
        /\ ~Registry[r].UserDefAddr
        /\ Handles[h].LockFlag /\ Handles[h].BufferIndex = Registry[r].ActiveBufferIndex
        /\ Registry' = rg
        /\ Handles' = [i \in Handle |-> IF i \in AccessList(r) /\ Handles[i].AppId # a
                                        THEN [Handles[i] EXCEPT !.Updated = TRUE] ELSE Handles[i]]
        /\ UpdateCriticalTblCDS(rg, r)
        /\ UNCHANGED <<LoadBuffs, ValidationResults, DumpControlBlocks, PoolFree>>
-----------------------------------------------------------------------------
(***************************************************************************)
(* The commands of the table task                                          *)
(***************************************************************************)
\* CFE_TBL_LoadCmd.  A file that ends too early or is too long leaves the
\* working buffer allocated and its Validated flag as it was.
LoadCmd(n, img, ok) ==
    LET r == FindTableInRegistry(n)
        w == GetWorkingBuffer(r, FALSE)
        d == IF ok THEN img ELSE TORN
        rg == PutOwn(WithLoadInProgress(r, w, FALSE), r, w, d)
        lb == PutShared(LoadBuffs, w, d)
    IN  /\ r # NOT_FOUND
        /\ ~Registry[r].DumpOnly /\ ~Registry[r].LoadPending
        /\ w # NoWork
        /\ Registry' = IF ok /\ w.Kind = "own"
                       THEN [rg EXCEPT ![r].Buffers[w.Index].Validated = ~rg[r].Func] ELSE rg
        /\ LoadBuffs' = IF ok /\ w.Kind = "shared"
                        THEN [lb EXCEPT ![w.Index].Validated = ~rg[r].Func] ELSE lb
        /\ UNCHANGED <<Handles, ValidationResults, DumpControlBlocks, PoolFree, cdsVars>>

\* CFE_TBL_ValidateCmd: a validation is requested from the owner, or is done at
\* once when the table has no validation function.
ValidateCmd(n, active) ==
    LET r == FindTableInRegistry(n)
        v == First({i \in DOMAIN ValidationResults : ValidationResults[i] = "FREE"}, NOT_FOUND)
    IN  /\ r # NOT_FOUND /\ v # NOT_FOUND
        /\ IF active THEN ActiveData(r) # NULL
           ELSE Registry[r].DoubleBuffered \/ Registry[r].LoadInProgress # NONE
        /\ \/ /\ Registry[r].Func
              /\ ValidationResults' = [ValidationResults EXCEPT ![v] = "PENDING"]
              /\ Registry' = IF active THEN [Registry EXCEPT ![r].ValidateActiveIndex = v]
                             ELSE [Registry EXCEPT ![r].ValidateInactiveIndex = v]
           \/ /\ ~Registry[r].Func
              /\ ValidationResults' = [ValidationResults EXCEPT ![v] = "PERFORMED"]
              /\ UNCHANGED Registry
        /\ UNCHANGED <<Handles, LoadBuffs, DumpControlBlocks, PoolFree, cdsVars>>

ActivateUnvalidated(n) ==
    LET r == FindTableInRegistry(n)
        rec == Registry[r]
    IN  /\ r # NOT_FOUND
        /\ ~rec.DumpOnly /\ rec.LoadInProgress # NONE
        /\ Registry' = [Registry EXCEPT ![r].LoadPending = TRUE]
        /\ UNCHANGED <<Handles, LoadBuffs, ValidationResults, DumpControlBlocks, PoolFree, cdsVars>>

\* CFE_TBL_ActivateCmd: the owner is asked to update, if the image is validated.
ActivateCmd(n) ==
    LET r == FindTableInRegistry(n)
        rec == Registry[r]
    IN  /\ r # NOT_FOUND
        /\ ~rec.DumpOnly /\ rec.LoadInProgress # NONE
        /\ IF rec.DoubleBuffered THEN rec.Buffers[Inactive(r)].Validated
           ELSE LoadBuffs[rec.LoadInProgress].Validated
        /\ Registry' = [Registry EXCEPT ![r].LoadPending = TRUE]
        /\ UNCHANGED <<Handles, LoadBuffs, ValidationResults, DumpControlBlocks, PoolFree, cdsVars>>

AbortWithoutFree(n) ==
    LET r == FindTableInRegistry(n)
        rec == Registry[r]
    IN  /\ r # NOT_FOUND
        /\ ~rec.DumpOnly /\ rec.LoadInProgress # NONE
        /\ LoadBuffs' = LoadBuffs
        /\ Registry' = [Registry EXCEPT ![r].LoadInProgress = NONE, ![r].LoadPending = FALSE]
        /\ UNCHANGED <<Handles, ValidationResults, DumpControlBlocks, PoolFree, cdsVars>>

\* CFE_TBL_AbortLoadCmd and CFE_TBL_AbortLoad
AbortLoadCmd(n) ==
    LET r == FindTableInRegistry(n)
        rec == Registry[r]
    IN  /\ r # NOT_FOUND
        /\ ~rec.DumpOnly /\ rec.LoadInProgress # NONE
        /\ LoadBuffs' = IF rec.DoubleBuffered THEN LoadBuffs
                        ELSE [LoadBuffs EXCEPT ![rec.LoadInProgress].Taken = FALSE]
        /\ Registry' = [Registry EXCEPT ![r].LoadInProgress = NONE, ![r].LoadPending = FALSE]
        /\ UNCHANGED <<Handles, ValidationResults, DumpControlBlocks, PoolFree, cdsVars>>

\* CFE_TBL_DumpCmd of a dump-only table: a control block and a working buffer,
\* which GetWorkingBuffer fills with the contents of the moment.  The dump of
\* any other table is written at once and changes nothing here.
DumpCmd(n, active) ==
    LET r == FindTableInRegistry(n)
        rec == Registry[r]
        c == First({i \in Shared : DumpControlBlocks[i].State = "FREE"}, NOT_FOUND)
        w == GetWorkingBuffer(r, FALSE)
        fresh == rec.LoadInProgress = NONE
    IN  /\ r # NOT_FOUND
        /\ rec.DumpOnly
        /\ IF active THEN ActiveData(r) # NULL ELSE ~fresh /\ ~rec.UserDefAddr
        /\ rec.DumpControlIndex = NONE
        /\ c # NOT_FOUND /\ w # NoWork
        /\ Registry' = [WithLoadInProgress(r, w, FALSE) EXCEPT ![r].DumpControlIndex = c]
        /\ LoadBuffs' = IF fresh
                        THEN PutShared(LoadBuffs, w, IF rec.UserDefAddr THEN TORN ELSE ActiveData(r))
                        ELSE LoadBuffs
        /\ DumpControlBlocks' = [DumpControlBlocks EXCEPT
                                   ![c] = [State |-> "PENDING", Reg |-> r, Buf |-> w.Index]]
        /\ UNCHANGED <<Handles, ValidationResults, PoolFree, cdsVars>>

\* CFE_TBL_HousekeepingCmd: one validation result goes into the packet, and the
\* dumps that were performed are written.  Their working buffers are found
\* through the record the dump was requested for; when that record has none any
\* more the flag in front of LoadBuffs is cleared, which the model leaves out.
HousekeepingCmd ==
    LET v == First({i \in DOMAIN ValidationResults : ValidationResults[i] = "PERFORMED"}, NOT_FOUND)
        done == {i \in Shared : DumpControlBlocks[i].State = "PERFORMED"}
        recs == {DumpControlBlocks[i].Reg : i \in done}
    IN  /\ v # NOT_FOUND \/ done # {}
        /\ ValidationResults' = IF v = NOT_FOUND THEN ValidationResults
                                ELSE [ValidationResults EXCEPT ![v] = "FREE"]
        /\ LoadBuffs' = [i \in Shared |-> [LoadBuffs[i] EXCEPT
             !.Taken = @ /\ \A r \in recs : Registry[r].LoadInProgress # i]]
        /\ Registry' = [r \in Reg |-> IF r \in recs THEN [Registry[r] EXCEPT !.LoadInProgress = NONE]
                                      ELSE Registry[r]]
        /\ DumpControlBlocks' = [i \in Shared |-> IF i \in done THEN FreeDump ELSE DumpControlBlocks[i]]
        /\ UNCHANGED <<Handles, PoolFree, cdsVars>>
-----------------------------------------------------------------------------
(***************************************************************************)
(* Processor resets                                                        *)
(***************************************************************************)
\* CFE_TBL_EarlyInit again, with critical table registry saved and images cds.
Restart(saved, cds) ==
    /\ Registry' = EarlyInitMemory.Registry
    /\ Handles' = EarlyInitMemory.Handles
    /\ LoadBuffs' = EarlyInitMemory.LoadBuffs
    /\ ValidationResults' = EarlyInitMemory.ValidationResults
    /\ DumpControlBlocks' = EarlyInitMemory.DumpControlBlocks
    /\ PoolFree' = PoolSize
    /\ CritReg' = saved /\ SavedCritReg' = saved
    /\ CDS' = cds

ProcessorReset == Restart(SavedCritReg, CDS)

\* The images CFE_TBL_UpdateCriticalTblCDS may be saving for table r: that of a
\* pending load, or one that the owner loads or has modified.
Saving(r) ==
    LET rec == Registry[r]
    IN  IF rec.LoadInProgress = NONE THEN Good
        ELSE IF ~rec.LoadPending THEN {}
        ELSE IF rec.DoubleBuffered THEN {rec.Buffers[rec.LoadInProgress].Data}
        ELSE {LoadBuffs[rec.LoadInProgress].Data}

\* A reset in the middle of CFE_TBL_UpdateCriticalTblCDS: the block of the table
\* is half written, or it is written and the registry is not.  (A half written
\* registry is read back in spite of its CRC, with the old or the new entry.)
ResetInCriticalUpdate(r) ==
    LET n == Registry[r].CDSHandle
    IN  /\ Registry[r].CriticalTable
        /\ \E d \in Saving(r) \cup {EMPTY} : Restart(SavedCritReg, [CDS EXCEPT ![n] = d])
-----------------------------------------------------------------------------
Call(a) ==
    \/ \E n \in TblName : Register(a, n) \/ Share(a, n)
    \/ \E h \in Handle :
         \/ Unregister(a, h) \/ GetAddress(a, h) \/ ReleaseAddress(a, h)
         \/ LoadAddress(a, h) \/ Update(a, h)
         \/ ValidateInactive(a, h) \/ ValidateActive(a, h) \/ DumpToBuffer(a, h)
         \/ \E img \in Good \cup Bad, ok \in BOOLEAN : Load(a, h, img, ok)
         \/ \E img \in Good : Modified(a, h, img)

Command ==
    \/ \E n \in TblName :
         \/ \E img \in Good \cup Bad, ok \in BOOLEAN : LoadCmd(n, img, ok)
         \/ \E active \in BOOLEAN : ValidateCmd(n, active) \/ DumpCmd(n, active)
         \/ ActivateCmd(n) \/ AbortLoadCmd(n)
    \/ HousekeepingCmd

Reset == ProcessorReset \/ \E r \in Reg : ResetInCriticalUpdate(r)

Next == Command \/ Reset \/ \E a \in App : Call(a) \/ CleanUpApp(a)

Spec == Init /\ [][Next]_vars
-----------------------------------------------------------------------------
\* The types of the tables of CFE_TBL_Global.
TypeOK ==
    /\ \A r \in Reg :
         LET rec == Registry[r]
         IN  /\ rec.OwnerAppId \in App \cup {NoApp}
             /\ rec.Name \in TblName \cup {NULL}
             /\ rec.Buffers \in [0..1 -> Buffer]
             /\ rec.ActiveBufferIndex \in 0..1
             /\ rec.LoadInProgress \in -1 .. Max({1, NumLoads - 1})
             /\ {rec.ValidateActiveIndex, rec.ValidateInactiveIndex} \subseteq -1 .. NumVals - 1
             /\ rec.DumpControlIndex \in -1 .. NumLoads - 1
             /\ rec.HeadOfAccessList \in -1 .. NumHandles - 1
    /\ Handles \in [Handle -> [UsedFlag : BOOLEAN, AppId : App \cup {NoApp}, RegIndex : Reg,
                               PrevLink : -1 .. NumHandles - 1, NextLink : -1 .. NumHandles - 1,
                               LockFlag : BOOLEAN, Updated : BOOLEAN, BufferIndex : 0..1]]
    /\ LoadBuffs \in [Shared -> [Data : Image, Validated : BOOLEAN, Taken : BOOLEAN]]
    /\ ValidationResults \in [0 .. NumVals - 1 -> {"FREE", "PENDING", "PERFORMED"}]
    /\ DumpControlBlocks \in
         [Shared -> [State : {"FREE", "PENDING", "PERFORMED"}, Reg : Reg, Buf : Shared]]
    /\ PoolFree \in 0 .. PoolSize
    /\ {CritReg, SavedCritReg} \subseteq
         [1 .. NumCrit -> [Name : TblName \cup {NULL}, TableLoadedOnce : BOOLEAN]]
    /\ CDS \in [TblName -> Image \cup {NULL, EMPTY}]

\* The list that CFE_TBL_Register, CFE_TBL_Share and CFE_TBL_RemoveAccessLink
\* keep holds exactly the descriptors in use for the record, linked both ways,
\* whoever unregisters, shares or is deleted in which order; and an owned table
\* has a descriptor of its owner, so that CFE_TBL_Share always finds a head.
AccessListExact ==
    \A r \in Reg :
        /\ AccessList(r) = {h \in Handle : Handles[h].UsedFlag /\ Handles[h].RegIndex = r}
        /\ \A h \in AccessList(r) :
             /\ (Handles[h].PrevLink = END_OF_LIST) = (Registry[r].HeadOfAccessList = h)
             /\ Handles[h].NextLink # END_OF_LIST => Handles[Handles[h].NextLink].PrevLink = h
        /\ Registry[r].OwnerAppId # NoApp =>
             \E h \in AccessList(r) : Handles[h].AppId = Registry[r].OwnerAppId

\* The buffers a record has from the memory pool.
PoolBuffers(r) == {b \in 0..1 : Registry[r].Buffers[b].Data \notin {NULL, USER}}

\* A table that anybody has a descriptor of keeps its buffers, also after its
\* owner has unregistered it ("Allocated memory is freed when all Access Links
\* have been removed"), a table nobody uses has none but for a half failed
\* registration, and no buffer is freed twice or counted in two places.
MemoryAccounted ==
    /\ TypeOK
    /\ \A h \in Handle :
         LET r == Handles[h].RegIndex
         IN  Handles[h].UsedFlag /\ ~Registry[r].UserDefAddr =>
               PoolBuffers(r) = IF Registry[r].DoubleBuffered THEN 0..1 ELSE {0}
    /\ \A r \in Reg : AccessList(r) = {} => Cardinality(PoolBuffers(r)) <= 1
    /\ PoolFree + SumFunction([r \in Reg |-> Cardinality(PoolBuffers(r))]) <= PoolSize

\* A single buffered table with a load in progress has a shared buffer of its
\* own, marked as taken, and every buffer that is taken is some table's.  A load
\* that is pending is a load in progress: CFE_TBL_Update always finds the image
\* that was activated, however aborts, loads by the owner and commands interleave.
WorkBufferExclusive ==
    LET loading == {r \in Reg : ~Registry[r].DoubleBuffered /\ Registry[r].LoadInProgress # NONE}
    IN  /\ \A r, s \in loading : Registry[r].LoadInProgress = Registry[s].LoadInProgress => r = s
        /\ {i \in Shared : LoadBuffs[i].Taken} = {Registry[r].LoadInProgress : r \in loading}
        /\ \A r \in Reg : Registry[r].LoadPending => Registry[r].LoadInProgress # NONE

\* A table that waits for its owner to dump it has a control block that is
\* pending for that table, whatever is dumped, unregistered or deleted meanwhile
\* (for tables that are not shared).
DumpRequestKnown ==
    \A r \in Reg : Registry[r].DumpControlIndex # NONE =>
        LET block == DumpControlBlocks[Registry[r].DumpControlIndex]
        IN  block.State = "PENDING" /\ block.Reg = r

\* The contents of a loaded table with a validation function were accepted by
\* it, or are those of a file that could not be read to its end (see
\* ActivatedValidated): rejected contents get neither through CFE_TBL_Load nor
\* through the load, validate and activate commands nor through the CDS.
NoRejectedContents ==
    \A r \in Reg :
        Registry[r].Func /\ Registry[r].TableLoadedOnce /\ AccessList(r) # {} =>
            ActiveData(r) \in Good \cup {TORN}

\* "The specified table's inactive image has not been validated... Inactive Image
\* MUST be successfully Validated prior to Activation": no table becomes active
\* with contents its validation function did not accept.
ActivatedValidated ==
    \A r \in Reg :
        Registry[r].Func /\ Registry[r].TableLoadedOnce /\ AccessList(r) # {} =>
            ActiveData(r) \in Good

\* The image in the critical data store of a loaded critical table is the one
\* its owner uses, after any load, update or modification, and after any reset
\* and recovery.
CriticalSaved ==
    \A r \in Reg :
        Registry[r].CriticalTable /\ Registry[r].TableLoadedOnce /\ AccessList(r) # {} =>
            CDS[Registry[r].CDSHandle] = ActiveData(r)

\* While an application holds the address of a loaded table, the contents behind
\* it change only when some application modifies them in place and calls
\* CFE_TBL_Modified: no load, update or abort writes a buffer that is locked.
LockedStable ==
    [][\A h \in Handle :
         LET r == Handles[h].RegIndex
             b == Handles[h].BufferIndex
         IN  /\ Handles[h].LockFlag /\ Handles'[h].LockFlag
             /\ Registry[r].TableLoadedOnce /\ ~Registry[r].UserDefAddr
             /\ Registry'[r].Buffers[b].Data # Registry[r].Buffers[b].Data
             => \E a \in App, i \in Handle, img \in Good : Modified(a, i, img)]_vars
=============================================================================
