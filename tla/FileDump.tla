------------------------------ MODULE FileDump ------------------------------
(***************************************************************************)
(* Background file writes of File Services: a ring of request pointers,    *)
(* filled by command handlers (cfe_sb_task.c, cfe_tbl_task_cmds.c,         *)
(* cfe_es_task.c) and emptied by CFE_FS_RunBackgroundFileDump, which the   *)
(* ES background task calls again and again. Each request object is used   *)
(* by one command handler, as in the code. The file writer holds the FS    *)
(* lock only to look for a request and to retire it; everything between is *)
(* a step of its own. Bytes are counted in units.                          *)
(***************************************************************************)
EXTENDS Integers, FiniteSets, Sequences

CONSTANTS
    Meta,           \* request objects (CFE_FS_FileWriteMetaData_t)
    Name,           \* file names
    NamesFor,       \* the names the command of each request object may give
    NULL,
    CFE_FS_MAX_BACKGROUND_FILE_WRITES,
    CountModulus,   \* 2^32 in the code: RequestCount and CompleteCount wrap
    CFE_FS_BACKGROUND_MAX_CREDIT,
    Elapsed,        \* credit a call can earn
    HeaderSize,
    RecordSize,     \* sizes a getter can return; 0 is a hole
    LastRecord      \* the record at which a getter reports the end

ASSUME FDAssumption ==
    /\ CFE_FS_MAX_BACKGROUND_FILE_WRITES \in Nat \ {0}
    /\ CountModulus \in Nat \ {0}
    /\ CountModulus % CFE_FS_MAX_BACKGROUND_FILE_WRITES = 0
    /\ CFE_FS_BACKGROUND_MAX_CREDIT \in Nat \ {0}
    /\ Elapsed \subseteq Nat /\ RecordSize \subseteq Nat
    /\ \E size \in RecordSize : size > 0
    /\ HeaderSize \in Nat /\ LastRecord \in Nat
    /\ NULL \notin Meta \cup Name
    /\ NamesFor \in [Meta -> SUBSET Name]

VARIABLES
    \* CFE_FS_Global.FileDump
    RequestCount, CompleteCount, Entries,
    \* CFE_FS_Global.FileDump.Current; Fd is the name of the open file
    Fd, Credit, RecordNum,
    \* the request objects, and what OnEvent reported of the pending request
    IsPending, FileName, Told,
    \* the command handlers: request objects filled in and not yet submitted
    Filled,
    \* the file writer: program counter, Curr and Meta, IsEOF, return value
    pc, Curr, CurMeta, IsEOF, Active

ring   == <<RequestCount, CompleteCount, Entries>>
file   == <<Fd, Credit, RecordNum>>
meta   == <<IsPending, FileName, Told>>
writer == <<pc, Curr, CurMeta, IsEOF, Active>>
vars   == <<ring, file, meta, Filled, writer>>

N == CFE_FS_MAX_BACKGROUND_FILE_WRITES

Event == {"COMPLETE", "CREATE_ERROR", "HEADER_WRITE_ERROR", "RECORD_WRITE_ERROR"}

Increment(c) == (c + 1) % CountModulus

\* count & (CFE_FS_MAX_BACKGROUND_FILE_WRITES - 1)
IndexOf(c) == c % N

\* Mutant: the ring is never full.
NeverFull == FALSE

\* Full: the count after this request would be N ahead of the completed ones.
QueueFull == Increment(RequestCount) = (CompleteCount + N) % CountModulus

TypeOK ==
    /\ RequestCount \in 0..(CountModulus - 1)
    /\ CompleteCount \in 0..(CountModulus - 1)
    /\ Entries \in [0..(N - 1) -> Meta \cup {NULL}]
    /\ Fd \in Name \cup {NULL}
    /\ Credit \in Int
    /\ RecordNum \in 0..(LastRecord + 1)
    /\ IsPending \in [Meta -> BOOLEAN]
    /\ FileName \in [Meta -> Name \cup {NULL}]
    /\ Told \in [Meta -> SUBSET Event]
    /\ Filled \subseteq Meta
    /\ pc \in {"idle", "open", "write", "finish", "retire"}
    /\ Curr \in 0..(N - 1)
    /\ CurMeta \in Meta \cup {NULL}
    /\ IsEOF \in BOOLEAN
    /\ Active \in BOOLEAN

Init ==
    /\ RequestCount = 0 /\ CompleteCount = 0
    /\ Entries = [i \in 0..(N - 1) |-> NULL]
    /\ Fd = NULL /\ Credit = 0 /\ RecordNum = 0
    /\ IsPending = [m \in Meta |-> FALSE]
    /\ FileName = [m \in Meta |-> NULL]
    /\ Told = [m \in Meta |-> {}]
    /\ Filled = {}
    /\ pc = "idle" /\ Curr = 0 /\ CurMeta = NULL /\ IsEOF = FALSE
    /\ Active = FALSE

-----------------------------------------------------------------------------
(***************************************************************************)
(* The command handlers                                                    *)
(***************************************************************************)
\* Mutant: the handler does not look at IsPending.
FillPending(m, n) ==
    /\ m \notin Filled
    /\ FileName' = [FileName EXCEPT ![m] = n]
    /\ Filled' = Filled \cup {m}
    /\ UNCHANGED <<ring, file, IsPending, Told, writer>>

\* The handler finds its object free, without a lock, and fills it in.
FillRequest(m, n) ==
    /\ m \notin Filled
    /\ ~ IsPending[m]
    /\ FileName' = [FileName EXCEPT ![m] = n]
    /\ Filled' = Filled \cup {m}
    /\ UNCHANGED <<ring, file, IsPending, Told, writer>>

\* CFE_FS_BackgroundFileDumpRequest: the locked section stores the pointer.
BackgroundFileDumpRequest(m) ==
    /\ m \in Filled
    /\ ~ IsPending[m]
    /\ ~ QueueFull
    /\ Entries' = [Entries EXCEPT ![IndexOf(RequestCount)] = m]
    /\ IsPending' = [IsPending EXCEPT ![m] = TRUE]
    /\ RequestCount' = Increment(RequestCount)
    /\ Filled' = Filled \ {m}
    /\ UNCHANGED <<CompleteCount, file, FileName, Told, writer>>

\* CFE_STATUS_REQUEST_ALREADY_PENDING: the object stays filled in, not queued.
RequestRefused(m) ==
    /\ m \in Filled
    /\ IsPending[m] \/ QueueFull
    /\ Filled' = Filled \ {m}
    /\ UNCHANGED <<ring, file, meta, writer>>

-----------------------------------------------------------------------------
(***************************************************************************)
(* CFE_FS_RunBackgroundFileDump                                            *)
(***************************************************************************)
\* Mutant: a debt is never paid back.
EarnInDebt(e) == IF Credit < 0 THEN Credit ELSE Credit + e

\* The credit of the elapsed time, up to the maximum.
Earn(e) == IF Credit + e > CFE_FS_BACKGROUND_MAX_CREDIT
           THEN CFE_FS_BACKGROUND_MAX_CREDIT ELSE Credit + e

\* The call finds no request and returns false.
RunIdle(e) ==
    /\ pc = "idle"
    /\ CompleteCount = RequestCount
    /\ Credit' = Earn(e)
    /\ Active' = FALSE
    /\ UNCHANGED <<ring, Fd, RecordNum, meta, Filled, pc, Curr, CurMeta, IsEOF>>

\* The call finds a request; the lock is dropped with a pointer to its entry.
RunStart(e) ==
    /\ pc = "idle"
    /\ CompleteCount # RequestCount
    /\ Credit' = Earn(e)
    /\ Curr' = IndexOf(CompleteCount)
    /\ CurMeta' = Entries[IndexOf(CompleteCount)]
    /\ IsEOF' = FALSE
    /\ pc' = "open"
    /\ UNCHANGED <<ring, Fd, RecordNum, meta, Filled, Active>>

Tell(event) == Told' = [Told EXCEPT ![CurMeta] = @ \cup {event}]

\* First call for this entry: create the file and write its header.
OpenFile ==
    /\ pc = "open"
    /\ Fd = NULL /\ IsPending[CurMeta]
    /\ Fd' = FileName[CurMeta]
    /\ Credit' = Credit - HeaderSize
    /\ RecordNum' = 0
    /\ pc' = "write"
    /\ UNCHANGED <<ring, meta, Filled, Curr, CurMeta, IsEOF, Active>>

\* Mutant: a header that was not written is charged.
OpenErrorCharged(event) ==
    /\ pc = "open"
    /\ Fd = NULL /\ IsPending[CurMeta]
    /\ Tell(event)
    /\ pc' = "finish"
    /\ Credit' = Credit - HeaderSize
    /\ UNCHANGED <<ring, Fd, RecordNum, IsPending, FileName, Filled, Curr,
                   CurMeta, IsEOF, Active>>

\* Mutant: the requester is not told.
OpenErrorQuiet(event) ==
    /\ pc = "open"
    /\ Fd = NULL /\ IsPending[CurMeta]
    /\ pc' = "finish"
    /\ UNCHANGED <<ring, file, meta, Filled, Curr, CurMeta, IsEOF, Active>>

\* The file cannot be created, or is closed again because the header fails.
OpenError(event) ==
    /\ pc = "open"
    /\ Fd = NULL /\ IsPending[CurMeta]
    /\ Tell(event)
    /\ pc' = "finish"
    /\ UNCHANGED <<ring, file, IsPending, FileName, Filled, Curr, CurMeta,
                   IsEOF, Active>>

\* A later call for this entry goes on where the last one stopped.
OpenAlready ==
    /\ pc = "open"
    /\ Fd # NULL \/ ~ IsPending[CurMeta]
    /\ pc' = "write"
    /\ UNCHANGED <<ring, file, meta, Filled, Curr, CurMeta, IsEOF, Active>>

MayWrite == Fd # NULL /\ Credit > 0 /\ ~ IsEOF

\* GetData at RecordNum returned size units; they are written.
WriteRecord(size) ==
    /\ pc = "write"
    /\ MayWrite
    /\ IsEOF' = (RecordNum >= LastRecord)
    /\ Credit' = Credit - size
    /\ RecordNum' = RecordNum + 1
    /\ UNCHANGED <<ring, Fd, meta, Filled, pc, Curr, CurMeta, Active>>

\* OS_write fails: the file is closed and the loop left.
WriteError(size) ==
    /\ pc = "write"
    /\ MayWrite
    /\ size > 0
    /\ IsEOF' = (RecordNum >= LastRecord)
    /\ Credit' = Credit - size
    /\ Fd' = NULL
    /\ Tell("RECORD_WRITE_ERROR")
    /\ pc' = "finish"
    /\ UNCHANGED <<ring, RecordNum, IsPending, FileName, Filled, Curr, CurMeta,
                   Active>>

WriteEnd ==
    /\ pc = "write"
    /\ ~ MayWrite
    /\ pc' = "finish"
    /\ UNCHANGED <<ring, file, meta, Filled, Curr, CurMeta, IsEOF, Active>>

\* At the end of the file close it and tell the requester.
FinishComplete ==
    /\ pc = "finish"
    /\ IsEOF
    /\ Fd' = NULL
    /\ Tell("COMPLETE")
    /\ pc' = "retire"
    /\ UNCHANGED <<ring, Credit, RecordNum, IsPending, FileName, Filled, Curr,
                   CurMeta, IsEOF, Active>>

\* After an error the file is closed: retire the entry.
FinishFailed ==
    /\ pc = "finish"
    /\ ~ IsEOF
    /\ Fd = NULL
    /\ pc' = "retire"
    /\ UNCHANGED <<ring, file, meta, Filled, Curr, CurMeta, IsEOF, Active>>

\* The call is over and its locals with it.
Return(active) ==
    /\ pc' = "idle"
    /\ Curr' = 0 /\ CurMeta' = NULL /\ IsEOF' = FALSE
    /\ Active' = active

\* The credit is used up with the file still open: return true.
FinishSlice ==
    /\ pc = "finish"
    /\ ~ IsEOF
    /\ Fd # NULL
    /\ Return(TRUE)
    /\ UNCHANGED <<ring, file, meta, Filled>>

\* Mutant: a failed request goes back to the end of the ring.
RetireRetry ==
    /\ pc = "retire"
    /\ Entries' = IF IsEOF THEN [Entries EXCEPT ![Curr] = NULL]
                  ELSE [Entries EXCEPT ![Curr] = NULL, ![IndexOf(RequestCount)] = CurMeta]
    /\ RequestCount' = IF IsEOF THEN RequestCount ELSE Increment(RequestCount)
    /\ CompleteCount' = Increment(CompleteCount)
    /\ IsPending' = [IsPending EXCEPT ![CurMeta] = ~ IsEOF]
    /\ Told' = [Told EXCEPT ![CurMeta] = {}]
    /\ Return(~ IsEOF)
    /\ UNCHANGED <<file, FileName, Filled>>

\* The last locked section: wipe the entry, release the request, return.
Retire ==
    /\ pc = "retire"
    /\ Entries' = [Entries EXCEPT ![Curr] = NULL]
    /\ CompleteCount' = Increment(CompleteCount)
    /\ IsPending' = [IsPending EXCEPT ![CurMeta] = FALSE]
    /\ Told' = [Told EXCEPT ![CurMeta] = {}]
    /\ Return(~ IsEOF)
    /\ UNCHANGED <<RequestCount, file, FileName, Filled>>

Write ==
    \/ OpenFile \/ OpenAlready
    \/ \E event \in {"CREATE_ERROR", "HEADER_WRITE_ERROR"} : OpenError(event)
    \/ \E size \in RecordSize : WriteRecord(size) \/ WriteError(size)
    \/ WriteEnd \/ FinishComplete \/ FinishFailed \/ FinishSlice \/ Retire

Command ==
    \E m \in Meta : \/ \E n \in NamesFor[m] : FillRequest(m, n)
                    \/ BackgroundFileDumpRequest(m)
                    \/ RequestRefused(m)

Next ==
    \/ Command
    \/ \E e \in Elapsed : RunIdle(e) \/ RunStart(e)
    \/ Write

Spec == Init /\ [][Next]_vars

\* The ES background task never ends: it is called again and again, time
\* passes between some of the calls, and a call that has begun goes on.
FairSpec ==
    /\ Spec
    /\ WF_vars(Write)
    /\ SF_vars(\E e \in Elapsed \ {0} : RunStart(e))
-----------------------------------------------------------------------------
(***************************************************************************)
(* Properties                                                              *)
(***************************************************************************)
Outstanding == (RequestCount - CompleteCount) % CountModulus

HeadMeta == Entries[IndexOf(CompleteCount)]

\* The entries in use are the ones from CompleteCount up to RequestCount, also
\* when the counts wrap, and a request never overwrites one of them: the test
\* for a full queue in CFE_FS_BackgroundFileDumpRequest leaves one entry free.
\* IsPending, which requesters read without the lock, is true exactly while the
\* request is in the ring.
RingExact ==
    /\ TypeOK
    /\ Outstanding <= N - 1
    /\ \A i \in 0..(N - 1) :
         Entries[i] # NULL <=>
             \E k \in 0..(Outstanding - 1) : i = IndexOf(CompleteCount + k)
    /\ \A m \in Meta : IsPending[m] <=> \E i \in 0..(N - 1) : Entries[i] = m

\* While a file is open, across calls of CFE_FS_RunBackgroundFileDump, the
\* request at the head of the ring is the one it was opened for, and its
\* requester has not changed the object since.
FileStaysNamed ==
    Fd # NULL => /\ HeadMeta # NULL
                 /\ IsPending[HeadMeta]
                 /\ FileName[HeadMeta] = Fd

\* A file is opened without looking at the credit, and a record is written if
\* any is left; the debt is still at most a header and a record, however many
\* requests fail or are short.
CreditBounded == \E size \in RecordSize : Credit > 0 - (HeaderSize + size)

\* A requester is told the outcome before its request leaves the queue.
NoSilentEnd ==
    [][\A m \in Meta : IsPending[m] /\ ~ IsPending'[m] => Told[m] # {}]_vars

\* The ring implements a first-in first-out queue of requests that holds one
\* less than CFE_FS_MAX_BACKGROUND_FILE_WRITES.
Q == INSTANCE RequestQueue WITH
        Capacity <- N - 1,
        pending  <- [i \in 1..Outstanding |-> Entries[IndexOf(CompleteCount + i - 1)]]
ImplementsQueue == Q!Spec

\* Every accepted request leaves the queue, whatever the file system answers.
RequestsEnd == \A m \in Meta : IsPending[m] ~> ~ IsPending[m]
=============================================================================
