--------------------------- MODULE CriticalData ----------------------------
(***************************************************************************)
(* The critical data store (CDS) of Executive Services: cfe_es_cds.c and   *)
(* cfe_es_cds_mempool.c over the generic pool.                             *)
(*                                                                         *)
(* The PSP keeps the store across a processor reset: two signatures, the   *)
(* size of the registry, a copy of the registry, and the pool with its     *)
(* block descriptors, block headers and data.  Everything else is lost.    *)
(* Each call of CFE_PSP_WriteToCDS is an action of its own, with the       *)
(* memory changes around it, and the processor may reset between any two.  *)
(* All calls hold the CDS mutex from beginning to end, so that one call at *)
(* a time is in progress.                                                  *)
(*                                                                         *)
(* A name stands for "AppName.CDSName", and each name for an application   *)
(* of its own.  A data set is a value and its size; its CRC is the data    *)
(* set itself, as if no two had the same CRC, except that the CRC of       *)
(* cleared memory is what a cleared header holds (CRC-16 from 0).  Writes  *)
(* of the signatures, of the registry, of a descriptor and of a header     *)
(* happen or do not; a write of data may be torn by the reset.  The PSP    *)
(* does not fail: in the code at hand it only refuses ranges outside the   *)
(* store.                                                                  *)
(***************************************************************************)
EXTENDS GenericPool

CONSTANTS
    Name,               \* names of critical data stores
    Size,               \* user block sizes applications ask for
    Value,              \* what applications store
    MaxNumEntries,      \* CFE_PLATFORM_ES_CDS_MAX_NUM_ENTRIES
    SerialMax,          \* CFE_RESOURCEID_MAX
    HeaderSize,         \* sizeof(CFE_ES_CDS_BlockHeader_t)
    NONE, ZERO, TORN, JUNK  \* no value; cleared, half written, arbitrary memory

\* The resource IDs are many more than the entries of the table, and memory
\* that was never cleared is neither a stored value nor a cleared one.
ASSUME StoreAssumption ==
    /\ MaxNumEntries \in Nat \ {0} /\ SerialMax \in Nat /\ SerialMax >= 2 * MaxNumEntries - 1
    /\ HeaderSize \in Nat /\ Size \subseteq Nat
    /\ JUNK \notin (Value \X Size) \cup {ZERO, TORN}

VARIABLES
    \* the store
    Signature,      \* the validity fields present: "begin", "end"
    RegSize,        \* the registry size in the store is the configured one
    SavedRegistry,  \* the copy of the registry in the store
    Desc,           \* block descriptors
    Crc,            \* block headers
    Data,           \* user data
    \* memory
    boot,           \* how far CFE_ES_CDS_EarlyInit is
    Registry,       \* CDS->Registry
    Pool,           \* CDS->Pool
    LastCDSBlockId, \* CDS->LastCDSBlockId
    call,           \* the call in progress
    Running,        \* the applications that run
    Handle,         \* the handle each application has
    \* history
    Stored,         \* the value last stored completely under each name
    lost            \* what resets have left behind in the store so far

store == <<Signature, RegSize, SavedRegistry, Desc, Crc, Data>>
memory == <<boot, Registry, Pool, LastCDSBlockId, call, Running, Handle>>
vars == <<store, memory, Stored, lost>>

-----------------------------------------------------------------------------
Index == 0 .. MaxNumEntries - 1
Serial == 0 .. SerialMax - 1
NoId == SerialMax

\* CFE_ES_CDS_RegRec_t; a record is in use if its id is defined.
NoRec == [id |-> NoId, name |-> NONE, offset |-> 0, size |-> 0]
Idle == [pc |-> "idle", name |-> NONE, size |-> 0, id |-> NoId, value |-> NONE]
NoRegistry == [i \in Index |-> NoRec]

Used(reg) == {i \in Index : reg[i].id # NoId}

\* CFE_ES_CDSHandle_ToIndex
ToIndex(id) == id % MaxNumEntries

\* CFE_ES_LocateCDSBlockRecordByName: the entry of a name, if it has one.
LocateByName(name) == {i \in Used(Registry) : Registry[i].name = name}

\* The serial number CFE_ResourceId_FindNext tries n steps after s: it goes on
\* from SerialMax % MaxNumEntries when it reaches SerialMax.
SerialAfter(s, n) ==
    IF s + n < SerialMax THEN s + n
    ELSE (SerialMax % MaxNumEntries) + (s + n - SerialMax)

\* CFE_ResourceId_FindNext: one try for each entry of the table.
FindNext(s) ==
    LET free == {n \in 1 .. MaxNumEntries : ToIndex(SerialAfter(s, n)) \notin Used(Registry)}
    IN  IF free = {} THEN NoId ELSE SerialAfter(s, Min(free))

\* What CFE_ES_CDSBlockRead and CFE_ES_CDSBlockWrite ask of a handle: the
\* record is the one of the handle, and its block and size agree with the
\* descriptor.
Accessible(id) ==
    LET rec == Registry[ToIndex(id)]
    IN  /\ id # NoId /\ rec.id = id
        /\ IsBlock(Pool, Desc, rec.offset)
        /\ Desc[rec.offset].size > HeaderSize
        /\ Desc[rec.offset].size = rec.size

\* The CRC CFE_ES_CDSBlockRead finds is the one in the header.
CrcMatches(rec) ==
    /\ Crc[rec.offset] = Data[rec.offset]
    /\ \/ Data[rec.offset] = ZERO
       \/ \E v \in Value : Data[rec.offset] = <<v, rec.size - HeaderSize>>

\* CFE_ES_CDSBlockRead succeeds.
BlockRead(id) == Accessible(id) /\ CrcMatches(Registry[ToIndex(id)])

-----------------------------------------------------------------------------
(***************************************************************************)
(* Start                                                                   *)
(***************************************************************************)
\* Power on: whatever the memory holds, the signatures are not there.
Init ==
    /\ Signature = {} /\ RegSize \in BOOLEAN
    /\ SavedRegistry = [i \in Index |-> [NoRec EXCEPT !.id = i, !.name = JUNK]]
    /\ Desc = [o \in Offset |-> [NoBD EXCEPT !.state = "junk"]]
    /\ Crc = [o \in Offset |-> JUNK] /\ Data = [o \in Offset |-> JUNK]
    /\ boot = "validate"
    /\ Registry = NoRegistry /\ Pool = GenPoolInitialize /\ LastCDSBlockId = 0
    /\ call = Idle
    /\ Running = {} /\ Handle = [n \in Name |-> NoId]
    /\ Stored = [n \in Name |-> NONE]
    /\ lost = {}

\* CFE_ES_ValidateCDS and, for a valid store, CFE_ES_RebuildCDS.  The
\* descriptors it rewrites get new links, which no later start reads.
ValidateOr(invalid) ==
    /\ boot = "validate"
    /\ IF Signature = {"begin", "end"} /\ RegSize
       THEN LET rebuilt == GenPoolRebuild(Desc)
            IN  /\ boot' = "available"
                /\ Registry' = SavedRegistry
                /\ Pool' = rebuilt.pool /\ Desc' = rebuilt.desc
       ELSE /\ boot' = invalid
            /\ UNCHANGED <<Registry, Pool, Desc>>
    /\ UNCHANGED <<Signature, RegSize, SavedRegistry, Crc, Data, LastCDSBlockId, call,
                   Running, Handle, Stored, lost>>

ValidateNoClear == ValidateOr("sign_begin")

\* CFE_ES_CDS_EarlyInit: an invalid store is cleared first.
Validate == ValidateOr("clear")

\* CFE_ES_ClearCDS wipes the store from its beginning; the signature at the
\* end is wiped last.
ClearHead ==
    /\ boot = "clear" /\ boot' = "clear_pool"
    /\ Signature' = Signature \ {"begin"} /\ RegSize' = FALSE /\ SavedRegistry' = NoRegistry
    /\ UNCHANGED <<Desc, Crc, Data>>

ClearPool ==
    /\ boot = "clear_pool" /\ boot' = "clear_end"
    /\ Desc' = [o \in Offset |-> NoBD]
    /\ Crc' = [o \in Offset |-> ZERO] /\ Data' = [o \in Offset |-> ZERO]
    /\ UNCHANGED <<Signature, RegSize, SavedRegistry>>

ClearEnd ==
    /\ boot = "clear_end" /\ boot' = "sign_begin"
    /\ Signature' = Signature \ {"end"}
    /\ UNCHANGED <<RegSize, SavedRegistry, Desc, Crc, Data>>

\* CFE_ES_InitCDSSignatures
InitSignatures ==
    /\ \/ /\ boot = "sign_begin" /\ boot' = "sign_end"
          /\ Signature' = Signature \cup {"begin"}
       \/ /\ boot = "sign_end" /\ boot' = "size"
          /\ Signature' = Signature \cup {"end"}
    /\ UNCHANGED <<RegSize, SavedRegistry, Desc, Crc, Data>>

\* CFE_ES_InitCDSRegistry; the pool is initialised before.
InitRegistry ==
    /\ \/ /\ boot = "size" /\ boot' = "registry"
          /\ RegSize' = TRUE
          /\ UNCHANGED SavedRegistry
       \/ /\ boot = "registry" /\ boot' = "available"
          /\ SavedRegistry' = Registry
          /\ UNCHANGED RegSize
    /\ UNCHANGED <<Signature, Desc, Crc, Data>>

EarlyInit ==
    \/ Validate
    \/ /\ ClearHead \/ ClearPool \/ ClearEnd \/ InitSignatures \/ InitRegistry
       /\ UNCHANGED <<Registry, Pool, LastCDSBlockId, call, Running, Handle, Stored, lost>>

-----------------------------------------------------------------------------
(***************************************************************************)
(* CFE_ES_RegisterCDSEx                                                    *)
(***************************************************************************)
CanCall == boot = "available" /\ call = Idle

\* A registration ends; the application keeps the handle of one that succeeds.
Returned(name, id) == Handle' = [Handle EXCEPT ![name] = id]

\* An application starts, or goes on, and registers a store: an entry of the
\* name is used again, else a free one is found.  If the block has the
\* requested size there is nothing to write and the answer is
\* CFE_ES_CDS_ALREADY_EXISTS.
Register(name, size) ==
    /\ CanCall
    /\ Running' = Running \cup {name}
    /\ \/ \E i \in LocateByName(name) :
            LET rec == Registry[i]
            IN  /\ UNCHANGED <<Registry, LastCDSBlockId>>
                /\ \/ /\ rec.offset # 0 /\ rec.size = size + HeaderSize
                      /\ Returned(name, rec.id)
                      /\ UNCHANGED <<call, Stored>>
                   \/ /\ rec.offset = 0 \/ rec.size # size + HeaderSize
                      /\ call' = [pc |-> IF rec.offset = 0 THEN "get" ELSE "put",
                                  name |-> name, size |-> size, id |-> rec.id, value |-> NONE]
                      /\ Stored' = [Stored EXCEPT ![name] = NONE]
                      /\ UNCHANGED Handle
       \/ /\ LocateByName(name) = {}
          /\ LET id == FindNext(LastCDSBlockId)
             IN  IF id = NoId
                 THEN /\ Returned(name, NoId)
                      /\ UNCHANGED <<Registry, LastCDSBlockId, call>>
                 ELSE /\ Registry' = [Registry EXCEPT ![ToIndex(id)] = NoRec]
                      /\ LastCDSBlockId' = id
                      /\ call' = [pc |-> "get", name |-> name, size |-> size,
                                  id |-> id, value |-> NONE]
                      /\ UNCHANGED Handle
          /\ UNCHANGED Stored
    /\ UNCHANGED <<store, boot, Pool, lost>>

\* The size is another one: the old block is released first.
RegisterPut ==
    /\ call.pc = "put"
    /\ LET i == ToIndex(call.id)
           offset == Registry[i].offset
           put == PutBlock(Pool, Desc, offset)
       IN  IF IsBlock(Pool, Desc, offset)
           THEN /\ Pool' = put.pool /\ Desc' = put.desc
                /\ Registry' = [Registry EXCEPT ![i].offset = 0, ![i].size = 0]
                /\ call' = [call EXCEPT !.pc = "get"]
                /\ UNCHANGED Handle
           ELSE /\ Returned(call.name, NoId)
                /\ call' = Idle
                /\ UNCHANGED <<Pool, Desc, Registry>>
    /\ UNCHANGED <<Signature, RegSize, SavedRegistry, Crc, Data, boot, LastCDSBlockId,
                   Running, Stored, lost>>

\* A block is allocated; without one the entry stays as it is, and the
\* registry in the store is not written.
RegisterGet ==
    /\ call.pc = "get"
    /\ LET got == GetBlock(Pool, Desc, call.size + HeaderSize)
       IN  /\ Pool' = got.pool /\ Desc' = got.desc
           /\ IF got.offset = 0
              THEN /\ Returned(call.name, NoId)
                   /\ call' = Idle
                   /\ UNCHANGED Registry
              ELSE /\ Registry' = [Registry EXCEPT ![ToIndex(call.id)] =
                                     [id |-> call.id, name |-> call.name,
                                      offset |-> got.offset, size |-> call.size + HeaderSize]]
                   /\ call' = [call EXCEPT !.pc = "save"]
                   /\ UNCHANGED Handle
    /\ UNCHANGED <<Signature, RegSize, SavedRegistry, Crc, Data, boot, LastCDSBlockId,
                   Running, Stored, lost>>

\* CFE_ES_UpdateCDSRegistry, the end of a registration and of a deletion.
UpdateCDSRegistry ==
    /\ call.pc \in {"save", "save_deleted"}
    /\ SavedRegistry' = Registry
    /\ IF call.pc = "save" THEN Returned(call.name, call.id) ELSE UNCHANGED Handle
    /\ call' = Idle
    /\ UNCHANGED <<Signature, RegSize, Desc, Crc, Data, boot, Registry, Pool,
                   LastCDSBlockId, Running, Stored, lost>>

-----------------------------------------------------------------------------
(***************************************************************************)
(* CFE_ES_CDSBlockWrite, CFE_ES_DeleteCDS, applications, resets            *)
(***************************************************************************)
BlockWriteNoHeader(name, v) ==
    /\ CanCall /\ name \in Running /\ Accessible(Handle[name])
    /\ call' = [pc |-> "data", name |-> name, id |-> Handle[name], value |-> v,
                size |-> Registry[ToIndex(Handle[name])].size - HeaderSize]
    /\ Stored' = [Stored EXCEPT ![name] = NONE]
    /\ UNCHANGED <<store, boot, Registry, Pool, LastCDSBlockId, Running, Handle, lost>>

\* CFE_ES_CDSBlockWrite: the header with the CRC of the data comes first.
BlockWrite(name, v) ==
    /\ CanCall /\ name \in Running /\ Accessible(Handle[name])
    /\ LET rec == Registry[ToIndex(Handle[name])]
       IN  /\ Crc' = [Crc EXCEPT ![rec.offset] = <<v, rec.size - HeaderSize>>]
           /\ call' = [pc |-> "data", name |-> name, size |-> rec.size - HeaderSize,
                       id |-> Handle[name], value |-> v]
    /\ Stored' = [Stored EXCEPT ![name] = NONE]
    /\ UNCHANGED <<Signature, RegSize, SavedRegistry, Desc, Data, boot, Registry, Pool,
                   LastCDSBlockId, Running, Handle, lost>>

BlockWriteData ==
    /\ call.pc = "data"
    /\ Data' = [Data EXCEPT ![Registry[ToIndex(call.id)].offset] = <<call.value, call.size>>]
    /\ Stored' = [Stored EXCEPT ![call.name] = call.value]
    /\ call' = Idle
    /\ UNCHANGED <<Signature, RegSize, SavedRegistry, Desc, Crc, boot, Registry, Pool,
                   LastCDSBlockId, Running, Handle, lost>>

\* CFE_ES_DeleteCDS, by the command of the right service.  An entry whose
\* block cannot be released stays.
Delete(name, free, then) ==
    /\ CanCall
    /\ \E i \in LocateByName(name) :
         /\ IsBlock(Pool, Desc, Registry[i].offset)
         /\ LET put == PutBlock(Pool, Desc, Registry[i].offset)
            IN  Pool' = put.pool /\ Desc' = put.desc
         /\ Registry' = [Registry EXCEPT ![i].id = IF free THEN NoId ELSE @]
    /\ call' = [Idle EXCEPT !.pc = then]
    /\ Stored' = [Stored EXCEPT ![name] = NONE]
    /\ UNCHANGED <<Signature, RegSize, SavedRegistry, Crc, Data, boot, LastCDSBlockId,
                   Running, Handle, lost>>

DeleteUnsaved(name) == name \notin Running /\ Delete(name, TRUE, "idle")
DeleteKeepsEntry(name) == name \notin Running /\ Delete(name, FALSE, "save_deleted")
DeleteRunning(name) == Delete(name, TRUE, "save_deleted")

\* The owner must not be running, the entry is freed, the registry is saved.
DeleteCDS(name) == name \notin Running /\ Delete(name, TRUE, "save_deleted")

\* An application ends; its handle is gone with it.
ExitApp(name) ==
    /\ CanCall /\ name \in Running
    /\ Running' = Running \ {name}
    /\ Handle' = [Handle EXCEPT ![name] = NoId]
    /\ UNCHANGED <<store, boot, Registry, Pool, LastCDSBlockId, call, Stored, lost>>

\* An entry in the store names a block that was released, or released and
\* allocated again with another size.
SavedDangling ==
    \E i \in Used(SavedRegistry) :
        LET rec == SavedRegistry[i]
        IN  /\ rec.offset # 0
            /\ \/ Desc[rec.offset].state # "allocated"
               \/ Desc[rec.offset].size # rec.size

\* The store holds a block that no entry names.
SavedLeak ==
    \E o \in Offset : /\ Desc[o].state = "allocated"
                      /\ \A i \in Used(SavedRegistry) : SavedRegistry[i].offset # o

\* A processor reset: memory is lost, the store is not.  Data on their way to
\* the store may be there in part.
Reset ==
    /\ boot # "validate"
    /\ IF call.pc = "data"
       THEN LET offset == Registry[ToIndex(call.id)].offset
            IN  Data' \in {Data, [Data EXCEPT ![offset] = TORN]}
       ELSE UNCHANGED Data
    /\ lost' = IF boot = "available"
               THEN lost \cup (IF SavedDangling THEN {"dangling"} ELSE {})
                         \cup (IF SavedLeak THEN {"leak"} ELSE {})
               ELSE lost
    /\ boot' = "validate"
    /\ Registry' = NoRegistry /\ Pool' = GenPoolInitialize /\ LastCDSBlockId' = 0
    /\ call' = Idle /\ Running' = {} /\ Handle' = [n \in Name |-> NoId]
    /\ UNCHANGED <<Signature, RegSize, SavedRegistry, Desc, Crc, Stored>>

Next ==
    \/ EarlyInit \/ Reset
    \/ RegisterPut \/ RegisterGet \/ UpdateCDSRegistry \/ BlockWriteData
    \/ \E name \in Name :
         \/ \E size \in Size : Register(name, size)
         \/ \E v \in Value : BlockWrite(name, v)
         \/ DeleteCDS(name) \/ ExitApp(name)

Spec == Init /\ [][Next]_vars

-----------------------------------------------------------------------------
(***************************************************************************)
(* Properties                                                              *)
(***************************************************************************)
Available == boot = "available"

RegRec == [id : 0 .. SerialMax, name : Name \cup {NONE, JUNK},
           offset : Offset, size : Offset]
Image == (Value \X Size) \cup {ZERO, TORN, JUNK}

\* Every variable has its type.
TypeOK ==
    /\ Signature \subseteq {"begin", "end"} /\ RegSize \in BOOLEAN
    /\ SavedRegistry \in [Index -> RegRec] /\ Registry \in [Index -> RegRec]
    /\ Desc \in [Offset -> BD] /\ Crc \in [Offset -> Image] /\ Data \in [Offset -> Image]
    /\ boot \in {"validate", "clear", "clear_pool", "clear_end", "sign_begin", "sign_end",
                 "size", "registry", "available"}
    /\ Pool \in PoolRecord
    /\ LastCDSBlockId \in Serial
    /\ call.pc \in {"idle", "put", "get", "save", "save_deleted", "data"}
    /\ Running \subseteq Name /\ Handle \in [Name -> 0 .. SerialMax]
    /\ Stored \in [Name -> Value \cup {NONE}]
    /\ lost \subseteq {"dangling", "leak"}

\* While the store is available, the descriptors lay out blocks without gaps
\* up to the tail, and each free stack holds the released blocks of its bucket,
\* every one once, whatever resets came between the writes of the pool
\* (CFE_ES_GenPoolRecyclePoolBlock, CFE_ES_GenPoolPutBlock,
\* CFE_ES_GenPoolRebuild).  No offset, size or count leaves its type.
PoolExact ==
    /\ TypeOK
    /\ Available =>
         LET blocks == Scan(Desc, StartOffset)
         IN  /\ Pool.Tail = IF blocks = {} THEN StartOffset
                            ELSE Max(blocks) + Desc[Max(blocks)].bucket
             /\ \A b \in Bucket :
                  LET stack == FreeStack(Pool, Desc, b)
                  IN  /\ {stack[k] : k \in DOMAIN stack} = Released(Desc, blocks, b)
                      /\ Len(stack) = Cardinality(Released(Desc, blocks, b))

\* The store that CFE_ES_CDS_EarlyInit declares available was cleared as a
\* whole: a reset in the middle of its first initialisation never lets
\* leftovers of older memory pass for a registry or a block.
InitialisedBeforeUse ==
    Available => /\ \A i \in Used(Registry) : Registry[i].name \in Name
                 /\ \A o \in Offset : Desc[o].state # "junk" /\ Data[o] # JUNK

\* Between calls the registry in the store is the one in memory, but for the
\* entries CFE_ES_RegisterCDSEx has left without a block: a reset now would
\* forget no registration and bring back no deleted entry.
RegistrySaved ==
    Available /\ call = Idle =>
        \A i \in Used(Registry) \cup Used(SavedRegistry) :
            Registry[i] = SavedRegistry[i] \/ (i \in Used(Registry) /\ Registry[i].offset = 0)

\* Every entry of the registry names an allocated block of its size, and no
\* two name the same one, unless a reset has found an entry in the store whose
\* block was released already (CFE_ES_RegisterCDSEx and CFE_ES_DeleteCDS
\* release the block before they save the registry).  Between calls every
\* allocated block belongs to an entry, unless a reset has come between the
\* allocation and the saving of the registry as well.
BlocksAccounted ==
    Available =>
        /\ "dangling" \notin lost =>
             \A i \in Used(Registry) : Registry[i].offset # 0 =>
                /\ IsBlock(Pool, Desc, Registry[i].offset)
                /\ Desc[Registry[i].offset].size = Registry[i].size
                /\ \A j \in Used(Registry) \ {i} : Registry[j].offset # Registry[i].offset
        /\ call = Idle /\ lost = {} =>
             \A o \in Scan(Desc, StartOffset) : Desc[o].state = "allocated" =>
                \E i \in Used(Registry) : Registry[i].offset = o

\* A handle keeps naming the store of the application that registered it,
\* although ids are used again when the serial number wraps and deletions
\* and resets free entries: CFE_ES_DeleteCDS leaves running owners alone.
HandleNamesOwn ==
    \A n \in Running : Handle[n] # NoId =>
        /\ Registry[ToIndex(Handle[n])].id = Handle[n]
        /\ Registry[ToIndex(Handle[n])].name = n

\* The value an application stored completely can be restored under its name.
Restorable(n) ==
    \E i \in LocateByName(n) :
        /\ BlockRead(Registry[i].id)
        /\ Data[Registry[i].offset][1] = Stored[n]

\* What an application has stored completely survives every reset, and every
\* call of the others, until it stores again, changes the size or is deleted:
\* CFE_ES_RestoreFromCDS returns it.
Preserved ==
    Available => \A n \in Name : Stored[n] # NONE => Restorable(n)

\* The same, unless a reset has found an entry in the store whose block was
\* released already: that window is the only one in which contents are lost.
PreservedUnlessDangling ==
    "dangling" \notin lost => Preserved
=============================================================================
