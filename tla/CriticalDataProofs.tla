------------------------- MODULE CriticalDataProofs -------------------------
(***************************************************************************)
(* What holds of the critical data store for any number of names, entries, *)
(* sizes and resets: the store is cleared before it is used, the registry  *)
(* in it is up to date between calls, and a handle names its owner's       *)
(* entry.  What the pool does with its blocks enters only by the           *)
(* descriptors it writes.                                                  *)
(***************************************************************************)
EXTENDS CriticalData, TLAPS, WellFoundedInduction

-----------------------------------------------------------------------------
(***************************************************************************)
(* The invariant                                                           *)
(***************************************************************************)
\* A registry is a table of records; a record in use is in the place its ID
\* says and has the name of an application; a size is a header and a size that
\* was asked for.
Record(rec) == DOMAIN rec = {"id", "name", "offset", "size"}
Placed(rec, i) == rec.id # NoId => rec.id \in Serial /\ ToIndex(rec.id) = i /\ rec.name \in Name
Sized(rec) == rec.size = 0 \/ \E s \in Size : rec.size = s + HeaderSize
RegistryOK(reg) ==
    /\ DOMAIN reg = Index
    /\ \A i \in Index : Record(reg[i]) /\ Placed(reg[i], i) /\ Sized(reg[i])

RegistryInv == RegistryOK(Registry)
SavedOK == RegistryOK(SavedRegistry)

\* The store holds descriptors and data.
Descriptor(bd) == DOMAIN bd = {"state", "bucket", "size", "next"}
Descriptors(desc) == DOMAIN desc = Offset /\ \A o \in Offset : Descriptor(desc[o])
StoreTypes ==
    /\ Signature \subseteq {"begin", "end"}
    /\ RegSize \in BOOLEAN
    /\ Descriptors(Desc)
    /\ DOMAIN Data = Offset

\* Nothing is left of what the memory held at power on.
NoJunk(desc) == \A o \in Offset : desc[o].state # "junk"
Cleared == NoJunk(Desc) /\ \A o \in Offset : Data[o] # JUNK

\* CFE_ES_ValidateCDS finds the store valid.
Valid == Signature = {"begin", "end"} /\ RegSize

\* CFE_ES_CDS_EarlyInit makes the store valid with its last but one write, when
\* everything else is cleared.
BootInv ==
    /\ boot \in {"validate", "clear", "clear_pool", "clear_end", "sign_begin", "sign_end",
                 "size", "registry", "available"}
    /\ boot = "clear" => ~ Valid
    /\ boot \in {"clear_pool", "clear_end"} => "begin" \notin Signature /\ ~ RegSize
    /\ boot \in {"sign_begin", "sign_end", "size"} => ~ RegSize
    /\ boot = "sign_begin" => Signature = {}
    /\ boot = "sign_end" => Signature = {"begin"}
    /\ boot = "size" => Signature = {"begin", "end"}
    /\ boot \in {"clear_pool", "clear_end", "sign_begin", "sign_end", "size", "registry"} =>
         SavedRegistry = NoRegistry
    /\ boot \in {"clear_end", "sign_begin", "sign_end", "size"} => Cleared
    /\ boot \in {"registry", "available"} => Valid
    /\ Valid => SavedOK /\ Cleared
    /\ boot # "available" => Registry = NoRegistry /\ call = Idle

\* The call in progress: the place it has chosen is free or is its own.
CallInv ==
    /\ DOMAIN call = {"pc", "name", "size", "id", "value"}
    /\ call.pc \in {"put", "get", "save"} =>
         /\ call.name \in Running /\ call.size \in Size /\ call.id \in Serial
         /\ LET rec == Registry[ToIndex(call.id)]
            IN  rec.id # NoId => rec.id = call.id /\ rec.name = call.name
    /\ call.pc = "save" => Registry[ToIndex(call.id)].id = call.id
    /\ call.pc = "data" => call.value \in Value /\ call.size \in Size

\* The registry in the store is that in memory but for entries without a
\* block, until a call has changed the one and not yet written the other.
SavedInv ==
    Available /\ call.pc \notin {"save", "save_deleted"} =>
        \A i \in Used(Registry) \cup Used(SavedRegistry) :
            Registry[i] = SavedRegistry[i] \/ (i \in Used(Registry) /\ Registry[i].offset = 0)

\* A handle names its owner's entry; an application that does not run has none.
HandleOK(n) ==
    Handle[n] # NoId =>
        /\ n \in Running
        /\ Handle[n] \in Serial
        /\ Registry[ToIndex(Handle[n])].id = Handle[n]
        /\ Registry[ToIndex(Handle[n])].name = n
HandleInv ==
    /\ Running \subseteq Name
    /\ DOMAIN Handle = Name
    /\ \A n \in Name : HandleOK(n)

CDSInv ==
    /\ StoreTypes
    /\ RegistryInv
    /\ LastCDSBlockId \in Serial
    /\ BootInv
    /\ CallInv
    /\ SavedInv
    /\ HandleInv

-----------------------------------------------------------------------------
(***************************************************************************)
(* Places and serial numbers                                               *)
(***************************************************************************)
\* CFE_ES_CDSHandle_ToIndex finds a place in the table.
LEMMA IndexInTable == \A id \in Serial : ToIndex(id) \in Index /\ id # NoId
BY StoreAssumption DEF ToIndex, Index, Serial, NoId

\* A set of positive numbers has a least one.
LEMMA LeastExists ==
  ASSUME NEW S \in SUBSET Nat, S # {}
  PROVE  Min(S) \in S
<1>1. \E x \in S : \A y \in S : ~ (<<y, x>> \in OpToRel(<, Nat))
  BY ZenonT(60), NatLessThanWellFounded, WFMin
<1>2. PICK x \in S : \A y \in S : ~ (<<y, x>> \in OpToRel(<, Nat))
  BY ZenonT(60), <1>1
<1>3. \A y \in S : x <= y
  <2> SUFFICES ASSUME NEW y \in S, ~ (x <= y)
               PROVE  FALSE
    OBVIOUS
  <2>1. x \in Nat /\ y \in Nat /\ y < x
    OBVIOUS
  <2>2. <<y, x>> \in OpToRel(<, Nat)
    BY Zenon, <2>1 DEF OpToRel
  <2> QED BY ZenonT(60), <1>2, <2>2
<1> QED BY Zenon, <1>3 DEF Min

\* CFE_ResourceId_FindNext: the ID found is one, and its place is free.
LEMMA FoundIsFree ==
  ASSUME NEW s \in Serial, FindNext(s) # NoId
  PROVE  FindNext(s) \in Serial /\ ToIndex(FindNext(s)) \notin Used(Registry)
<1> DEFINE free == {n \in 1 .. MaxNumEntries : ToIndex(SerialAfter(s, n)) \notin Used(Registry)}
<1>1. free # {} /\ FindNext(s) = SerialAfter(s, Min(free))
  BY Zenon DEF FindNext
<1>2. free \in SUBSET Nat
  BY StoreAssumption
<1>3. Min(free) \in free
  <2> HIDE DEF free
  <2> QED BY Zenon, <1>1, <1>2, LeastExists
<1>4. PICK n \in 1 .. MaxNumEntries : /\ FindNext(s) = SerialAfter(s, n)
                                      /\ ToIndex(SerialAfter(s, n)) \notin Used(Registry)
  BY Zenon, <1>1, <1>3
<1>5. SerialAfter(s, n) \in Serial
  <2>1. SerialMax % MaxNumEntries \in 0 .. MaxNumEntries - 1
    BY StoreAssumption
  <2>2. /\ s \in Nat /\ s < SerialMax /\ n \in Nat /\ n <= MaxNumEntries /\ n >= 1
        /\ MaxNumEntries \in Nat /\ SerialMax \in Nat /\ SerialMax >= 2 * MaxNumEntries - 1
    BY StoreAssumption DEF Serial
  <2> QED BY <2>1, <2>2 DEF SerialAfter, Serial
<1> QED BY Zenon, <1>4, <1>5

-----------------------------------------------------------------------------
(***************************************************************************)
(* What the pool writes                                                    *)
(***************************************************************************)
\* Writing one descriptor keeps the others what they are.
LEMMA OneWritten ==
  ASSUME NEW desc, Descriptors(desc), NEW off, NEW bd,
         off \in Offset => Descriptor(bd) /\ bd.state # "junk"
  PROVE  /\ Descriptors([desc EXCEPT ![off] = bd])
         /\ NoJunk(desc) => NoJunk([desc EXCEPT ![off] = bd])
<1> DEFINE new == [desc EXCEPT ![off] = bd]
<1>1. DOMAIN new = Offset /\ \A o \in Offset : new[o] = IF o = off THEN bd ELSE desc[o]
  BY Zenon DEF Descriptors
<1> HIDE DEF new
<1>2. Descriptors(new) /\ (NoJunk(desc) => NoJunk(new))
  BY Zenon, <1>1 DEF Descriptors, NoJunk
<1> QED BY Zenon, <1>2 DEF new

\* CFE_ES_GenPoolGetBlock leaves descriptors behind, and no junk.
LEMMA GetWrites ==
  ASSUME NEW pool, NEW desc, Descriptors(desc), NEW size
  PROVE  /\ Descriptors(GetBlock(pool, desc, size).desc)
         /\ NoJunk(desc) => NoJunk(GetBlock(pool, desc, size).desc)
<1> DEFINE b == FindBucket(size)
<1> DEFINE Kept(d) == Descriptors(d) /\ (NoJunk(desc) => NoJunk(d))
<1> SUFFICES Kept(GetBlock(pool, desc, size).desc)
  OBVIOUS
<1>1. ASSUME NEW o, NEW p, NEW d, Kept(d)
      PROVE  Kept(Got(o, p, d).desc)
  <2>1. Got(o, p, d).desc = d
    BY DEF Got
  <2> QED BY Zenon, <1>1, <2>1
<1>2. Kept(desc)
  OBVIOUS
<1>3. Kept(RecyclePoolBlock(pool, desc, b, size).desc)
  <2> DEFINE off == pool.First[b]
  <2> DEFINE bd == [desc[off] EXCEPT !.state = "allocated", !.size = size, !.next = 0]
  <2>1. off \in Offset => Descriptor(bd) /\ bd.state # "junk"
    <3> HIDE DEF off
    <3>1. off \in Offset => Descriptor(desc[off])
      BY Zenon DEF Descriptors
    <3>2. off \in Offset => Descriptor(bd) /\ bd.state = "allocated"
      BY <3>1 DEF Descriptor
    <3> QED BY <3>2
  <2>2. Kept([desc EXCEPT ![off] = bd])
    <3> HIDE DEF bd, off
    <3> QED BY Zenon, <2>1, OneWritten
  <2>3. RecyclePoolBlock(pool, desc, b, size) =
          Got(off, [pool EXCEPT !.First[b] = desc[off].next, !.Free[b] = @ - 1],
              [desc EXCEPT ![off] = bd])
    BY DEF RecyclePoolBlock
  <2> HIDE DEF bd, off, Kept
  <2> QED BY Zenon, <1>1, <2>2, <2>3
<1>4. Kept(CreatePoolBlock(pool, desc, b, size).desc)
  <2> DEFINE off == pool.Tail + DescSize
  <2> DEFINE bd == [state |-> "allocated", bucket |-> b, size |-> size, next |-> 0]
  <2>1. Descriptor(bd) /\ bd.state # "junk"
    BY DEF Descriptor
  <2>2. Kept([desc EXCEPT ![off] = bd])
    <3> HIDE DEF bd, off
    <3> QED BY Zenon, <2>1, OneWritten
  <2>3. \/ CreatePoolBlock(pool, desc, b, size) = Got(0, pool, desc)
        \/ CreatePoolBlock(pool, desc, b, size) =
             Got(off, [pool EXCEPT !.Tail = off + b], [desc EXCEPT ![off] = bd])
    BY Zenon DEF CreatePoolBlock
  <2> HIDE DEF bd, off, Kept
  <2> QED BY Zenon, <1>1, <1>2, <2>2, <2>3
<1>5. GetBlock(pool, desc, size) \in {Got(0, pool, desc), RecyclePoolBlock(pool, desc, b, size),
                                      CreatePoolBlock(pool, desc, b, size)}
  BY Zenon DEF GetBlock
<1> HIDE DEF Kept, b
<1> QED BY Zenon, <1>1, <1>2, <1>3, <1>4, <1>5

\* CFE_ES_GenPoolPutBlock leaves descriptors behind, and no junk.
LEMMA PutWrites ==
  ASSUME NEW pool, NEW desc, Descriptors(desc), NEW off
  PROVE  /\ Descriptors(PutBlock(pool, desc, off).desc)
         /\ NoJunk(desc) => NoJunk(PutBlock(pool, desc, off).desc)
<1> DEFINE old == desc[off]
<1> DEFINE bd == [old EXCEPT !.state = "deallocated", !.next = pool.First[old.bucket]]
<1>1. off \in Offset => Descriptor(bd) /\ bd.state # "junk"
  <2>1. off \in Offset => Descriptor(old)
    BY Zenon DEF Descriptors
  <2> HIDE DEF old
  <2>2. off \in Offset => Descriptor(bd) /\ bd.state = "deallocated"
    BY <2>1 DEF Descriptor
  <2> QED BY <2>2
<1>2. PutBlock(pool, desc, off).desc = [desc EXCEPT ![off] = bd]
  BY DEF PutBlock, Got
<1> HIDE DEF bd
<1>3. Descriptors([desc EXCEPT ![off] = bd]) /\ (NoJunk(desc) => NoJunk([desc EXCEPT ![off] = bd]))
  BY Zenon, <1>1, OneWritten
<1> QED BY Zenon, <1>2, <1>3

\* CFE_ES_GenPoolRebuild writes links only.
LEMMA RebuildWrites ==
  ASSUME NEW desc, Descriptors(desc)
  PROVE  /\ Descriptors(GenPoolRebuild(desc).desc)
         /\ NoJunk(desc) => NoJunk(GenPoolRebuild(desc).desc)
<1> DEFINE blocks == Scan(desc, StartOffset)
<1> DEFINE Top(S) == IF S = {} THEN 0 ELSE Max(S)
<1> DEFINE link(o) == Top({p \in Released(desc, blocks, desc[o].bucket) : p < o})
<1> DEFINE linked == [o \in DOMAIN desc |->
                        IF o \in blocks /\ desc[o].state = "deallocated"
                        THEN [desc[o] EXCEPT !.next = link(o)] ELSE desc[o]]
<1> DEFINE new == GenPoolRebuild(desc).desc
<1>1. new = linked
  BY DEF GenPoolRebuild
<1>2. DOMAIN desc = Offset
  BY Zenon DEF Descriptors
<1>3. DOMAIN new = Offset
  BY Zenon, <1>1, <1>2
<1>4. ASSUME NEW o \in Offset
      PROVE  Descriptor(new[o]) /\ new[o].state = desc[o].state
  <2>1. new[o] = desc[o] \/ new[o] = [desc[o] EXCEPT !.next = link(o)]
    <3> HIDE DEF link
    <3> QED BY Zenon, <1>1, <1>2
  <2>2. Descriptor(desc[o])
    BY Zenon DEF Descriptors
  <2> HIDE DEF new, link
  <2> QED BY <2>1, <2>2 DEF Descriptor
<1> HIDE DEF new
<1>5. Descriptors(new) /\ (NoJunk(desc) => NoJunk(new))
  BY Zenon, <1>3, <1>4 DEF Descriptors, NoJunk
<1> QED BY Zenon, <1>5 DEF new

-----------------------------------------------------------------------------
(***************************************************************************)
(* The start                                                               *)
(***************************************************************************)
\* The empty registry is one, and no handle names an entry of it.
LEMMA EmptyRegistry ==
  /\ RegistryOK(NoRegistry)
  /\ Used(NoRegistry) = {}
  /\ \A i \in Index : NoRegistry[i].id = NoId
<1>1. \A i \in Index : NoRegistry[i] = NoRec
  BY Zenon DEF NoRegistry
<1>2. DOMAIN NoRegistry = Index
  BY Zenon DEF NoRegistry
<1>3. Record(NoRec) /\ NoRec.id = NoId /\ NoRec.size = 0
  BY DEF NoRec, Record
<1>4. \A i \in Index : NoRegistry[i].id = NoId
  BY Zenon, <1>1, <1>3
<1> QED BY Zenon, <1>1, <1>2, <1>3, <1>4 DEF RegistryOK, Placed, Sized, Used

\* No call is in progress.
LEMMA IdleCall ==
  /\ Idle.pc = "idle"
  /\ DOMAIN Idle = {"pc", "name", "size", "id", "value"}
BY DEF Idle

\* Before the store is available no application has a handle.
LEMMA NoHandles ==
  ASSUME CDSInv, boot # "available", NEW n \in Name
  PROVE  Handle[n] = NoId
<1>1. Registry = NoRegistry
  BY Zenon DEF CDSInv, BootInv
<1>2. HandleOK(n)
  BY Zenon DEF CDSInv, HandleInv
<1> QED BY Zenon, <1>1, <1>2, IndexInTable, EmptyRegistry DEF HandleOK

\* Power on.
LEMMA InvInit == Init => CDSInv
<1> SUFFICES ASSUME Init
             PROVE  CDSInv
  OBVIOUS
<1>1. StoreTypes
  <2>1. Descriptor([NoBD EXCEPT !.state = "junk"])
    BY DEF NoBD, Descriptor
  <2>2. Descriptors(Desc)
    BY Zenon, <2>1 DEF Init, Descriptors
  <2>3. Signature = {} /\ RegSize \in BOOLEAN /\ DOMAIN Data = Offset
    BY Zenon DEF Init
  <2> QED BY Zenon, <2>2, <2>3 DEF StoreTypes
<1>2. RegistryInv /\ Registry = NoRegistry /\ call = Idle
  BY Zenon, EmptyRegistry DEF Init, RegistryInv
<1>3. LastCDSBlockId \in Serial
  <2>1. LastCDSBlockId = 0
    BY Zenon DEF Init
  <2> QED BY <2>1, StoreAssumption DEF Serial
<1>4. BootInv
  <2>1. ~ Valid
    <3>1. Signature = {}
      BY ZenonT(60) DEF Init
    <3> QED BY Zenon, <3>1 DEF Valid
  <2>2. boot = "validate"
    BY Zenon DEF Init
  <2> QED BY <1>2, <2>1, <2>2 DEF BootInv
<1>5. CallInv
  <2> QED BY <1>2, IdleCall DEF CallInv
<1>6. SavedInv
  <2>1. boot # "available"
    BY Zenon DEF Init
  <2> QED BY Zenon, <2>1 DEF SavedInv, Available
<1>7. HandleInv
  <2>1. Running = {} /\ DOMAIN Handle = Name /\ \A n \in Name : Handle[n] = NoId
    BY Zenon DEF Init
  <2> QED BY Zenon, <2>1 DEF HandleInv, HandleOK
<1> QED BY Zenon, <1>1, <1>2, <1>3, <1>4, <1>5, <1>6, <1>7 DEF CDSInv

\* CFE_ES_ValidateCDS and CFE_ES_RebuildCDS.
LEMMA ValidateKeeps ==
  ASSUME CDSInv, Validate
  PROVE  CDSInv'
<1>1. /\ boot = "validate"
      /\ UNCHANGED <<Signature, RegSize, SavedRegistry, Data, LastCDSBlockId, call, Running,
                     Handle>>
      /\ \/ /\ Valid /\ boot' = "available" /\ Registry' = SavedRegistry
            /\ Desc' = GenPoolRebuild(Desc).desc
         \/ ~ Valid /\ boot' = "clear" /\ UNCHANGED <<Registry, Desc>>
  BY Zenon DEF Validate, ValidateOr, Valid
<1>2. Registry = NoRegistry /\ call = Idle /\ call' = Idle
  BY <1>1 DEF CDSInv, BootInv
<1>3. Descriptors(Desc') /\ (NoJunk(Desc) => NoJunk(Desc'))
  <2>1. Descriptors(Desc)
    BY Zenon DEF CDSInv, StoreTypes
  <2> QED BY Zenon, <1>1, <2>1, RebuildWrites
<1>4. StoreTypes' /\ (Cleared => Cleared')
  <2>1. DOMAIN Data' = Offset /\ Signature' \subseteq {"begin", "end"} /\ RegSize' \in BOOLEAN
    BY Zenon, <1>1 DEF CDSInv, StoreTypes
  <2> QED BY Zenon, <1>1, <1>3, <2>1 DEF StoreTypes, Cleared
<1>5. (Valid' <=> Valid) /\ (SavedOK' <=> SavedOK)
  BY Zenon, <1>1 DEF Valid, SavedOK
<1>6. RegistryInv'
  <2>1. CASE Registry' = SavedRegistry /\ Valid
    <3>1. SavedOK
      BY Zenon, <2>1 DEF CDSInv, BootInv
    <3> QED BY Zenon, <2>1, <3>1 DEF SavedOK, RegistryInv
  <2>2. CASE Registry' = Registry
    BY Zenon, <2>2 DEF CDSInv, RegistryInv
  <2> QED BY Zenon, <1>1, <2>1, <2>2
<1>7. LastCDSBlockId' \in Serial
  BY Zenon, <1>1 DEF CDSInv
<1>8. BootInv'
  <2>1. Valid => SavedOK' /\ Cleared'
    BY Zenon, <1>4, <1>5 DEF CDSInv, BootInv
  <2>2. CASE Valid /\ boot' = "available"
    BY <1>5, <2>1, <2>2 DEF BootInv
  <2>3. CASE ~ Valid /\ boot' = "clear" /\ UNCHANGED Registry
    BY <1>2, <1>5, <2>3 DEF BootInv
  <2> QED BY Zenon, <1>1, <2>2, <2>3
<1>9. CallInv'
  BY <1>2, IdleCall DEF CallInv
<1>10. SavedInv'
  <2>1. CASE Registry' = SavedRegistry
    <3>1. Registry' = SavedRegistry'
      BY Zenon, <1>1, <2>1
    <3> QED BY Zenon, <3>1 DEF SavedInv
  <2>2. CASE boot' = "clear"
    <3>1. boot' # "available"
      BY <2>2
    <3> QED BY Zenon, <3>1 DEF SavedInv, Available
  <2> QED BY Zenon, <1>1, <2>1, <2>2
<1>11. HandleInv'
  <2>1. boot # "available"
    BY <1>1
  <2>2. \A n \in Name : Handle'[n] = NoId
    BY Zenon, <1>1, <2>1, NoHandles
  <2>3. Running' \subseteq Name /\ DOMAIN Handle' = Name
    BY Zenon, <1>1 DEF CDSInv, HandleInv
  <2> QED BY Zenon, <2>2, <2>3 DEF HandleInv, HandleOK
<1> QED BY Zenon, <1>4, <1>6, <1>7, <1>8, <1>9, <1>10, <1>11 DEF CDSInv

\* CFE_ES_ClearCDS, CFE_ES_InitCDSSignatures and CFE_ES_InitCDSRegistry: each
\* write of an initialisation.
LEMMA InitialisingKeeps ==
  ASSUME CDSInv,
         ClearHead \/ ClearPool \/ ClearEnd \/ InitSignatures \/ InitRegistry,
         UNCHANGED <<Registry, LastCDSBlockId, call, Running, Handle>>
  PROVE  CDSInv'
<1>1. boot # "available" /\ boot # "validate"
  BY DEF ClearHead, ClearPool, ClearEnd, InitSignatures, InitRegistry
<1>2. Registry = NoRegistry /\ Registry' = NoRegistry /\ call' = Idle
  BY Zenon, <1>1 DEF CDSInv, BootInv
<1>3. RegistryInv' /\ LastCDSBlockId' \in Serial
  BY Zenon DEF CDSInv, RegistryInv
<1>4. CallInv'
  BY <1>2, IdleCall DEF CallInv
<1>5. HandleInv'
  <2>1. \A n \in Name : Handle'[n] = NoId
    BY Zenon, <1>1, NoHandles
  <2>2. Running' \subseteq Name /\ DOMAIN Handle' = Name
    BY Zenon DEF CDSInv, HandleInv
  <2> QED BY Zenon, <2>1, <2>2 DEF HandleInv, HandleOK
<1>6. SavedInv'
  <2>1. boot' # "available" \/ SavedRegistry' = Registry
    BY DEF ClearHead, ClearPool, ClearEnd, InitSignatures, InitRegistry
  <2>2. CASE SavedRegistry' = Registry
    <3>1. SavedRegistry' = Registry'
      BY Zenon, <2>2
    <3> QED BY Zenon, <3>1 DEF SavedInv
  <2> QED BY Zenon, <2>1, <2>2 DEF SavedInv, Available
<1>7. Signature \in SUBSET {"begin", "end"} /\ RegSize \in BOOLEAN
  BY Zenon DEF CDSInv, StoreTypes
<1>8. ASSUME UNCHANGED <<Desc, Data>>
      PROVE  /\ Descriptors(Desc') /\ DOMAIN Data' = Offset
             /\ Cleared' <=> Cleared
  BY Zenon, <1>8 DEF CDSInv, StoreTypes, Cleared
<1>9. SavedRegistry' = NoRegistry => SavedOK'
  BY Zenon, EmptyRegistry DEF SavedOK
<1>10. BootInv
  BY Zenon DEF CDSInv
<1>11. StoreTypes' /\ BootInv'
  <2>1. CASE ClearHead
    <3>1. /\ boot = "clear" /\ boot' = "clear_pool" /\ SavedRegistry' = NoRegistry
          /\ Signature' = Signature \ {"begin"} /\ RegSize' = FALSE
          /\ UNCHANGED <<Desc, Data>>
      BY Zenon, <2>1 DEF ClearHead
    <3>2. Signature' \subseteq {"begin", "end"} /\ "begin" \notin Signature' /\ ~ RegSize'
      BY Zenon, <1>7, <3>1
    <3>3. ~ Valid'
      BY Zenon, <3>2 DEF Valid
    <3>4. StoreTypes'
      BY Zenon, <1>8, <3>1, <3>2 DEF StoreTypes
    <3> QED BY <1>2, <3>1, <3>2, <3>3, <3>4 DEF BootInv
  <2>2. CASE ClearPool
    <3>1. /\ boot = "clear_pool" /\ boot' = "clear_end"
          /\ Desc' = [o \in Offset |-> NoBD] /\ Data' = [o \in Offset |-> ZERO]
          /\ UNCHANGED <<Signature, RegSize, SavedRegistry>>
      BY Zenon, <2>2 DEF ClearPool
    <3>2. "begin" \notin Signature' /\ ~ RegSize' /\ SavedRegistry' = NoRegistry
      BY <1>10, <3>1 DEF BootInv
    <3>3. ~ Valid'
      BY Zenon, <3>2 DEF Valid
    <3>4. Descriptor(NoBD) /\ NoBD.state # "junk"
      BY DEF NoBD, Descriptor
    <3>5. JUNK # ZERO
      BY Zenon, StoreAssumption
    <3>6. Descriptors(Desc') /\ NoJunk(Desc') /\ DOMAIN Data' = Offset
      BY Zenon, <3>1, <3>4 DEF Descriptors, NoJunk
    <3>7. \A o \in Offset : Data'[o] # JUNK
      BY Zenon, <3>1, <3>5
    <3>8. StoreTypes' /\ Cleared'
      BY Zenon, <1>7, <3>1, <3>6, <3>7 DEF StoreTypes, Cleared
    <3> QED BY <1>2, <3>1, <3>2, <3>3, <3>8 DEF BootInv
  <2>3. CASE ClearEnd
    <3>1. /\ boot = "clear_end" /\ boot' = "sign_begin"
          /\ Signature' = Signature \ {"end"}
          /\ UNCHANGED <<RegSize, SavedRegistry, Desc, Data>>
      BY Zenon, <2>3 DEF ClearEnd
    <3>2. "begin" \notin Signature /\ ~ RegSize' /\ SavedRegistry' = NoRegistry /\ Cleared
      BY <1>10, <3>1 DEF BootInv
    <3>3. Signature' = {}
      BY Zenon, <1>7, <3>1, <3>2
    <3>4. ~ Valid'
      BY Zenon, <3>2 DEF Valid
    <3>5. StoreTypes' /\ Cleared'
      BY Zenon, <1>7, <1>8, <3>1, <3>2, <3>3 DEF StoreTypes
    <3> QED BY <1>2, <3>1, <3>2, <3>3, <3>4, <3>5 DEF BootInv
  <2>4. CASE InitSignatures
    <3>1. UNCHANGED <<RegSize, SavedRegistry, Desc, Data>>
      BY Zenon, <2>4 DEF InitSignatures
    <3>2. ~ RegSize' /\ SavedRegistry' = NoRegistry /\ Cleared
      BY <1>10, <2>4, <3>1 DEF BootInv, InitSignatures
    <3>3. \/ boot' = "sign_end" /\ Signature' = {"begin"}
          \/ boot' = "size" /\ Signature' = {"begin", "end"}
      <4>1. CASE boot = "sign_begin"
        <5>1. Signature = {} /\ boot' = "sign_end" /\ Signature' = Signature \cup {"begin"}
          BY <1>10, <2>4, <4>1 DEF BootInv, InitSignatures
        <5> QED BY <5>1
      <4>2. CASE boot = "sign_end"
        <5>1. Signature = {"begin"} /\ boot' = "size" /\ Signature' = Signature \cup {"end"}
          BY <1>10, <2>4, <4>2 DEF BootInv, InitSignatures
        <5> QED BY <5>1
      <4> QED BY Zenon, <2>4, <4>1, <4>2 DEF InitSignatures
    <3>4. ~ Valid'
      BY Zenon, <3>2 DEF Valid
    <3>5. StoreTypes' /\ Cleared'
      <4>1. Signature' \subseteq {"begin", "end"}
        BY Zenon, <3>3
      <4> QED BY Zenon, <1>7, <1>8, <3>1, <3>2, <4>1 DEF StoreTypes
    <3> QED BY <1>2, <3>2, <3>3, <3>4, <3>5 DEF BootInv
  <2>5. CASE InitRegistry
    <3>1. UNCHANGED <<Signature, Desc, Data>>
      BY Zenon, <2>5 DEF InitRegistry
    <3>2. SavedRegistry' = NoRegistry
      BY <1>2, <1>10, <2>5 DEF BootInv, InitRegistry
    <3>3. Signature = {"begin", "end"} /\ Cleared
      BY <1>10, <2>5 DEF BootInv, InitRegistry, Valid
    <3>4. RegSize'
      BY <1>10, <2>5 DEF BootInv, InitRegistry, Valid
    <3>5. boot' \in {"registry", "available"}
      BY Zenon, <2>5 DEF InitRegistry
    <3>6. Valid' /\ SavedOK'
      BY Zenon, <1>9, <3>1, <3>2, <3>3, <3>4 DEF Valid
    <3>7. RegSize' \in BOOLEAN
      BY Zenon, <1>7, <2>5 DEF InitRegistry
    <3>8. StoreTypes' /\ Cleared'
      BY Zenon, <1>7, <1>8, <3>1, <3>3, <3>7 DEF StoreTypes
    <3> QED BY <1>2, <3>2, <3>5, <3>6, <3>8 DEF BootInv
  <2> QED BY Zenon, <2>1, <2>2, <2>3, <2>4, <2>5
<1> QED BY Zenon, <1>3, <1>4, <1>5, <1>6, <1>11 DEF CDSInv

\* A processor reset: the store is as the last write has left it.
LEMMA ResetKeeps ==
  ASSUME CDSInv, Reset
  PROVE  CDSInv'
<1>1. /\ boot' = "validate" /\ Registry' = NoRegistry /\ LastCDSBlockId' = 0 /\ call' = Idle
      /\ Running' = {} /\ Handle' = [n \in Name |-> NoId]
      /\ UNCHANGED <<Signature, RegSize, SavedRegistry, Desc>>
  BY Zenon DEF Reset
<1>2. \/ Data' = Data
      \/ \E off : Data' = [Data EXCEPT ![off] = TORN]
  BY Zenon DEF Reset
<1>3. StoreTypes' /\ (Cleared => Cleared')
  <2>1. DOMAIN Data = Offset
    BY Zenon DEF CDSInv, StoreTypes
  <2>2. TORN # JUNK
    BY Zenon, StoreAssumption
  <2>3. DOMAIN Data' = Offset /\ \A o \in Offset : Data'[o] \in {Data[o], TORN}
    BY Zenon, <1>2, <2>1
  <2>4. Cleared => Cleared'
    BY Zenon, <1>1, <2>2, <2>3 DEF Cleared, NoJunk
  <2> QED BY Zenon, <1>1, <2>3, <2>4 DEF CDSInv, StoreTypes
<1>4. RegistryInv'
  BY Zenon, <1>1, EmptyRegistry DEF RegistryInv
<1>5. LastCDSBlockId' \in Serial
  BY <1>1, StoreAssumption DEF Serial
<1>6. BootInv'
  <2>1. Valid' => SavedOK' /\ Cleared'
    <3>1. (Valid' <=> Valid) /\ (SavedOK' <=> SavedOK)
      BY Zenon, <1>1 DEF Valid, SavedOK
    <3> QED BY Zenon, <1>3, <3>1 DEF CDSInv, BootInv
  <2> QED BY <1>1, <2>1 DEF BootInv
<1>7. CallInv'
  BY <1>1, IdleCall DEF CallInv
<1>8. SavedInv'
  BY <1>1 DEF SavedInv, Available
<1>9. HandleInv'
  <2>1. DOMAIN Handle' = Name /\ \A n \in Name : Handle'[n] = NoId
    BY Zenon, <1>1
  <2> QED BY Zenon, <1>1, <2>1 DEF HandleInv, HandleOK
<1> QED BY Zenon, <1>3, <1>4, <1>5, <1>6, <1>7, <1>8, <1>9 DEF CDSInv

-----------------------------------------------------------------------------
(***************************************************************************)
(* The calls                                                               *)
(***************************************************************************)
\* A call is in progress only when the store is available.
LEMMA CallsWhenAvailable ==
  ASSUME CDSInv, CanCall \/ call.pc \in {"put", "get", "save", "save_deleted", "data"}
  PROVE  boot = "available" /\ Valid /\ SavedOK /\ Cleared
<1>1. boot = "available"
  BY IdleCall DEF CDSInv, BootInv, CanCall
<1> QED BY <1>1 DEF CDSInv, BootInv

\* A call leaves the store valid.
LEMMA StoreStaysValid ==
  ASSUME CDSInv, boot = "available", UNCHANGED <<boot, Signature, RegSize>>, SavedOK', Cleared'
  PROVE  BootInv'
<1>1. Valid'
  BY Zenon DEF CDSInv, BootInv, Valid
<1> QED BY <1>1 DEF BootInv

\* The writes of a call to the pool keep the descriptors.
LEMMA StoreWritten ==
  ASSUME CDSInv, Cleared, UNCHANGED <<Signature, RegSize, Data>>,
         Descriptors(Desc'), NoJunk(Desc) => NoJunk(Desc')
  PROVE  StoreTypes' /\ Cleared'
BY Zenon DEF CDSInv, StoreTypes, Cleared

\* One record of the registry is written.
LEMMA RecordWritten ==
  ASSUME RegistryInv, NEW i \in Index, DOMAIN Registry' = Index,
         \A j \in Index \ {i} : Registry'[j] = Registry[j],
         Record(Registry'[i]), Placed(Registry'[i], i), Sized(Registry'[i])
  PROVE  RegistryInv'
<1>1. ASSUME NEW j \in Index
      PROVE  Record(Registry'[j]) /\ Placed(Registry'[j], j) /\ Sized(Registry'[j])
  <2>1. CASE j = i
    BY Zenon, <2>1
  <2>2. CASE j # i
    <3>1. Registry'[j] = Registry[j]
      BY Zenon, <2>2
    <3> QED BY Zenon, <3>1 DEF RegistryInv, RegistryOK
  <2> QED BY Zenon, <2>1, <2>2
<1>2. RegistryOK(Registry')
  BY Zenon, <1>1 DEF RegistryOK
<1> QED BY Zenon, <1>2 DEF RegistryInv

\* A handle goes on naming its owner's entry while the ID and the name in that
\* record stay.
LEMMA HandleStays ==
  ASSUME NEW n, HandleOK(n), Running \subseteq Running', Handle'[n] = Handle[n],
         Handle[n] # NoId => LET i == ToIndex(Handle[n])
                             IN  /\ Registry'[i].id = Registry[i].id
                                 /\ Registry'[i].name = Registry[i].name
  PROVE  HandleOK(n)'
BY Zenon DEF HandleOK

\* The record of a handle.
LEMMA HandleRecord ==
  ASSUME CDSInv, NEW n \in Name, Handle[n] # NoId
  PROVE  /\ n \in Running /\ Handle[n] \in Serial
         /\ ToIndex(Handle[n]) \in Used(Registry)
         /\ Registry[ToIndex(Handle[n])].name = n
BY Zenon, IndexInTable DEF CDSInv, HandleInv, HandleOK, Used

\* CFE_ES_RegisterCDSEx, as far as it finds the entry.
LEMMA RegisterKeeps ==
  ASSUME CDSInv, NEW name \in Name, NEW size \in Size, Register(name, size)
  PROVE  CDSInv'
<1>1. /\ CanCall /\ Running' = Running \cup {name}
      /\ UNCHANGED <<Signature, RegSize, SavedRegistry, Desc, Data, boot>>
  BY Zenon DEF Register, store
<1>2. boot = "available" /\ SavedOK /\ Cleared /\ call = Idle
  BY Zenon, <1>1, CallsWhenAvailable DEF CanCall
<1>3. StoreTypes' /\ Cleared' /\ SavedOK'
  <2>1. StoreTypes'
    BY Zenon, <1>1 DEF CDSInv, StoreTypes
  <2> QED BY Zenon, <1>1, <1>2, <2>1 DEF Cleared, SavedOK
<1>4. BootInv'
  BY Zenon, <1>1, <1>2, <1>3, StoreStaysValid
<1>5. RegistryInv /\ HandleInv /\ SavedInv /\ LastCDSBlockId \in Serial
  BY Zenon DEF CDSInv
<1>6. Running' \subseteq Name /\ Running \subseteq Running' /\ name \in Running'
  BY Zenon, <1>1, <1>5 DEF HandleInv
<1>7. call.pc = "idle"
  BY Zenon, <1>2, IdleCall
<1>8. ASSUME NEW i \in LocateByName(name), Registry' = Registry, LastCDSBlockId' = LastCDSBlockId,
             Registry[i].offset # 0, Handle' = [Handle EXCEPT ![name] = Registry[i].id],
             call' = call
      PROVE  CDSInv'
  <2>1. i \in Index /\ Registry[i].id # NoId /\ Registry[i].name = name
    BY Zenon DEF LocateByName, Used
  <2>2. Registry[i].id \in Serial /\ ToIndex(Registry[i].id) = i
    BY Zenon, <1>5, <2>1 DEF RegistryInv, RegistryOK, Placed
  <2>3. DOMAIN Handle' = Name /\ Handle'[name] = Registry[i].id
        /\ \A n \in Name \ {name} : Handle'[n] = Handle[n]
    BY Zenon, <1>5, <1>8 DEF HandleInv
  <2>4. HandleOK(name)'
    BY Zenon, <1>6, <1>8, <2>1, <2>2, <2>3 DEF HandleOK
  <2>5. \A n \in Name \ {name} : HandleOK(n)'
    <3> SUFFICES ASSUME NEW n \in Name \ {name}
                 PROVE  HandleOK(n)'
      OBVIOUS
    <3>1. HandleOK(n) /\ Handle'[n] = Handle[n]
      BY Zenon, <1>5, <2>3 DEF HandleInv
    <3> QED BY Zenon, <1>6, <1>8, <3>1, HandleStays
  <2>6. HandleInv'
    BY Zenon, <1>6, <2>3, <2>4, <2>5 DEF HandleInv
  <2>7. RegistryInv' /\ LastCDSBlockId' \in Serial
    BY Zenon, <1>5, <1>8 DEF RegistryInv
  <2>8. CallInv'
    <3>1. call'.pc = "idle" /\ DOMAIN call' = {"pc", "name", "size", "id", "value"}
      BY Zenon, <1>2, <1>8, IdleCall
    <3> QED BY <3>1 DEF CallInv
  <2>9. SavedInv'
    BY Zenon, <1>1, <1>5, <1>8 DEF SavedInv, Available
  <2> QED BY Zenon, <1>3, <1>4, <2>6, <2>7, <2>8, <2>9 DEF CDSInv
<1>9. ASSUME NEW i \in LocateByName(name), Registry' = Registry, LastCDSBlockId' = LastCDSBlockId,
             Handle' = Handle, NEW pc \in {"get", "put"},
             call' = [pc |-> pc, name |-> name, size |-> size, id |-> Registry[i].id,
                      value |-> NONE]
      PROVE  CDSInv'
  <2>1. i \in Index /\ Registry[i].id # NoId /\ Registry[i].name = name
    BY Zenon DEF LocateByName, Used
  <2>2. Registry[i].id \in Serial /\ ToIndex(Registry[i].id) = i
    BY Zenon, <1>5, <2>1 DEF RegistryInv, RegistryOK, Placed
  <2>3. /\ DOMAIN call' = {"pc", "name", "size", "id", "value"} /\ call'.pc = pc
        /\ call'.name = name /\ call'.size = size /\ call'.id = Registry[i].id
    BY <1>9
  <2>4. CallInv'
    <3>1. call'.pc # "save" /\ call'.pc # "data"
      BY <2>3
    <3> QED BY Zenon, <1>6, <1>9, <2>1, <2>2, <2>3, <3>1 DEF CallInv
  <2>5. HandleInv'
    <3>1. \A n \in Name : HandleOK(n)'
      BY Zenon, <1>5, <1>6, <1>9, HandleStays DEF HandleInv
    <3> QED BY Zenon, <1>5, <1>6, <1>9, <3>1 DEF HandleInv
  <2>6. RegistryInv' /\ LastCDSBlockId' \in Serial
    BY Zenon, <1>5, <1>9 DEF RegistryInv
  <2>7. SavedInv'
    <3>1. Available /\ call.pc \notin {"save", "save_deleted"}
      BY <1>2, <1>7 DEF Available
    <3> QED BY Zenon, <1>1, <1>5, <1>9, <3>1 DEF SavedInv, Available
  <2> QED BY Zenon, <1>3, <1>4, <2>4, <2>5, <2>6, <2>7 DEF CDSInv
<1>10. ASSUME Registry' = Registry, LastCDSBlockId' = LastCDSBlockId, call' = call,
              Handle' = [Handle EXCEPT ![name] = NoId]
       PROVE  CDSInv'
  <2>1. DOMAIN Handle' = Name /\ Handle'[name] = NoId
        /\ \A n \in Name \ {name} : Handle'[n] = Handle[n]
    BY Zenon, <1>5, <1>10 DEF HandleInv
  <2>2. \A n \in Name \ {name} : HandleOK(n)'
    <3> SUFFICES ASSUME NEW n \in Name \ {name}
                 PROVE  HandleOK(n)'
      OBVIOUS
    <3>1. HandleOK(n) /\ Handle'[n] = Handle[n]
      BY Zenon, <1>5, <2>1 DEF HandleInv
    <3> QED BY Zenon, <1>6, <1>10, <3>1, HandleStays
  <2>3. HandleInv'
    BY Zenon, <1>6, <2>1, <2>2 DEF HandleInv, HandleOK
  <2>4. RegistryInv' /\ LastCDSBlockId' \in Serial
    BY Zenon, <1>5, <1>10 DEF RegistryInv
  <2>5. CallInv'
    <3>1. call'.pc = "idle" /\ DOMAIN call' = {"pc", "name", "size", "id", "value"}
      BY Zenon, <1>2, <1>10, IdleCall
    <3> QED BY <3>1 DEF CallInv
  <2>6. SavedInv'
    BY Zenon, <1>1, <1>5, <1>10 DEF SavedInv, Available
  <2> QED BY Zenon, <1>3, <1>4, <2>3, <2>4, <2>5, <2>6 DEF CDSInv
<1>11. ASSUME NEW id, id = FindNext(LastCDSBlockId), id # NoId,
              Registry' = [Registry EXCEPT ![ToIndex(id)] = NoRec], LastCDSBlockId' = id,
              call' = [pc |-> "get", name |-> name, size |-> size, id |-> id, value |-> NONE],
              Handle' = Handle
       PROVE  CDSInv'
  <2> DEFINE i == ToIndex(id)
  <2>1. id \in Serial /\ i \in Index /\ i \notin Used(Registry)
    BY Zenon, <1>5, <1>11, FoundIsFree, IndexInTable
  <2>2. /\ DOMAIN Registry' = Index /\ Registry'[i] = NoRec
        /\ \A j \in Index \ {i} : Registry'[j] = Registry[j]
    BY Zenon, <1>5, <1>11, <2>1 DEF RegistryInv, RegistryOK
  <2> HIDE DEF i
  <2>3. Record(NoRec) /\ NoRec.id = NoId /\ NoRec.size = 0
    BY DEF NoRec, Record
  <2>4. RegistryInv'
    <3>1. Placed(NoRec, i) /\ Sized(NoRec)
      BY Zenon, <2>3 DEF Placed, Sized
    <3> QED BY Zenon, <1>5, <2>1, <2>2, <2>3, <3>1, RecordWritten
  <2>5. /\ DOMAIN call' = {"pc", "name", "size", "id", "value"} /\ call'.pc = "get"
        /\ call'.name = name /\ call'.size = size /\ call'.id = id
    BY <1>11
  <2>6. CallInv'
    <3>1. call'.pc # "save" /\ call'.pc # "data"
      BY <2>5
    <3>2. Registry'[ToIndex(call'.id)].id = NoId
      BY Zenon, <2>2, <2>3, <2>5 DEF i
    <3> QED BY Zenon, <1>6, <2>1, <2>5, <3>1, <3>2 DEF CallInv
  <2>7. HandleInv'
    <3>1. ASSUME NEW n \in Name
          PROVE  HandleOK(n)'
      <4>1. HandleOK(n) /\ Handle'[n] = Handle[n]
        BY Zenon, <1>5, <1>11 DEF HandleInv
      <4>2. ASSUME Handle[n] # NoId
            PROVE  Registry'[ToIndex(Handle[n])] = Registry[ToIndex(Handle[n])]
        <5>1. ToIndex(Handle[n]) \in Used(Registry)
          BY Zenon, <4>2, HandleRecord
        <5>2. ToIndex(Handle[n]) \in Index \ {i}
          BY Zenon, <2>1, <5>1 DEF Used
        <5> QED BY Zenon, <2>2, <5>2
      <4> QED BY Zenon, <1>6, <4>1, <4>2, HandleStays
    <3> QED BY Zenon, <1>5, <1>6, <1>11, <3>1 DEF HandleInv
  <2>8. SavedInv'
    <3>1. Available /\ call.pc \notin {"save", "save_deleted"}
      BY <1>2, <1>7 DEF Available
    <3>2. i \notin Used(SavedRegistry)
      <4>1. Registry[i] = SavedRegistry[i] => i \notin Used(SavedRegistry)
        BY Zenon, <2>1 DEF Used
      <4> QED BY Zenon, <1>5, <2>1, <3>1, <4>1 DEF SavedInv
    <3>3. i \notin Used(Registry') /\ i \notin Used(SavedRegistry')
      BY Zenon, <1>1, <2>2, <2>3, <3>2 DEF Used
    <3>4. SUFFICES ASSUME NEW j \in Used(Registry') \cup Used(SavedRegistry')
                   PROVE  Registry'[j] = SavedRegistry'[j]
                            \/ (j \in Used(Registry') /\ Registry'[j].offset = 0)
      BY Zenon DEF SavedInv
    <3>5. j \in Index \ {i}
      BY Zenon, <3>3 DEF Used
    <3>6. Registry'[j] = Registry[j] /\ SavedRegistry' = SavedRegistry
      BY Zenon, <1>1, <2>2, <3>5
    <3>7. /\ j \in Used(Registry) \cup Used(SavedRegistry)
          /\ j \in Used(Registry) => j \in Used(Registry')
      BY Zenon, <3>5, <3>6 DEF Used
    <3> QED BY Zenon, <1>5, <3>1, <3>6, <3>7 DEF SavedInv
  <2>9. LastCDSBlockId' \in Serial
    BY Zenon, <1>11, <2>1
  <2> QED BY Zenon, <1>3, <1>4, <2>4, <2>6, <2>7, <2>8, <2>9 DEF CDSInv
<1>12. CASE LocateByName(name) # {}
  <2>1. PICK i \in LocateByName(name) :
          /\ UNCHANGED <<Registry, LastCDSBlockId>>
          /\ \/ Registry[i].offset # 0 /\ Returned(name, Registry[i].id) /\ UNCHANGED call
             \/ /\ call' = [pc |-> IF Registry[i].offset = 0 THEN "get" ELSE "put",
                            name |-> name, size |-> size, id |-> Registry[i].id,
                            value |-> NONE]
                /\ UNCHANGED Handle
    BY Zenon, <1>12 DEF Register
  <2> DEFINE pc == IF Registry[i].offset = 0 THEN "get" ELSE "put"
  <2>2. pc \in {"get", "put"}
    BY Zenon
  <2> HIDE DEF pc
  <2>3. CASE UNCHANGED call /\ Registry[i].offset # 0 /\ Returned(name, Registry[i].id)
    BY Zenon, <1>8, <2>1, <2>3 DEF Returned
  <2>4. CASE UNCHANGED Handle /\ call' = [pc |-> pc, name |-> name, size |-> size,
                                         id |-> Registry[i].id, value |-> NONE]
    BY Zenon, <1>9, <2>1, <2>2, <2>4
  <2> QED BY Zenon, <2>1, <2>3, <2>4 DEF pc
<1>13. CASE LocateByName(name) = {}
  <2> DEFINE id == FindNext(LastCDSBlockId)
  <2>1. IF id = NoId
        THEN Returned(name, NoId) /\ UNCHANGED <<Registry, LastCDSBlockId, call>>
        ELSE /\ Registry' = [Registry EXCEPT ![ToIndex(id)] = NoRec]
             /\ LastCDSBlockId' = id
             /\ call' = [pc |-> "get", name |-> name, size |-> size, id |-> id, value |-> NONE]
             /\ UNCHANGED Handle
    BY Zenon, <1>13 DEF Register
  <2>2. CASE id = NoId
    BY Zenon, <1>10, <2>1, <2>2 DEF Returned
  <2>3. CASE id # NoId
    BY Zenon, <1>11, <2>1, <2>3
  <2> QED BY Zenon, <2>2, <2>3
<1> QED BY Zenon, <1>12, <1>13

\* The invariant of the call in progress when there is none.
LEMMA IdleKeeps ==
  ASSUME call' = Idle
  PROVE  CallInv' /\ call'.pc = "idle"
BY IdleCall DEF CallInv

\* The handles after the one of an application is dropped.
LEMMA HandleDropped ==
  ASSUME HandleInv, NEW name, Handle' = [Handle EXCEPT ![name] = NoId],
         UNCHANGED <<Running, Registry>>
  PROVE  HandleInv'
<1>1. DOMAIN Handle' = Name /\ \A n \in Name : Handle'[n] \in {Handle[n], NoId}
  BY Zenon DEF HandleInv
<1>2. ASSUME NEW n \in Name
      PROVE  HandleOK(n)'
  BY Zenon, <1>1 DEF HandleInv, HandleOK
<1> QED BY Zenon, <1>1, <1>2 DEF HandleInv

\* CFE_ES_RegisterCDSEx releases a block of another size.
LEMMA RegisterPutKeeps ==
  ASSUME CDSInv, RegisterPut
  PROVE  CDSInv'
<1> DEFINE i == ToIndex(call.id)
<1>1. /\ call.pc = "put"
      /\ UNCHANGED <<Signature, RegSize, SavedRegistry, Data, boot, LastCDSBlockId, Running>>
      /\ \/ /\ Desc' = PutBlock(Pool, Desc, Registry[i].offset).desc
            /\ Registry' = [Registry EXCEPT ![i].offset = 0, ![i].size = 0]
            /\ call' = [call EXCEPT !.pc = "get"]
            /\ UNCHANGED Handle
         \/ /\ Handle' = [Handle EXCEPT ![call.name] = NoId]
            /\ call' = Idle
            /\ UNCHANGED <<Desc, Registry>>
  BY Zenon DEF RegisterPut, Returned
<1>2. boot = "available" /\ SavedOK /\ Cleared
  BY <1>1, CallsWhenAvailable
<1>3. StoreTypes' /\ Cleared' /\ SavedOK'
  <2>1. Descriptors(Desc)
    BY Zenon DEF CDSInv, StoreTypes
  <2>2. Descriptors(Desc') /\ (NoJunk(Desc) => NoJunk(Desc'))
    <3>1. \/ Desc' = Desc
          \/ \E off : Desc' = PutBlock(Pool, Desc, off).desc
      BY Zenon, <1>1
    <3>2. CASE Desc' = Desc
      BY Zenon, <2>1, <3>2
    <3>3. CASE \E off : Desc' = PutBlock(Pool, Desc, off).desc
      BY Zenon, <2>1, <3>3, PutWrites
    <3> QED BY Zenon, <3>1, <3>2, <3>3
  <2>3. StoreTypes' /\ Cleared'
    BY Zenon, <1>1, <1>2, <2>2, StoreWritten
  <2> QED BY Zenon, <1>1, <1>2, <2>3 DEF SavedOK
<1>4. BootInv' /\ LastCDSBlockId' \in Serial
  BY Zenon, <1>1, <1>2, <1>3, StoreStaysValid DEF CDSInv
<1>5. RegistryInv /\ HandleInv /\ SavedInv /\ CallInv
  BY Zenon DEF CDSInv
<1>6. /\ call.name \in Running /\ call.size \in Size /\ call.id \in Serial
      /\ Registry[i].id # NoId => Registry[i].id = call.id /\ Registry[i].name = call.name
  BY <1>1, <1>5 DEF CallInv
<1>7. i \in Index
  BY Zenon, <1>6, IndexInTable
<1>8. Available /\ call.pc \notin {"save", "save_deleted"}
  BY <1>1, <1>2 DEF Available
<1>9. CASE /\ Registry' = [Registry EXCEPT ![i].offset = 0, ![i].size = 0]
           /\ call' = [call EXCEPT !.pc = "get"] /\ UNCHANGED Handle
  <2>1. DOMAIN Registry = Index /\ Record(Registry[i]) /\ Placed(Registry[i], i)
    BY Zenon, <1>5, <1>7 DEF RegistryInv, RegistryOK
  <2>2. DOMAIN Registry' = Index /\ \A j \in Index \ {i} : Registry'[j] = Registry[j]
    <3> HIDE DEF i
    <3> QED BY Zenon, <1>9, <2>1
  <2>3. /\ Record(Registry'[i]) /\ Registry'[i].id = Registry[i].id
        /\ Registry'[i].name = Registry[i].name
        /\ Registry'[i].offset = 0 /\ Registry'[i].size = 0
    <3> HIDE DEF i
    <3> QED BY <1>7, <1>9, <2>1 DEF Record
  <2>4. \A j \in Index : Registry'[j].id = Registry[j].id /\ Registry'[j].name = Registry[j].name
    BY Zenon, <2>2, <2>3
  <2>5. RegistryInv'
    <3>1. Placed(Registry'[i], i) /\ Sized(Registry'[i])
      BY Zenon, <2>1, <2>3 DEF Placed, Sized
    <3> HIDE DEF i
    <3> QED BY Zenon, <1>5, <1>7, <2>2, <2>3, <3>1, RecordWritten
  <2>6. /\ DOMAIN call' = {"pc", "name", "size", "id", "value"} /\ call'.pc = "get"
        /\ call'.name = call.name /\ call'.size = call.size /\ call'.id = call.id
    <3>1. DOMAIN call = {"pc", "name", "size", "id", "value"}
      BY Zenon, <1>5 DEF CallInv
    <3> QED BY <1>9, <3>1
  <2>7. CallInv'
    <3>1. call'.pc # "save" /\ call'.pc # "data"
      BY <2>6
    <3>2. Registry'[i].id # NoId => Registry'[i].id = call'.id /\ Registry'[i].name = call'.name
      BY Zenon, <1>6, <2>3, <2>6
    <3>3. i = ToIndex(call'.id)
      BY Zenon, <2>6
    <3> HIDE DEF i
    <3> QED BY Zenon, <1>1, <1>6, <2>6, <3>1, <3>2, <3>3 DEF CallInv
  <2>8. HandleInv'
    <3>1. ASSUME NEW n \in Name
          PROVE  HandleOK(n)'
      <4>1. HandleOK(n) /\ Handle'[n] = Handle[n] /\ Running \subseteq Running'
        BY Zenon, <1>1, <1>5, <1>9 DEF HandleInv
      <4>2. Handle[n] # NoId => ToIndex(Handle[n]) \in Index
        BY Zenon, HandleRecord, IndexInTable
      <4> QED BY Zenon, <2>4, <4>1, <4>2, HandleStays
    <3> QED BY Zenon, <1>1, <1>5, <1>9, <3>1 DEF HandleInv
  <2>9. SavedInv'
    <3>1. SUFFICES ASSUME NEW j \in Used(Registry') \cup Used(SavedRegistry')
                   PROVE  Registry'[j] = SavedRegistry'[j]
                            \/ (j \in Used(Registry') /\ Registry'[j].offset = 0)
      BY Zenon DEF SavedInv
    <3>2. j \in Index /\ j \in Used(Registry) \cup Used(SavedRegistry)
      BY Zenon, <1>1, <2>4 DEF Used
    <3>3. Registry[j] = SavedRegistry[j] \/ (j \in Used(Registry) /\ Registry[j].offset = 0)
      BY Zenon, <1>5, <1>8, <3>2 DEF SavedInv
    <3>4. j \in Used(Registry) => j \in Used(Registry')
      BY Zenon, <2>4 DEF Used
    <3>5. CASE j # i
      <4>1. Registry'[j] = Registry[j] /\ SavedRegistry' = SavedRegistry
        BY Zenon, <1>1, <2>2, <3>2, <3>5
      <4> QED BY Zenon, <3>3, <3>4, <4>1
    <3>6. CASE j = i
      <4>1. j \in Used(Registry)
        <5>1. Registry[j] = SavedRegistry[j] => j \in Used(Registry)
          BY Zenon, <3>2 DEF Used
        <5> QED BY Zenon, <3>3, <5>1
      <4> QED BY Zenon, <2>3, <3>4, <3>6, <4>1
    <3> QED BY Zenon, <3>5, <3>6
  <2> QED BY Zenon, <1>3, <1>4, <2>5, <2>7, <2>8, <2>9 DEF CDSInv
<1>10. CASE /\ Handle' = [Handle EXCEPT ![call.name] = NoId] /\ call' = Idle
            /\ UNCHANGED Registry
  <2>1. RegistryInv' /\ CallInv'
    BY Zenon, <1>5, <1>10, IdleKeeps DEF RegistryInv
  <2>2. HandleInv'
    BY Zenon, <1>1, <1>5, <1>10, HandleDropped
  <2>3. SavedInv'
    BY Zenon, <1>1, <1>5, <1>8, <1>10 DEF SavedInv
  <2> QED BY Zenon, <1>3, <1>4, <2>1, <2>2, <2>3 DEF CDSInv
<1> QED BY Zenon, <1>1, <1>9, <1>10

\* CFE_ES_RegisterCDSEx allocates the block.
LEMMA RegisterGetKeeps ==
  ASSUME CDSInv, RegisterGet
  PROVE  CDSInv'
<1> DEFINE i == ToIndex(call.id)
<1> DEFINE got == GetBlock(Pool, Desc, call.size + HeaderSize)
<1>1. /\ call.pc = "get"
      /\ UNCHANGED <<Signature, RegSize, SavedRegistry, Data, boot, LastCDSBlockId, Running>>
      /\ Desc' = got.desc
      /\ \/ /\ Handle' = [Handle EXCEPT ![call.name] = NoId]
            /\ call' = Idle
            /\ UNCHANGED Registry
         \/ /\ Registry' = [Registry EXCEPT ![i] = [id |-> call.id, name |-> call.name,
                              offset |-> got.offset, size |-> call.size + HeaderSize]]
            /\ call' = [call EXCEPT !.pc = "save"]
            /\ UNCHANGED Handle
  BY Zenon DEF RegisterGet, Returned
<1>2. boot = "available" /\ SavedOK /\ Cleared
  BY <1>1, CallsWhenAvailable
<1>3. StoreTypes' /\ Cleared' /\ SavedOK'
  <2>1. Descriptors(Desc)
    BY Zenon DEF CDSInv, StoreTypes
  <2>2. Descriptors(Desc') /\ (NoJunk(Desc) => NoJunk(Desc'))
    BY Zenon, <1>1, <2>1, GetWrites
  <2>3. StoreTypes' /\ Cleared'
    BY Zenon, <1>1, <1>2, <2>2, StoreWritten
  <2> QED BY Zenon, <1>1, <1>2, <2>3 DEF SavedOK
<1> HIDE DEF got
<1>4. BootInv' /\ LastCDSBlockId' \in Serial
  BY Zenon, <1>1, <1>2, <1>3, StoreStaysValid DEF CDSInv
<1>5. RegistryInv /\ HandleInv /\ SavedInv /\ CallInv
  BY Zenon DEF CDSInv
<1>6. /\ call.name \in Running /\ call.size \in Size /\ call.id \in Serial
      /\ Registry[i].id # NoId => Registry[i].id = call.id /\ Registry[i].name = call.name
  BY <1>1, <1>5 DEF CallInv
<1>7. i \in Index /\ call.id # NoId /\ call.name \in Name
  BY Zenon, <1>5, <1>6, IndexInTable DEF HandleInv
<1>8. CASE /\ Registry' = [Registry EXCEPT ![i] = [id |-> call.id, name |-> call.name,
                              offset |-> got.offset, size |-> call.size + HeaderSize]]
           /\ call' = [call EXCEPT !.pc = "save"] /\ UNCHANGED Handle
  <2> DEFINE rec == [id |-> call.id, name |-> call.name, offset |-> got.offset,
                     size |-> call.size + HeaderSize]
  <2>1. /\ DOMAIN Registry' = Index /\ Registry'[i] = rec
        /\ \A j \in Index \ {i} : Registry'[j] = Registry[j]
    <3>1. DOMAIN Registry = Index
      BY Zenon, <1>5 DEF RegistryInv, RegistryOK
    <3> HIDE DEF i, rec
    <3> QED BY Zenon, <1>7, <1>8, <3>1 DEF rec
  <2>2. /\ Record(rec) /\ rec.id = call.id /\ rec.name = call.name
        /\ rec.size = call.size + HeaderSize
    BY DEF Record
  <2> HIDE DEF rec
  <2>3. RegistryInv'
    <3>1. Placed(rec, i) /\ Sized(rec)
      BY Zenon, <1>6, <1>7, <2>2 DEF Placed, Sized
    <3> HIDE DEF i
    <3> QED BY Zenon, <1>5, <1>7, <2>1, <2>2, <3>1, RecordWritten
  <2>4. /\ DOMAIN call' = {"pc", "name", "size", "id", "value"} /\ call'.pc = "save"
        /\ call'.name = call.name /\ call'.size = call.size /\ call'.id = call.id
    <3>1. DOMAIN call = {"pc", "name", "size", "id", "value"}
      BY Zenon, <1>5 DEF CallInv
    <3> QED BY <1>8, <3>1
  <2>5. CallInv'
    <3>1. call'.pc # "data"
      BY <2>4
    <3>2. Registry'[i].id = call'.id /\ Registry'[i].name = call'.name
      BY Zenon, <2>1, <2>2, <2>4
    <3>3. i = ToIndex(call'.id)
      BY Zenon, <2>4
    <3> HIDE DEF i
    <3> QED BY Zenon, <1>1, <1>6, <2>4, <3>1, <3>2, <3>3 DEF CallInv
  <2>6. HandleInv'
    <3>1. ASSUME NEW n \in Name
          PROVE  HandleOK(n)'
      <4>1. HandleOK(n) /\ Handle'[n] = Handle[n] /\ Running \subseteq Running'
        BY Zenon, <1>1, <1>5, <1>8 DEF HandleInv
      <4>2. ASSUME Handle[n] # NoId
            PROVE  LET k == ToIndex(Handle[n])
                   IN  Registry'[k].id = Registry[k].id /\ Registry'[k].name = Registry[k].name
        <5>1. ToIndex(Handle[n]) \in Index /\ Registry[ToIndex(Handle[n])].id # NoId
          BY Zenon, <4>2, HandleRecord DEF Used
        <5>2. CASE ToIndex(Handle[n]) = i
          BY Zenon, <1>6, <2>1, <2>2, <5>1, <5>2
        <5>3. CASE ToIndex(Handle[n]) # i
          BY Zenon, <2>1, <5>1, <5>3
        <5> QED BY Zenon, <5>2, <5>3
      <4> QED BY Zenon, <4>1, <4>2, HandleStays
    <3> QED BY Zenon, <1>1, <1>5, <1>8, <3>1 DEF HandleInv
  <2>7. SavedInv'
    <3>1. call'.pc \in {"save", "save_deleted"}
      BY <2>4
    <3> QED BY Zenon, <3>1 DEF SavedInv
  <2> QED BY Zenon, <1>3, <1>4, <2>3, <2>5, <2>6, <2>7 DEF CDSInv
<1>9. CASE /\ Handle' = [Handle EXCEPT ![call.name] = NoId] /\ call' = Idle
           /\ UNCHANGED Registry
  <2>1. RegistryInv' /\ CallInv'
    BY Zenon, <1>5, <1>9, IdleKeeps DEF RegistryInv
  <2>2. HandleInv'
    BY Zenon, <1>1, <1>5, <1>9, HandleDropped
  <2>3. SavedInv'
    <3>1. Available /\ call.pc \notin {"save", "save_deleted"}
      BY <1>1, <1>2 DEF Available
    <3> QED BY Zenon, <1>1, <1>5, <1>9, <3>1 DEF SavedInv
  <2> QED BY Zenon, <1>3, <1>4, <2>1, <2>2, <2>3 DEF CDSInv
<1> QED BY Zenon, <1>1, <1>8, <1>9

\* CFE_ES_UpdateCDSRegistry writes the registry to the store.
LEMMA UpdateKeeps ==
  ASSUME CDSInv, UpdateCDSRegistry
  PROVE  CDSInv'
<1>1. /\ call.pc \in {"save", "save_deleted"} /\ SavedRegistry' = Registry /\ call' = Idle
      /\ IF call.pc = "save" THEN Handle' = [Handle EXCEPT ![call.name] = call.id]
         ELSE UNCHANGED Handle
      /\ UNCHANGED <<Signature, RegSize, Desc, Data, boot, Registry, LastCDSBlockId, Running>>
  BY Zenon DEF UpdateCDSRegistry, Returned
<1>2. boot = "available" /\ Cleared
  <2>1. call.pc \in {"put", "get", "save", "save_deleted", "data"}
    BY Zenon, <1>1
  <2> QED BY Zenon, <2>1, CallsWhenAvailable
<1>3. RegistryInv /\ HandleInv /\ CallInv /\ StoreTypes
  BY Zenon DEF CDSInv
<1>4. StoreTypes' /\ Cleared' /\ SavedOK' /\ RegistryInv' /\ LastCDSBlockId' \in Serial
  <2>1. StoreTypes' /\ Cleared'
    BY Zenon, <1>1, <1>2, <1>3 DEF StoreTypes, Cleared
  <2>2. SavedOK' /\ RegistryInv'
    BY Zenon, <1>1, <1>3 DEF SavedOK, RegistryInv
  <2> QED BY Zenon, <1>1, <2>1, <2>2 DEF CDSInv
<1>5. BootInv'
  BY Zenon, <1>1, <1>2, <1>4, StoreStaysValid
<1>6. CallInv'
  BY Zenon, <1>1, IdleKeeps
<1>7. SavedInv'
  <2>1. SavedRegistry' = Registry'
    BY Zenon, <1>1
  <2> QED BY Zenon, <2>1 DEF SavedInv
<1>8. HandleInv'
  <2>1. CASE call.pc = "save"
    <3>1. /\ call.name \in Running /\ call.id \in Serial
          /\ Registry[ToIndex(call.id)].id = call.id
          /\ Registry[ToIndex(call.id)].id # NoId => Registry[ToIndex(call.id)].name = call.name
      BY <1>3, <2>1 DEF CallInv
    <3>2. call.id # NoId /\ Registry[ToIndex(call.id)].name = call.name
      BY Zenon, <3>1, IndexInTable
    <3>3. DOMAIN Handle' = Name /\ \A n \in Name : Handle'[n] = IF n = call.name THEN call.id
                                                                ELSE Handle[n]
      BY Zenon, <1>1, <1>3, <2>1 DEF HandleInv
    <3>4. ASSUME NEW n \in Name
          PROVE  HandleOK(n)'
      <4>1. CASE n = call.name
        BY Zenon, <1>1, <3>1, <3>2, <3>3, <4>1 DEF HandleOK
      <4>2. CASE n # call.name
        BY Zenon, <1>1, <1>3, <3>3, <4>2 DEF HandleInv, HandleOK
      <4> QED BY Zenon, <4>1, <4>2
    <3> QED BY Zenon, <1>1, <1>3, <3>3, <3>4 DEF HandleInv
  <2>2. CASE call.pc # "save"
    BY Zenon, <1>1, <1>3, <2>2 DEF HandleInv, HandleOK
  <2> QED BY Zenon, <2>1, <2>2
<1> QED BY Zenon, <1>4, <1>5, <1>6, <1>7, <1>8 DEF CDSInv

\* CFE_ES_CDSBlockWrite writes the header.
LEMMA BlockWriteKeeps ==
  ASSUME CDSInv, NEW name \in Name, NEW v \in Value, BlockWrite(name, v)
  PROVE  CDSInv'
<1> DEFINE rec == Registry[ToIndex(Handle[name])]
<1>1. /\ CanCall /\ Accessible(Handle[name])
      /\ call' = [pc |-> "data", name |-> name, size |-> rec.size - HeaderSize,
                  id |-> Handle[name], value |-> v]
      /\ UNCHANGED <<Signature, RegSize, SavedRegistry, Desc, Data, boot, Registry,
                     LastCDSBlockId, Running, Handle>>
  BY Zenon DEF BlockWrite
<1>2. boot = "available" /\ SavedOK /\ Cleared /\ call = Idle
  BY Zenon, <1>1, CallsWhenAvailable DEF CanCall
<1>3. RegistryInv /\ HandleInv /\ StoreTypes /\ SavedInv
  BY Zenon DEF CDSInv
<1>4. StoreTypes' /\ Cleared' /\ SavedOK' /\ RegistryInv' /\ LastCDSBlockId' \in Serial
  <2>1. StoreTypes' /\ Cleared'
    BY Zenon, <1>1, <1>2, <1>3 DEF StoreTypes, Cleared
  <2>2. SavedOK' /\ RegistryInv'
    BY Zenon, <1>1, <1>2, <1>3 DEF SavedOK, RegistryInv
  <2> QED BY Zenon, <1>1, <2>1, <2>2 DEF CDSInv
<1>5. BootInv'
  BY Zenon, <1>1, <1>2, <1>4, StoreStaysValid
<1>6. CallInv'
  <2>1. Sized(rec)
    <3>1. ToIndex(Handle[name]) \in Index
      BY Zenon, <1>1, HandleRecord DEF Accessible, Used
    <3> QED BY Zenon, <1>3, <3>1 DEF RegistryInv, RegistryOK
  <2>2. rec.size > HeaderSize
    BY Zenon, <1>1 DEF Accessible
  <2> HIDE DEF rec
  <2>3. rec.size - HeaderSize \in Size
    <3>1. rec.size # 0
      BY <2>2, StoreAssumption
    <3>2. PICK z \in Size : rec.size = z + HeaderSize
      BY Zenon, <2>1, <3>1 DEF Sized
    <3>3. rec.size - HeaderSize = z
      BY <3>2, StoreAssumption
    <3> QED BY Zenon, <3>3
  <2>4. /\ DOMAIN call' = {"pc", "name", "size", "id", "value"} /\ call'.pc = "data"
        /\ call'.size = rec.size - HeaderSize /\ call'.value = v
    BY <1>1
  <2> QED BY <2>3, <2>4 DEF CallInv
<1>7. SavedInv'
  <2>1. Available /\ call.pc \notin {"save", "save_deleted"}
    BY <1>2, IdleCall DEF Available
  <2> QED BY Zenon, <1>1, <1>3, <2>1 DEF SavedInv
<1>8. HandleInv'
  BY Zenon, <1>1, <1>3 DEF HandleInv, HandleOK
<1> QED BY Zenon, <1>4, <1>5, <1>6, <1>7, <1>8 DEF CDSInv

\* CFE_ES_CDSBlockWrite writes the data.
LEMMA BlockWriteDataKeeps ==
  ASSUME CDSInv, BlockWriteData
  PROVE  CDSInv'
<1> DEFINE off == Registry[ToIndex(call.id)].offset
<1>1. /\ call.pc = "data" /\ call' = Idle
      /\ Data' = [Data EXCEPT ![off] = <<call.value, call.size>>]
      /\ UNCHANGED <<Signature, RegSize, SavedRegistry, Desc, boot, Registry, LastCDSBlockId,
                     Running, Handle>>
  BY Zenon DEF BlockWriteData
<1>2. boot = "available" /\ SavedOK /\ Cleared
  BY <1>1, CallsWhenAvailable
<1>3. RegistryInv /\ HandleInv /\ StoreTypes /\ SavedInv /\ CallInv
  BY Zenon DEF CDSInv
<1>4. <<call.value, call.size>> # JUNK
  <2>1. call.value \in Value /\ call.size \in Size
    BY <1>1, <1>3 DEF CallInv
  <2>2. JUNK \notin Value \X Size
    BY Zenon, StoreAssumption
  <2> QED BY <2>1, <2>2
<1>5. StoreTypes' /\ Cleared' /\ SavedOK' /\ RegistryInv' /\ LastCDSBlockId' \in Serial
  <2> HIDE DEF off
  <2>1. DOMAIN Data' = Offset /\ \A o \in Offset : Data'[o] \in {Data[o], <<call.value, call.size>>}
    BY Zenon, <1>1, <1>3 DEF StoreTypes
  <2>2. StoreTypes'
    BY Zenon, <1>1, <1>3, <2>1 DEF StoreTypes
  <2>3. Cleared'
    BY Zenon, <1>1, <1>2, <1>4, <2>1 DEF Cleared
  <2>4. SavedOK' /\ RegistryInv'
    BY Zenon, <1>1, <1>2, <1>3 DEF SavedOK, RegistryInv
  <2> QED BY Zenon, <1>1, <2>2, <2>3, <2>4 DEF CDSInv
<1>6. BootInv'
  BY Zenon, <1>1, <1>2, <1>5, StoreStaysValid
<1>7. CallInv'
  BY Zenon, <1>1, IdleKeeps
<1>8. SavedInv'
  <2>1. Available /\ call.pc \notin {"save", "save_deleted"}
    BY <1>1, <1>2 DEF Available
  <2> QED BY Zenon, <1>1, <1>3, <2>1 DEF SavedInv
<1>9. HandleInv'
  BY Zenon, <1>1, <1>3 DEF HandleInv, HandleOK
<1> QED BY Zenon, <1>5, <1>6, <1>7, <1>8, <1>9 DEF CDSInv

\* CFE_ES_DeleteCDS frees the entry of an application that does not run.
LEMMA DeleteKeeps ==
  ASSUME CDSInv, NEW name \in Name, DeleteCDS(name)
  PROVE  CDSInv'
<1>1. PICK i \in LocateByName(name) :
        /\ Desc' = PutBlock(Pool, Desc, Registry[i].offset).desc
        /\ Registry' = [Registry EXCEPT ![i].id = NoId]
  BY Zenon DEF DeleteCDS, Delete
<1>2. /\ CanCall /\ name \notin Running /\ call' = [Idle EXCEPT !.pc = "save_deleted"]
      /\ UNCHANGED <<Signature, RegSize, SavedRegistry, Data, boot, LastCDSBlockId, Running,
                     Handle>>
  BY Zenon DEF DeleteCDS, Delete
<1>3. boot = "available" /\ SavedOK /\ Cleared
  BY Zenon, <1>2, CallsWhenAvailable
<1>4. RegistryInv /\ HandleInv
  BY Zenon DEF CDSInv
<1>5. StoreTypes' /\ Cleared' /\ SavedOK' /\ LastCDSBlockId' \in Serial
  <2>1. Descriptors(Desc)
    BY Zenon DEF CDSInv, StoreTypes
  <2>2. Descriptors(Desc') /\ (NoJunk(Desc) => NoJunk(Desc'))
    BY Zenon, <1>1, <2>1, PutWrites
  <2>3. StoreTypes' /\ Cleared'
    BY Zenon, <1>2, <1>3, <2>2, StoreWritten
  <2> QED BY Zenon, <1>2, <1>3, <2>3 DEF SavedOK, CDSInv
<1>6. BootInv'
  BY Zenon, <1>2, <1>3, <1>5, StoreStaysValid
<1>7. i \in Index /\ Registry[i].name = name
  BY Zenon DEF LocateByName, Used
<1>8. /\ DOMAIN Registry' = Index /\ \A j \in Index \ {i} : Registry'[j] = Registry[j]
      /\ Record(Registry'[i]) /\ Registry'[i].id = NoId /\ Registry'[i].size = Registry[i].size
  <2>1. DOMAIN Registry = Index /\ Record(Registry[i])
    BY Zenon, <1>4, <1>7 DEF RegistryInv, RegistryOK
  <2> QED BY <1>1, <1>7, <2>1 DEF Record
<1>9. RegistryInv'
  <2>1. Placed(Registry'[i], i)
    BY Zenon, <1>8 DEF Placed
  <2>2. Sized(Registry'[i])
    BY Zenon, <1>4, <1>7, <1>8 DEF Sized, RegistryInv, RegistryOK
  <2> QED BY Zenon, <1>4, <1>7, <1>8, <2>1, <2>2, RecordWritten
<1>10. call'.pc = "save_deleted" /\ DOMAIN call' = {"pc", "name", "size", "id", "value"}
  BY <1>2, IdleCall
<1>11. CallInv'
  BY <1>10 DEF CallInv
<1>12. SavedInv'
  <2>1. call'.pc \in {"save", "save_deleted"}
    BY <1>10
  <2> QED BY Zenon, <2>1 DEF SavedInv
<1>13. HandleInv'
  <2>1. ASSUME NEW n \in Name
        PROVE  HandleOK(n)'
    <3>1. HandleOK(n) /\ Handle'[n] = Handle[n] /\ Running \subseteq Running'
      BY Zenon, <1>2, <1>4 DEF HandleInv
    <3>2. Handle[n] # NoId => ToIndex(Handle[n]) \in Index \ {i}
      BY Zenon, <1>2, <1>7, HandleRecord DEF Used
    <3> QED BY Zenon, <1>8, <3>1, <3>2, HandleStays
  <2> QED BY Zenon, <1>2, <1>4, <2>1 DEF HandleInv
<1> QED BY Zenon, <1>5, <1>6, <1>9, <1>11, <1>12, <1>13 DEF CDSInv

\* An application ends.
LEMMA ExitKeeps ==
  ASSUME CDSInv, NEW name \in Name, ExitApp(name)
  PROVE  CDSInv'
<1>1. /\ Running' = Running \ {name} /\ Handle' = [Handle EXCEPT ![name] = NoId]
      /\ UNCHANGED <<Signature, RegSize, SavedRegistry, Desc, Data, boot, Registry,
                     LastCDSBlockId, call>>
  BY Zenon DEF ExitApp, store
<1>2. StoreTypes' /\ RegistryInv' /\ LastCDSBlockId' \in Serial /\ SavedInv'
  BY Zenon, <1>1 DEF CDSInv, StoreTypes, RegistryInv, SavedInv, Available
<1>3. BootInv'
  <2>1. /\ boot = "available" /\ SavedOK /\ Cleared
    BY Zenon, CallsWhenAvailable DEF ExitApp
  <2>2. SavedOK' /\ Cleared'
    BY Zenon, <1>1, <2>1 DEF SavedOK, Cleared
  <2> QED BY Zenon, <1>1, <2>1, <2>2, StoreStaysValid
<1>4. CallInv'
  <2>1. call' = Idle
    BY Zenon DEF ExitApp, CanCall
  <2> QED BY Zenon, <2>1, IdleKeeps
<1>5. HandleInv'
  <2>1. HandleInv
    BY Zenon DEF CDSInv
  <2>2. /\ DOMAIN Handle' = Name /\ Handle'[name] = NoId
        /\ \A n \in Name \ {name} : Handle'[n] = Handle[n]
    BY Zenon, <1>1, <2>1 DEF HandleInv
  <2>3. ASSUME NEW n \in Name
        PROVE  HandleOK(n)'
    <3>1. CASE n = name
      BY Zenon, <2>2, <3>1 DEF HandleOK
    <3>2. CASE n # name
      BY Zenon, <1>1, <2>1, <2>2, <3>2 DEF HandleInv, HandleOK
    <3> QED BY Zenon, <3>1, <3>2
  <2> QED BY Zenon, <1>1, <2>1, <2>2, <2>3 DEF HandleInv
<1> QED BY Zenon, <1>2, <1>3, <1>4, <1>5 DEF CDSInv

-----------------------------------------------------------------------------
(***************************************************************************)
(* The theorems                                                            *)
(***************************************************************************)
\* Every step keeps the invariant.
LEMMA InvStep ==
  ASSUME CDSInv, [Next]_vars
  PROVE  CDSInv'
<1>1. CASE Validate
  BY Zenon, <1>1, ValidateKeeps
<1>2. CASE /\ ClearHead \/ ClearPool \/ ClearEnd \/ InitSignatures \/ InitRegistry
           /\ UNCHANGED <<Registry, Pool, LastCDSBlockId, call, Running, Handle, Stored, lost>>
  BY Zenon, <1>2, InitialisingKeeps
<1>3. CASE Reset
  BY Zenon, <1>3, ResetKeeps
<1>4. CASE RegisterPut
  BY Zenon, <1>4, RegisterPutKeeps
<1>5. CASE RegisterGet
  BY Zenon, <1>5, RegisterGetKeeps
<1>6. CASE UpdateCDSRegistry
  BY Zenon, <1>6, UpdateKeeps
<1>7. CASE BlockWriteData
  BY Zenon, <1>7, BlockWriteDataKeeps
<1>8. CASE \E name \in Name : \/ \E size \in Size : Register(name, size)
                              \/ \E v \in Value : BlockWrite(name, v)
                              \/ DeleteCDS(name) \/ ExitApp(name)
  BY Zenon, <1>8, RegisterKeeps, BlockWriteKeeps, DeleteKeeps, ExitKeeps
<1>9. CASE UNCHANGED vars
  <2>1. UNCHANGED <<Signature, RegSize, SavedRegistry, Desc, Data, boot, Registry,
                    LastCDSBlockId, call, Running, Handle>>
    BY Zenon, <1>9 DEF vars, store, memory
  <2>2. StoreTypes' /\ RegistryInv' /\ LastCDSBlockId' \in Serial
    BY Zenon, <2>1 DEF CDSInv, StoreTypes, RegistryInv
  <2>3. BootInv'
    BY Zenon, <2>1 DEF CDSInv, BootInv, Valid, SavedOK, Cleared
  <2>4. CallInv'
    BY Zenon, <2>1 DEF CDSInv, CallInv
  <2>5. SavedInv' /\ HandleInv'
    BY Zenon, <2>1 DEF CDSInv, SavedInv, Available, HandleInv, HandleOK
  <2> QED BY Zenon, <2>2, <2>3, <2>4, <2>5 DEF CDSInv
<1> QED BY Zenon, <1>1, <1>2, <1>3, <1>4, <1>5, <1>6, <1>7, <1>8, <1>9 DEF Next, EarlyInit

\* What the invariant says to those who use the store.
LEMMA InvSays ==
  ASSUME CDSInv
  PROVE  InitialisedBeforeUse /\ RegistrySaved /\ HandleNamesOwn
<1>1. InitialisedBeforeUse
  <2>1. Available => Cleared
    BY DEF CDSInv, BootInv, Available
  <2>2. \A i \in Used(Registry) : Registry[i].name \in Name
    BY Zenon DEF CDSInv, RegistryInv, RegistryOK, Placed, Used
  <2> QED BY Zenon, <2>1, <2>2 DEF InitialisedBeforeUse, Cleared, NoJunk
<1>2. RegistrySaved
  <2>1. call = Idle => call.pc \notin {"save", "save_deleted"}
    BY IdleCall
  <2> QED BY Zenon, <2>1 DEF CDSInv, SavedInv, RegistrySaved
<1>3. HandleNamesOwn
  BY Zenon DEF CDSInv, HandleInv, HandleOK, HandleNamesOwn
<1> QED BY Zenon, <1>1, <1>2, <1>3

\* CFE_ES_CDS_EarlyInit never declares a store available that still holds what
\* the memory held at power on, in whatever write of an initialisation, and
\* however often, the processor was reset.
THEOREM StoreIsInitialised == Spec => []InitialisedBeforeUse
BY InvInit, InvStep, InvSays, PTL DEF Spec

\* Between the calls of CFE_ES_RegisterCDSEx, CFE_ES_DeleteCDS and
\* CFE_ES_CDSBlockWrite the registry in the store is the one in memory, but for
\* entries without a block.
THEOREM RegistryIsSaved == Spec => []RegistrySaved
BY InvInit, InvStep, InvSays, PTL DEF Spec

\* However serial numbers wrap and entries are freed and used again, the handle
\* of a running application names the entry of its own store.
THEOREM HandlesNameOwn == Spec => []HandleNamesOwn
BY InvInit, InvStep, InvSays, PTL DEF Spec
=============================================================================
