---------------------------- MODULE GenericPool ----------------------------
(***************************************************************************)
(* The generic pool of cfe_es_generic_pool.c, the allocator under the ES   *)
(* memory pools and under the critical data store.                         *)
(*                                                                         *)
(* Blocks are laid out one after the other from StartOffset, each behind   *)
(* its descriptor, and are never split or merged: a block keeps the bucket *)
(* it was created for.  A released block goes on the free stack of its     *)
(* bucket, which is linked through the descriptors.  The descriptors are   *)
(* in the storage of the pool (desc), the heads of the stacks and the tail *)
(* in the pool record (pool): only the storage outlives a reset.           *)
(*                                                                         *)
(* A bucket is named by its block size.  Offsets count units of the        *)
(* alignment, so that aligning an offset changes nothing.  The counts of   *)
(* releases and recyclings matter by their difference, which is Free.      *)
(* Every operation writes at most one descriptor, with its last store.     *)
(***************************************************************************)
EXTENDS Naturals, FiniteSets, Sequences, FiniteSetsExt

CONSTANTS
    Bucket,         \* the block sizes of the pool
    DescSize,       \* CFE_ES_GENERIC_POOL_DESCRIPTOR_SIZE
    StartOffset,    \* where the pool begins in its storage
    PoolMaxOffset   \* where it ends

ASSUME PoolAssumption ==
    /\ IsFiniteSet(Bucket) /\ Bucket \subseteq Nat \ {0}
    /\ DescSize \in Nat \ {0}
    /\ StartOffset \in Nat /\ PoolMaxOffset \in Nat

Offset == 0 .. PoolMaxOffset

\* CFE_ES_GenPoolBD_t: CheckBits and Allocated together tell what the storage
\* holds, "none" where no descriptor was ever written, "junk" where memory was
\* never cleared.
BD == [state : {"none", "junk", "allocated", "deallocated"}, bucket : Bucket \cup {0},
       size : Offset, next : Offset]

NoBD == [state |-> "none", bucket |-> 0, size |-> 0, next |-> 0]

\* CFE_ES_GenPoolRecord_t
PoolRecord == [Tail : Offset, First : [Bucket -> Offset], Free : [Bucket -> Offset]]

\* The smallest bucket that holds size units, 0 if there is none.
FindBucket(size) ==
    LET fits == {b \in Bucket : size <= b}
    IN  IF fits = {} THEN 0 ELSE Min(fits)

\* CFE_ES_GenPoolInitialize
GenPoolInitialize ==
    [Tail |-> StartOffset, First |-> [b \in Bucket |-> 0], Free |-> [b \in Bucket |-> 0]]

-----------------------------------------------------------------------------
\* The test CFE_ES_GenPoolGetBlockSize and CFE_ES_GenPoolPutBlock make before
\* they believe that a block begins at offset.
IsBlock(pool, desc, offset) ==
    /\ offset < pool.Tail /\ offset >= DescSize
    /\ desc[offset].state = "allocated"
    /\ desc[offset].size # 0
    /\ desc[offset].size <= desc[offset].bucket

\* What CFE_ES_GenPoolGetBlock hands back: the block, 0 for an error.
Got(offset, pool, desc) == [offset |-> offset, pool |-> pool, desc |-> desc]

Recyclable(pool, desc, b) ==
    /\ pool.Free[b] # 0 /\ pool.First[b] # 0
    /\ desc[pool.First[b]].state = "deallocated"
    /\ desc[pool.First[b]].bucket = b

RecyclePoolBlock(pool, desc, b, size) ==
    LET offset == pool.First[b]
    IN  Got(offset,
            [pool EXCEPT !.First[b] = desc[offset].next, !.Free[b] = @ - 1],
            [desc EXCEPT ![offset] = [@ EXCEPT !.state = "allocated",
                                               !.size = size, !.next = 0]])

CreatePoolBlock(pool, desc, b, size) ==
    LET offset == pool.Tail + DescSize
    IN  IF offset + b > PoolMaxOffset
        THEN Got(0, pool, desc)
        ELSE Got(offset,
                 [pool EXCEPT !.Tail = offset + b],
                 [desc EXCEPT ![offset] = [state |-> "allocated", bucket |-> b,
                                           size |-> size, next |-> 0]])

\* A released block of the right bucket is used first.
GetBlock(pool, desc, size) ==
    LET b == FindBucket(size)
    IN  IF b = 0 THEN Got(0, pool, desc)
        ELSE IF Recyclable(pool, desc, b) THEN RecyclePoolBlock(pool, desc, b, size)
        ELSE CreatePoolBlock(pool, desc, b, size)

PutUnlinked(pool, desc, offset) ==
    LET b == desc[offset].bucket
    IN  Got(offset,
            [pool EXCEPT !.First[b] = offset, !.Free[b] = @ + 1],
            [desc EXCEPT ![offset] = [@ EXCEPT !.state = "deallocated"]])

\* Releases the block at offset, for which IsBlock holds.
PutBlock(pool, desc, offset) ==
    LET b == desc[offset].bucket
    IN  Got(offset,
            [pool EXCEPT !.First[b] = offset, !.Free[b] = @ + 1],
            [desc EXCEPT ![offset] = [@ EXCEPT !.state = "deallocated",
                                               !.next = pool.First[b]]])

-----------------------------------------------------------------------------
\* The blocks CFE_ES_GenPoolRebuild recognises from tail on, in order: it
\* stops where no descriptor was written or the pool ends.
Scan(desc, tail) ==
    LET Blocks[t \in Offset] ==
            LET offset == t + DescSize
            IN  IF \/ offset > PoolMaxOffset
                   \/ desc[offset].state \notin {"allocated", "deallocated"}
                   \/ desc[offset].bucket < desc[offset].size
                THEN {}
                ELSE {offset} \cup Blocks[offset + desc[offset].bucket]
    IN  Blocks[tail]

\* The released blocks of bucket b.
Released(desc, blocks, b) ==
    {o \in blocks : desc[o].state = "deallocated" /\ desc[o].bucket = b}

\* CFE_ES_GenPoolRebuild: the tail ends behind the last block found, and every
\* released block is pushed on its stack in the order of the scan.
GenPoolRebuild(desc) ==
    LET blocks == Scan(desc, StartOffset)
        Top(S) == IF S = {} THEN 0 ELSE Max(S)
        last   == Top(blocks)
    IN  [pool |-> [Tail  |-> IF last = 0 THEN StartOffset ELSE last + desc[last].bucket,
                   First |-> [b \in Bucket |-> Top(Released(desc, blocks, b))],
                   Free  |-> [b \in Bucket |-> Cardinality(Released(desc, blocks, b))]],
         desc |-> [o \in DOMAIN desc |->
                     IF o \in blocks /\ desc[o].state = "deallocated"
                     THEN [desc[o] EXCEPT !.next =
                             Top({p \in Released(desc, blocks, desc[o].bucket) : p < o})]
                     ELSE desc[o]]]

-----------------------------------------------------------------------------
\* The blocks on the free stack of bucket b.
FreeStack(pool, desc, b) ==
    LET Below[n \in Offset] ==
            IF n = 0 THEN <<pool.First[b]>>
            ELSE LET up == Below[n - 1] IN Append(up, desc[up[Len(up)]].next)
    IN  IF pool.Free[b] = 0 THEN <<>> ELSE Below[pool.Free[b] - 1]
=============================================================================
