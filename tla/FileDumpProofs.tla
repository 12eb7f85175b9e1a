--------------------------- MODULE FileDumpProofs ---------------------------
(***************************************************************************)
(* Proofs about the background file writer, for every ring size, every     *)
(* width of the counters that the ring size divides, and every set of      *)
(* requesters.                                                             *)
(***************************************************************************)
EXTENDS FileDump, TLAPS

(***************************************************************************)
(* Remainders                                                              *)
(***************************************************************************)
\* A remainder is in range, and a multiple of the divisor away.
LEMMA ModDef ==
    ASSUME NEW a \in Int, NEW n \in Nat \ {0}
    PROVE  /\ a % n \in 0..(n - 1)
           /\ \E q \in Int : a = q * n + (a % n)
<1>1. a \div n \in Int /\ a = (a \div n) * n + (a % n)
  OBVIOUS
<1>2. \E q \in Int : a = q * n + (a % n)
  BY <1>1, Zenon
<1>3. a % n \in 0..(n - 1)
  OBVIOUS
<1>. QED BY <1>2, <1>3, Zenon

\* A number in range is its own remainder, whatever multiple is added.
LEMMA ModUnique ==
    ASSUME NEW q \in Int, NEW n \in Nat \ {0}, NEW r \in 0..(n - 1)
    PROVE  (q * n + r) % n = r
  OBVIOUS

\* A remainder may be taken before an addition.
LEMMA ModAdd ==
    ASSUME NEW a \in Int, NEW b \in Int, NEW n \in Nat \ {0}
    PROVE  ((a % n) + b) % n = (a + b) % n
<1>1. PICK q \in Int : a = q * n + (a % n)
  BY ModDef, Zenon
<1>2. (a % n) + b \in Int /\ a % n \in Int /\ a + b \in Int
  BY ModDef
<1>3. PICK p \in Int : (a % n) + b = p * n + (((a % n) + b) % n)
  BY <1>2, ModDef, Zenon
<1>4. a + b = (p + q) * n + (((a % n) + b) % n)
  <2>. DEFINE x == a % n
              y == (x + b) % n
  <2>1. x \in Int /\ y \in Int /\ a = q * n + x /\ x + b = p * n + y
    BY <1>1, <1>2, <1>3, ModDef
  <2>. HIDE DEF x, y
  <2>2. a + b = (p + q) * n + y BY <2>1
  <2>. QED BY <2>2 DEF x, y
<1>5. ((a % n) + b) % n \in 0..(n - 1)
  BY <1>2, ModDef
<1>6. p + q \in Int OBVIOUS
<1>. QED BY <1>4, <1>5, <1>6, ModUnique

\* Numbers less than n apart have different remainders: the indices of a
\* window of the ring are different.
LEMMA ModInjective ==
    ASSUME NEW a \in Int, NEW b \in Int, NEW n \in Nat \ {0}, 
           a % n = b % n, a - b \in (1 - n)..(n - 1)
    PROVE  a = b
<1>1. PICK q \in Int : a = q * n + (a % n)
  BY ModDef, Zenon
<1>2. PICK p \in Int : b = p * n + (b % n)
  BY ModDef, Zenon
<1>3. a % n \in Int BY ModDef
<1>4. a - b = (q - p) * n
  BY <1>1, <1>2, <1>3
<1>. QED BY <1>4

\* Masking a counter that wrapped selects the same entry as masking the count
\* that did not, because the ring size divides the width of the counter.
LEMMA ModMod ==
    ASSUME NEW a \in Int, NEW n \in Nat \ {0}, NEW m \in Nat \ {0}, m % n = 0
    PROVE  (a % m) % n = a % n
<1>1. PICK q \in Int : a = q * m + (a % m)
  BY ModDef, Zenon
<1>2. PICK k \in Int : m = k * n
  <2>1. m \in Int OBVIOUS
  <2>2. PICK k \in Int : m = k * n + (m % n)
    BY <2>1, ModDef, Zenon
  <2>3. m = k * n BY <2>2
  <2>. QED BY <2>3
<1>3. PICK p \in Int : a % m = p * n + ((a % m) % n)
  <2>1. a % m \in Int BY ModDef
  <2>. QED BY <2>1, ModDef, Zenon
<1>4. (a % m) % n \in 0..(n - 1) BY ModDef
<1>. DEFINE r == (a % m) % n
<1>5. r \in 0..(n - 1) /\ a = q * (k * n) + (p * n + r)
  BY <1>1, <1>2, <1>3, <1>4
<1>. HIDE DEF r
<1>6. a = (q * k + p) * n + r
  BY <1>5
<1>7. q * k + p \in Int OBVIOUS
<1>8. a % n = r BY <1>5, <1>6, <1>7, ModUnique
<1>. QED BY <1>8 DEF r

-----------------------------------------------------------------------------
(***************************************************************************)
(* The inductive invariant                                                 *)
(***************************************************************************)
\* A request is in the ring once.
EntriesDistinct ==
    \A i, j \in 0..(N - 1) : Entries[i] = Entries[j] /\ Entries[i] # NULL => i = j

\* Between the locked sections the writer works on the request at the head.
WriterAtHead ==
    pc # "idle" => /\ RequestCount # CompleteCount
                   /\ Curr = IndexOf(CompleteCount)
                   /\ CurMeta = HeadMeta

\* A request that is filled in, or pending, has a file name.
NamesGiven == \A m \in Meta : IsPending[m] \/ m \in Filled => FileName[m] \in Name

\* The open file is the one the request at the head names; the writer gets to
\* its records with the file open, and retires the request with it closed.
FileInv ==
    /\ Fd # NULL => RequestCount # CompleteCount /\ FileName[HeadMeta] = Fd
    /\ pc = "write" => Fd # NULL
    /\ pc = "retire" => Fd = NULL
    /\ pc \in {"idle", "open"} => ~ IsEOF
    /\ Fd # NULL /\ ~ IsEOF => RecordNum <= LastRecord

\* A request whose file is closed without an end has been told why.
ToldInv ==
    pc = "retire" \/ (pc = "finish" /\ Fd = NULL) => Told[CurMeta] # {}

\* With no file open, or one read to its end, the debt is less than a record.
CreditInv ==
    /\ CreditBounded
    /\ Fd = NULL \/ IsEOF => \E size \in RecordSize : Credit > 0 - size

IInv ==
    /\ RingExact
    /\ EntriesDistinct
    /\ WriterAtHead
    /\ NamesGiven
    /\ FileInv
    /\ ToldInv
    /\ CreditInv

-----------------------------------------------------------------------------
(***************************************************************************)
(* The ring                                                                *)
(***************************************************************************)
\* What the constants give: the counters are at least as wide as the ring.
LEMMA Sizes ==
    /\ N \in Nat \ {0}
    /\ CountModulus \in Nat \ {0}
    /\ N <= CountModulus
    /\ 0 \in 0..(N - 1)
<1>1. N \in Nat \ {0} /\ CountModulus \in Nat \ {0} /\ CountModulus % N = 0
  BY FDAssumption DEF N
<1>2. CountModulus < N => CountModulus % N = CountModulus
  BY <1>1
<1>. QED BY <1>1, <1>2

\* The counters wrap at a multiple of the ring size.
LEMMA Divides == CountModulus % N = 0
  BY FDAssumption DEF N

\* The credits, the sizes and the names.
LEMMA Constants ==
    /\ CFE_FS_BACKGROUND_MAX_CREDIT \in Nat \ {0}
    /\ Elapsed \subseteq Nat /\ RecordSize \subseteq Nat
    /\ \E size \in RecordSize : size > 0
    /\ HeaderSize \in Nat /\ LastRecord \in Nat
    /\ NULL \notin Meta \cup Name
    /\ NamesFor \in [Meta -> SUBSET Name]
  BY FDAssumption

\* A counter that wraps still selects the next entry of the ring.
LEMMA NextIndex ==
    ASSUME NEW c \in 0..(CountModulus - 1), NEW k \in Int
    PROVE  /\ Increment(c) \in 0..(CountModulus - 1)
           /\ IndexOf(c + k) \in 0..(N - 1)
           /\ IndexOf(Increment(c) + k) = IndexOf(c + (k + 1))
<1>1. Increment(c) \in 0..(CountModulus - 1)
  BY Sizes DEF Increment
<1>2. IndexOf(c + k) \in 0..(N - 1)
  <2>1. c + k \in Int BY Sizes
  <2>. QED BY <2>1, Sizes, ModDef DEF IndexOf
<1>3. ((Increment(c) % N) + k) % N = (Increment(c) + k) % N
  BY <1>1, Sizes, ModAdd
<1>4. Increment(c) % N = (c + 1) % N
  <2>1. c + 1 \in Int BY Sizes
  <2>. QED BY <2>1, Sizes, Divides, ModMod, Zenon DEF Increment
<1>5. (((c + 1) % N) + k) % N = ((c + 1) + k) % N
  <2>1. c + 1 \in Int BY Sizes
  <2>. QED BY <2>1, Sizes, ModAdd, Zenon
<1>6. (c + 1) + k = c + (k + 1)
  BY Sizes
<1>. QED BY <1>1, <1>2, <1>3, <1>4, <1>5, <1>6 DEF IndexOf

\* The remainders of the code as additions and subtractions that wrap.
LEMMA Wraps ==
    ASSUME NEW r \in 0..(CountModulus - 1), NEW c \in 0..(CountModulus - 1)
    PROVE  /\ Increment(c) = IF c + 1 = CountModulus THEN 0 ELSE c + 1
           /\ (r - c) % CountModulus = IF r >= c THEN r - c ELSE r - c + CountModulus
           /\ (c + N) % CountModulus = IF c + N < CountModulus THEN c + N
                                       ELSE c + N - CountModulus
<1>. DEFINE M == CountModulus
<1>1. r < c => (r - c) % M = r - c + M
  <2>1. r < c => r - c + M \in 0..(M - 1) /\ (0 - 1) * M + (r - c + M) = r - c
    BY Sizes
  <2>. QED BY <2>1, Sizes, ModUnique
<1>2. c + N >= M => (c + N) % M = c + N - M
  <2>1. c + N >= M => c + N - M \in 0..(M - 1) /\ 1 * M + (c + N - M) = c + N
    BY Sizes
  <2>. QED BY <2>1, Sizes, ModUnique
<1>3. c + 1 = M => (c + 1) % M = 0
  BY Sizes
<1>. QED BY <1>1, <1>2, <1>3, Sizes DEF Increment

\* RequestCount is CompleteCount and the outstanding requests.
LEMMA OutstandingFacts ==
    ASSUME RequestCount \in 0..(CountModulus - 1),
           CompleteCount \in 0..(CountModulus - 1)
    PROVE  /\ Outstanding \in 0..(CountModulus - 1)
           /\ IndexOf(RequestCount) = IndexOf(CompleteCount + Outstanding)
           /\ Outstanding = 0 <=> RequestCount = CompleteCount
<1>. DEFINE R == RequestCount
            C == CompleteCount
            M == CountModulus
<1>1. Outstanding = IF R >= C THEN R - C ELSE R - C + M
  BY Wraps, Zenon DEF Outstanding
<1>2. Outstanding \in 0..(M - 1)
  BY <1>1, Sizes
<1>3. (C + Outstanding) % M = R
  <2>1. CASE R >= C
    <3>1. C + Outstanding = R BY <1>1, <2>1, Sizes
    <3>. QED BY <3>1, Sizes
  <2>2. CASE R < C
    <3>1. C + Outstanding = 1 * M + R BY <1>1, <2>2, Sizes
    <3>. QED BY <3>1, Sizes, ModUnique
  <2>. QED BY <2>1, <2>2, Sizes
<1>4. IndexOf(R) = IndexOf(C + Outstanding)
  <2>1. C + Outstanding \in Int BY <1>2, Sizes
  <2>. QED BY <2>1, <1>3, Sizes, Divides, ModMod, Zenon DEF IndexOf
<1>. QED BY <1>1, <1>2, <1>4, Sizes

\* Two entries of the ring that are less than N apart are different.
LEMMA IndicesDiffer ==
    ASSUME NEW c \in 0..(CountModulus - 1), NEW j \in 0..(N - 1), NEW k \in 0..(N - 1),
           IndexOf(c + j) = IndexOf(c + k)
    PROVE  j = k
<1>1. c + j \in Int /\ c + k \in Int /\ (c + j) - (c + k) \in (1 - N)..(N - 1)
  BY Sizes
<1>2. c + j = c + k
  BY <1>1, Sizes, ModInjective, Zenon DEF IndexOf
<1>. QED BY <1>2, Sizes

\* CFE_FS_BackgroundFileDumpRequest accepts only while an entry is left over.
LEMMA AcceptCounts ==
    ASSUME RequestCount \in 0..(CountModulus - 1),
           CompleteCount \in 0..(CountModulus - 1),
           Outstanding <= N - 1, ~ QueueFull,
           RequestCount' = Increment(RequestCount),
           UNCHANGED CompleteCount
    PROVE  Outstanding < N - 1 /\ Outstanding' = Outstanding + 1
<1>. DEFINE R == RequestCount
            C == CompleteCount
            M == CountModulus
<1>1. Outstanding = IF R >= C THEN R - C ELSE R - C + M
  BY Wraps, Zenon DEF Outstanding
<1>2. Increment(R) = (IF R + 1 = M THEN 0 ELSE R + 1) /\ Increment(R) \in 0..(M - 1)
  BY Wraps, Sizes
<1>3. Outstanding < N - 1
  <2>1. (C + N) % M = IF C + N < M THEN C + N ELSE C + N - M
    BY Wraps
  <2>2. Increment(R) # (IF C + N < M THEN C + N ELSE C + N - M)
    BY <2>1 DEF QueueFull
  <2>. QED BY <1>1, <1>2, <2>2, Sizes
<1>4. Outstanding' = IF R' >= C THEN R' - C ELSE R' - C + M
  BY <1>2, Wraps, Zenon DEF Outstanding
<1>. QED BY <1>1, <1>2, <1>3, <1>4, Sizes

\* Retiring a request takes one off the outstanding ones.
LEMMA RetireCounts ==
    ASSUME RequestCount \in 0..(CountModulus - 1),
           CompleteCount \in 0..(CountModulus - 1),
           RequestCount # CompleteCount,
           CompleteCount' = Increment(CompleteCount),
           UNCHANGED RequestCount
    PROVE  Outstanding > 0 /\ Outstanding' = Outstanding - 1
<1>. DEFINE R == RequestCount
            C == CompleteCount
            M == CountModulus
<1>1. Outstanding = IF R >= C THEN R - C ELSE R - C + M
  BY Wraps, Zenon DEF Outstanding
<1>2. Increment(C) = (IF C + 1 = M THEN 0 ELSE C + 1) /\ Increment(C) \in 0..(M - 1)
  BY Wraps, Sizes
<1>3. Outstanding' = IF R >= C' THEN R - C' ELSE R - C' + M
  BY <1>2, Wraps, Zenon DEF Outstanding
<1>. QED BY <1>1, <1>2, <1>3, Sizes

-----------------------------------------------------------------------------
(***************************************************************************)
(* The steps                                                               *)
(***************************************************************************)
\* The request at the head is pending, and it is the one the writer works on.
LEMMA HeadPending ==
    ASSUME IInv, RequestCount # CompleteCount
    PROVE  /\ IndexOf(CompleteCount) \in 0..(N - 1)
           /\ HeadMeta \in Meta
           /\ IsPending[HeadMeta]
           /\ FileName[HeadMeta] \in Name
<1>1. Outstanding > 0 /\ Outstanding \in Int
  BY OutstandingFacts, Sizes DEF IInv, RingExact, TypeOK
<1>2. IndexOf(CompleteCount) = IndexOf(CompleteCount + 0) /\ 0 \in 0..(Outstanding - 1)
  BY <1>1, Sizes DEF IInv, RingExact, TypeOK
<1>3. IndexOf(CompleteCount) \in 0..(N - 1)
  BY <1>2, NextIndex DEF IInv, RingExact, TypeOK
<1>4. HeadMeta # NULL
  BY <1>2, <1>3 DEF IInv, RingExact, HeadMeta
<1>5. HeadMeta \in Meta
  BY <1>3, <1>4 DEF IInv, RingExact, TypeOK, HeadMeta
<1>6. IsPending[HeadMeta]
  BY <1>3, <1>5 DEF IInv, RingExact, HeadMeta
<1>. QED BY <1>3, <1>5, <1>6 DEF IInv, NamesGiven

\* Every step keeps the types: the counters in their width, the record number
\* within the getter's records.
LEMMA TypesStep ==
    ASSUME IInv, [Next]_vars
    PROVE  TypeOK'
<1>. USE Constants DEF IInv, RingExact, TypeOK
<1>1. ASSUME NEW m \in Meta, NEW n \in NamesFor[m], FillRequest(m, n)
      PROVE  TypeOK'
  BY <1>1 DEF FillRequest, ring, file, meta, writer
<1>2. ASSUME NEW m \in Meta, BackgroundFileDumpRequest(m)
      PROVE  TypeOK'
  <2>1. Increment(RequestCount) \in 0..(CountModulus - 1)
    BY NextIndex
  <2>. QED BY <1>2, <2>1, Zenon DEF BackgroundFileDumpRequest, ring, file, meta, writer
<1>3. ASSUME NEW m \in Meta, RequestRefused(m)
      PROVE  TypeOK'
  BY <1>3 DEF RequestRefused, ring, file, meta, writer
<1>4. ASSUME NEW e \in Elapsed, RunIdle(e)
      PROVE  TypeOK'
  <2>1. Earn(e) \in Int
    BY DEF Earn
  <2>. QED BY <1>4, <2>1, Zenon DEF RunIdle, ring, file, meta, writer
<1>5. ASSUME NEW e \in Elapsed, RunStart(e)
      PROVE  TypeOK'
  <2>1. IndexOf(CompleteCount) \in 0..(N - 1) /\ HeadMeta \in Meta
    BY <1>5, HeadPending DEF RunStart
  <2>2. Earn(e) \in Int
    BY DEF Earn
  <2>. QED BY <1>5, <2>1, <2>2, Zenon DEF RunStart, HeadMeta, ring, file, meta, writer
<1>6. CASE OpenFile
  <2>1. FileName[CurMeta] \in Name
    BY <1>6, HeadPending DEF OpenFile, WriterAtHead
  <2>. QED BY <1>6, <2>1 DEF OpenFile, ring, file, meta, writer
<1>7. CASE OpenAlready
  BY <1>7 DEF OpenAlready, ring, file, meta, writer
<1>8. ASSUME NEW event \in {"CREATE_ERROR", "HEADER_WRITE_ERROR"}, OpenError(event)
      PROVE  TypeOK'
  BY <1>8, Zenon DEF OpenError, Tell, Event, ring, file, meta, writer
<1>9. ASSUME NEW size \in RecordSize, WriteRecord(size)
      PROVE  TypeOK'
  <2>1. RecordNum <= LastRecord
    BY <1>9 DEF WriteRecord, MayWrite, FileInv
  <2>2. Credit - size \in Int /\ RecordNum + 1 \in 0..(LastRecord + 1)
    BY <2>1
  <2>. QED BY <1>9, <2>2 DEF WriteRecord, ring, file, meta, writer
<1>10. ASSUME NEW size \in RecordSize, WriteError(size)
       PROVE  TypeOK'
  <2>1. Credit - size \in Int
    OBVIOUS
  <2>2. Told' \in [Meta -> SUBSET Event]
    BY <1>10, Zenon DEF WriteError, Tell, Event
  <2>. QED BY <1>10, <2>1, <2>2 DEF WriteError, ring, file, meta, writer
<1>11. CASE WriteEnd
  BY <1>11 DEF WriteEnd, ring, file, meta, writer
<1>12. CASE FinishComplete
  BY <1>12, Zenon DEF FinishComplete, Tell, Event, ring, file, meta, writer
<1>13. CASE FinishFailed
  BY <1>13 DEF FinishFailed, ring, file, meta, writer
<1>14. CASE FinishSlice
  BY <1>14, Sizes, Zenon DEF FinishSlice, Return, ring, file, meta, writer
<1>15. CASE Retire
  <2>1. Increment(CompleteCount) \in 0..(CountModulus - 1)
    BY NextIndex
  <2>. QED BY <1>15, <2>1, Sizes, Zenon DEF Retire, Return, ring, file, meta, writer
<1>16. CASE UNCHANGED vars
  BY <1>16 DEF vars, ring, file, meta, writer
<1>. QED BY <1>1, <1>2, <1>3, <1>4, <1>5, <1>6, <1>7, <1>8, <1>9, <1>10, <1>11,
            <1>12, <1>13, <1>14, <1>15, <1>16, Zenon DEF Next, Command, Write

\* The ring without its types.
RingInv ==
    /\ Outstanding <= N - 1
    /\ \A i \in 0..(N - 1) :
         Entries[i] # NULL <=>
             \E k \in 0..(Outstanding - 1) : i = IndexOf(CompleteCount + k)
    /\ \A m \in Meta : IsPending[m] <=> \E i \in 0..(N - 1) : Entries[i] = m
    /\ EntriesDistinct

\* An accepted request takes the entry after the last one in use.
LEMMA RequestRing ==
    ASSUME IInv, NEW m \in Meta, BackgroundFileDumpRequest(m)
    PROVE  RingInv'
<1>. DEFINE w == IndexOf(RequestCount)
<1>. USE DEF IInv, RingExact
<1>1. Outstanding \in 0..(N - 1) /\ Outstanding < N - 1 /\ Outstanding' = Outstanding + 1
  BY AcceptCounts, OutstandingFacts, Sizes DEF BackgroundFileDumpRequest, TypeOK
<1>2. w \in 0..(N - 1) /\ w = IndexOf(CompleteCount + Outstanding)
  BY <1>1, OutstandingFacts, NextIndex, Sizes DEF TypeOK
<1>3. Entries[w] = NULL
  <2>1. SUFFICES ASSUME NEW k \in 0..(Outstanding - 1), w = IndexOf(CompleteCount + k)
                 PROVE  FALSE
    BY <1>2
  <2>2. k \in 0..(N - 1) /\ k # Outstanding
    BY <1>1, Sizes
  <2>. QED BY <1>1, <1>2, <2>1, <2>2, IndicesDiffer DEF TypeOK
<1>4. /\ Entries' = [Entries EXCEPT ![w] = m]
      /\ IsPending' = [IsPending EXCEPT ![m] = TRUE]
      /\ CompleteCount' = CompleteCount
      /\ ~ IsPending[m]
  BY DEF BackgroundFileDumpRequest
<1>5. ASSUME NEW i \in 0..(N - 1)
      PROVE  Entries'[i] # NULL <=> \E k \in 0..(Outstanding' - 1) : i = IndexOf(CompleteCount' + k)
  <2>1. CASE i = w
    <3>1. Outstanding \in 0..(Outstanding' - 1)
      BY <1>1, Sizes
    <3>2. Entries'[i] # NULL
      BY <2>1, <1>4, Constants DEF TypeOK
    <3>. QED BY <3>1, <3>2, <2>1, <1>2, <1>4
  <2>2. CASE i # w
    <3>1. Entries'[i] = Entries[i]
      BY <2>2, <1>4 DEF TypeOK
    <3>2. \A k : k \in 0..(Outstanding' - 1) <=> k \in 0..(Outstanding - 1) \/ k = Outstanding
      BY <1>1, Sizes
    <3>. QED BY <3>1, <3>2, <2>2, <1>2, <1>4
  <2>. QED BY <2>1, <2>2
<1>6. \A n \in Meta : IsPending'[n] <=> \E i \in 0..(N - 1) : Entries'[i] = n
  BY <1>2, <1>3, <1>4, Constants DEF TypeOK
<1>7. EntriesDistinct'
  BY <1>2, <1>4 DEF TypeOK, EntriesDistinct
<1>8. Outstanding' <= N - 1
  BY <1>1, Sizes
<1>. QED BY <1>5, <1>6, <1>7, <1>8 DEF RingInv

\* Retiring the head wipes its entry and no other.
LEMMA RetireRing ==
    ASSUME IInv, Retire
    PROVE  RingInv'
<1>. DEFINE h == IndexOf(CompleteCount)
<1>. USE DEF IInv, RingExact
<1>1. /\ RequestCount # CompleteCount
      /\ Entries' = [Entries EXCEPT ![h] = NULL]
      /\ IsPending' = [IsPending EXCEPT ![HeadMeta] = FALSE]
      /\ CompleteCount' = Increment(CompleteCount)
      /\ RequestCount' = RequestCount
  BY DEF Retire, WriterAtHead
<1>2. /\ Outstanding \in 1..(N - 1) /\ Outstanding' = Outstanding - 1
  BY <1>1, RetireCounts, OutstandingFacts, Sizes DEF TypeOK
<1>3. h \in 0..(N - 1) /\ HeadMeta \in Meta /\ h = IndexOf(CompleteCount + 0)
  BY <1>1, HeadPending, Sizes DEF TypeOK
<1>4. ASSUME NEW i \in 0..(N - 1)
      PROVE  Entries'[i] # NULL <=> \E k \in 0..(Outstanding' - 1) : i = IndexOf(CompleteCount' + k)
  <2>1. ASSUME NEW k \in 0..(Outstanding' - 1)
        PROVE  IndexOf(CompleteCount' + k) = IndexOf(CompleteCount + (k + 1))
    <3>1. k \in Int BY <1>2
    <3>. QED BY <3>1, <1>1, NextIndex DEF TypeOK
  <2>2. CASE i = h
    <3>1. ASSUME NEW k \in 0..(Outstanding' - 1), i = IndexOf(CompleteCount' + k)
          PROVE  FALSE
      <4>1. k + 1 \in 0..(N - 1) /\ 0 \in 0..(N - 1) /\ k + 1 # 0
        BY <1>2, Sizes
      <4>2. IndexOf(CompleteCount + (k + 1)) = IndexOf(CompleteCount + 0)
        BY <3>1, <2>1, <2>2, <1>3
      <4>. QED BY <4>1, <4>2, IndicesDiffer DEF TypeOK
    <3>2. Entries'[i] = NULL
      BY <2>2, <1>1, <1>3 DEF TypeOK
    <3>. QED BY <3>1, <3>2
  <2>3. CASE i # h
    <3>1. Entries'[i] = Entries[i]
      BY <2>3, <1>1 DEF TypeOK
    <3>2. ASSUME NEW k \in 0..(Outstanding - 1), i = IndexOf(CompleteCount + k)
          PROVE  \E j \in 0..(Outstanding' - 1) : i = IndexOf(CompleteCount' + j)
      <4>1. k # 0 /\ k - 1 \in 0..(Outstanding' - 1) /\ (k - 1) + 1 = k
        BY <3>2, <2>3, <1>2, <1>3
      <4>2. i = IndexOf(CompleteCount' + (k - 1))
        BY <3>2, <4>1, <2>1
      <4>. QED BY <4>1, <4>2
    <3>3. ASSUME NEW j \in 0..(Outstanding' - 1), i = IndexOf(CompleteCount' + j)
          PROVE  \E k \in 0..(Outstanding - 1) : i = IndexOf(CompleteCount + k)
      <4>1. j + 1 \in 0..(Outstanding - 1)
        BY <1>2
      <4>. QED BY <4>1, <3>3, <2>1
    <3>. QED BY <3>1, <3>2, <3>3
  <2>. QED BY <2>2, <2>3
<1>5. \A n \in Meta : IsPending'[n] <=> \E i \in 0..(N - 1) : Entries'[i] = n
  BY <1>1, <1>3, Constants DEF TypeOK, EntriesDistinct, HeadMeta
<1>6. EntriesDistinct'
  BY <1>1 DEF TypeOK, EntriesDistinct
<1>7. Outstanding' <= N - 1
  BY <1>2, Sizes
<1>. QED BY <1>4, <1>5, <1>6, <1>7 DEF RingInv

\* The steps that leave the ring and the pending flags alone.
LEMMA RingSame ==
    ASSUME IInv, UNCHANGED <<ring, IsPending>>
    PROVE  RingInv'
  BY DEF IInv, RingExact, RingInv, EntriesDistinct, Outstanding, ring

\* Every step keeps the ring exact.
LEMMA RingStep ==
    ASSUME IInv, [Next]_vars
    PROVE  RingInv'
<1>1. ASSUME NEW m \in Meta, BackgroundFileDumpRequest(m)
      PROVE  RingInv'
  BY <1>1, RequestRing
<1>2. CASE Retire
  BY <1>2, RetireRing
<1>3. ASSUME ~ Retire, ~ \E m \in Meta : BackgroundFileDumpRequest(m)
      PROVE  UNCHANGED <<ring, IsPending>>
  BY <1>3, Zenon DEF Next, Command, FillRequest, RequestRefused, RunIdle, RunStart, Write,
     OpenFile, OpenAlready, OpenError, WriteRecord, WriteError, WriteEnd,
     FinishComplete, FinishFailed, FinishSlice, vars, ring, meta
<1>. QED BY <1>1, <1>2, <1>3, RingSame

\* Requesters fill in objects that are not pending, and with a name.
LEMMA NamesStep ==
    ASSUME IInv, [Next]_vars
    PROVE  NamesGiven'
<1>. USE DEF IInv, RingExact, TypeOK, NamesGiven
<1>1. ASSUME NEW m \in Meta, NEW n \in NamesFor[m], FillRequest(m, n)
      PROVE  NamesGiven'
  BY <1>1, Constants, Zenon DEF FillRequest
<1>2. ASSUME NEW m \in Meta, BackgroundFileDumpRequest(m)
      PROVE  NamesGiven'
  BY <1>2 DEF BackgroundFileDumpRequest
<1>3. ASSUME NEW m \in Meta, RequestRefused(m)
      PROVE  NamesGiven'
  BY <1>3 DEF RequestRefused, meta
<1>4. CASE Retire
  BY <1>4 DEF Retire
<1>5. CASE UNCHANGED <<IsPending, FileName, Filled>>
  BY <1>5
<1>6. ASSUME Next, ~ Command, ~ Retire
      PROVE  UNCHANGED <<IsPending, FileName, Filled>>
  BY <1>6, Zenon DEF Next, RunIdle, RunStart, Write, OpenFile, OpenAlready, OpenError,
     WriteRecord, WriteError, WriteEnd, FinishComplete, FinishFailed, FinishSlice, meta
<1>7. UNCHANGED vars => UNCHANGED <<IsPending, FileName, Filled>>
  BY DEF vars, meta
<1>. QED BY <1>1, <1>2, <1>3, <1>4, <1>5, <1>6, <1>7, Zenon DEF Next, Command

\* The request at the head stays where it is while others are accepted.
LEMMA HeadKept ==
    ASSUME IInv, NEW m \in Meta, BackgroundFileDumpRequest(m), RequestCount # CompleteCount
    PROVE  RequestCount' # CompleteCount' /\ HeadMeta' = HeadMeta
<1>. USE DEF IInv, RingExact, TypeOK
<1>1. /\ Entries' = [Entries EXCEPT ![IndexOf(RequestCount)] = m]
      /\ CompleteCount' = CompleteCount
      /\ RequestCount' = Increment(RequestCount)
  BY DEF BackgroundFileDumpRequest
<1>2. Outstanding \in 1..(N - 1) /\ Outstanding' = Outstanding + 1
  BY AcceptCounts, OutstandingFacts, Sizes DEF BackgroundFileDumpRequest
<1>3. RequestCount' # CompleteCount'
  <2>1. RequestCount' \in 0..(CountModulus - 1) /\ CompleteCount' \in 0..(CountModulus - 1)
    BY <1>1, NextIndex
  <2>2. RequestCount' = CompleteCount' => Outstanding' = 0
    <3>1. \A c \in 0..(CountModulus - 1) : (c - c) % CountModulus = 0
      BY Wraps, Sizes
    <3>. QED BY <2>1, <3>1 DEF Outstanding
  <2>. QED BY <2>2, <1>2
<1>4. IndexOf(RequestCount) # IndexOf(CompleteCount)
  <2>1. /\ IndexOf(RequestCount) = IndexOf(CompleteCount + Outstanding)
        /\ IndexOf(CompleteCount) = IndexOf(CompleteCount + 0)
        /\ Outstanding \in 0..(N - 1) /\ 0 \in 0..(N - 1) /\ Outstanding # 0
    BY <1>2, OutstandingFacts, Sizes
  <2>. QED BY <2>1, IndicesDiffer
<1>5. IndexOf(CompleteCount) \in 0..(N - 1)
  BY HeadPending
<1>. QED BY <1>1, <1>3, <1>4, <1>5 DEF HeadMeta

\* Commands leave the writer's entry and file alone.
LEMMA CommandStep ==
    ASSUME IInv, Command
    PROVE  WriterAtHead' /\ FileInv' /\ ToldInv' /\ CreditInv'
<1>. USE DEF IInv, RingExact, TypeOK
<1>1. ASSUME NEW m \in Meta, NEW n \in NamesFor[m], FillRequest(m, n)
      PROVE  WriterAtHead' /\ FileInv' /\ ToldInv' /\ CreditInv'
  <2>1. UNCHANGED <<ring, file, Told, writer>> /\ FileName' = [FileName EXCEPT ![m] = n]
        /\ ~ IsPending[m]
    BY <1>1 DEF FillRequest
  <2>2. RequestCount # CompleteCount => FileName'[HeadMeta] = FileName[HeadMeta]
    BY <2>1, HeadPending
  <2>3. HeadMeta' = HeadMeta
    BY <2>1 DEF HeadMeta, ring
  <2>. QED BY <2>1, <2>2, <2>3
           DEF WriterAtHead, FileInv, ToldInv, CreditInv, CreditBounded, ring, file, writer
<1>2. ASSUME NEW m \in Meta, BackgroundFileDumpRequest(m)
      PROVE  WriterAtHead' /\ FileInv' /\ ToldInv' /\ CreditInv'
  <2>1. UNCHANGED <<CompleteCount, file, FileName, Told, writer>>
    BY <1>2 DEF BackgroundFileDumpRequest
  <2>2. RequestCount # CompleteCount =>
            RequestCount' # CompleteCount' /\ HeadMeta' = HeadMeta
    BY <1>2, HeadKept
  <2>. QED BY <2>1, <2>2
           DEF WriterAtHead, FileInv, ToldInv, CreditInv, CreditBounded, file, writer
<1>3. ASSUME NEW m \in Meta, RequestRefused(m)
      PROVE  WriterAtHead' /\ FileInv' /\ ToldInv' /\ CreditInv'
  BY <1>3 DEF RequestRefused, WriterAtHead, FileInv, ToldInv, CreditInv, CreditBounded,
              HeadMeta, ring, file, meta, writer
<1>. QED BY <1>1, <1>2, <1>3 DEF Command

\* Earning credit never makes a debt worse.
LEMMA EarnMore ==
    ASSUME IInv, NEW e \in Elapsed, Credit' = Earn(e), NEW d \in Nat, Credit > 0 - d
    PROVE  Credit' > 0 - d
  BY Constants DEF Earn, IInv, RingExact, TypeOK

\* The calls that find the ring empty, and that find a request.
LEMMA RunStep ==
    ASSUME IInv, NEW e \in Elapsed, RunIdle(e) \/ RunStart(e)
    PROVE  WriterAtHead' /\ FileInv' /\ ToldInv' /\ CreditInv'
<1>. USE DEF IInv, RingExact, TypeOK
<1>1. Credit' = Earn(e) /\ UNCHANGED <<ring, Fd, RecordNum, meta>> /\ pc = "idle"
  BY DEF RunIdle, RunStart
<1>2. HeadMeta' = HeadMeta
  BY <1>1 DEF HeadMeta, ring
<1>3. CreditInv'
  <2>1. CreditBounded'
    <3>1. PICK size \in RecordSize : Credit > 0 - (HeaderSize + size)
      BY DEF CreditInv, CreditBounded
    <3>2. HeaderSize + size \in Nat
      BY Constants
    <3>3. Credit' > 0 - (HeaderSize + size)
      BY <1>1, <3>1, <3>2, EarnMore
    <3>. QED BY <3>3 DEF CreditBounded
  <2>2. ~ IsEOF /\ ~ IsEOF'
    BY <1>1 DEF FileInv, RunIdle, RunStart
  <2>3. ASSUME Fd = NULL
        PROVE  \E size \in RecordSize : Credit' > 0 - size
    <3>1. PICK size \in RecordSize : Credit > 0 - size
      BY <2>3 DEF CreditInv
    <3>2. Credit' > 0 - size
      BY <1>1, <3>1, EarnMore, Constants
    <3>. QED BY <3>2
  <2>. QED BY <2>1, <2>2, <2>3, <1>1 DEF CreditInv
<1>4. WriterAtHead' /\ FileInv' /\ ToldInv'
  BY <1>1, <1>2 DEF RunIdle, RunStart, WriterAtHead, FileInv, ToldInv, HeadMeta, ring, meta
<1>. QED BY <1>3, <1>4

\* The file is opened for the request at the head; the header is charged once.
LEMMA OpenStep ==
    ASSUME IInv,
           \/ OpenFile \/ OpenAlready
           \/ \E event \in {"CREATE_ERROR", "HEADER_WRITE_ERROR"} : OpenError(event)
    PROVE  WriterAtHead' /\ FileInv' /\ ToldInv' /\ CreditInv'
<1>. USE DEF IInv, RingExact, TypeOK
<1>1. /\ pc = "open" /\ UNCHANGED <<ring, FileName, Curr, CurMeta, IsEOF>> /\ ~ IsEOF
      /\ RequestCount # CompleteCount /\ CurMeta = HeadMeta /\ HeadMeta' = HeadMeta
  BY Zenon DEF OpenFile, OpenAlready, OpenError, WriterAtHead, FileInv, HeadMeta, ring, meta
<1>2. IsPending[CurMeta] /\ FileName[CurMeta] \in Name /\ CurMeta \in Meta
  BY <1>1, HeadPending
<1>3. WriterAtHead'
  BY <1>1 DEF WriterAtHead, ring
<1>4. FileInv'
  BY <1>1, <1>2, Constants DEF OpenFile, OpenAlready, OpenError, FileInv, ring, file, meta
<1>5. ToldInv'
  <2>1. CASE OpenFile \/ OpenAlready
    BY <2>1, Zenon DEF OpenFile, OpenAlready, ToldInv
  <2>2. ASSUME NEW event \in {"CREATE_ERROR", "HEADER_WRITE_ERROR"}, OpenError(event)
        PROVE  ToldInv'
    BY <2>2, <1>1, <1>2 DEF OpenError, Tell, ToldInv
  <2>. QED BY <2>1, <2>2
<1>6. CreditInv'
  <2>1. CASE OpenFile
    <3>1. PICK size \in RecordSize : Credit > 0 - size
      BY <2>1 DEF OpenFile, CreditInv
    <3>2. Credit' > 0 - (HeaderSize + size)
      BY <3>1, <2>1, Constants DEF OpenFile
    <3>3. Fd' # NULL /\ ~ IsEOF'
      BY <2>1, <1>1, <1>2, Constants DEF OpenFile
    <3>. QED BY <3>2, <3>3 DEF CreditInv, CreditBounded
  <2>2. CASE ~ OpenFile
    BY <2>2, <1>1 DEF OpenAlready, OpenError, CreditInv, CreditBounded, file
  <2>. QED BY <2>1, <2>2
<1>. QED BY <1>3, <1>4, <1>5, <1>6

\* A record is written only with credit left, so it leaves less debt than itself.
LEMMA WriteStep ==
    ASSUME IInv,
           WriteEnd \/ \E size \in RecordSize : WriteRecord(size) \/ WriteError(size)
    PROVE  WriterAtHead' /\ FileInv' /\ ToldInv' /\ CreditInv'
<1>. USE DEF IInv, RingExact, TypeOK
<1>1. /\ pc = "write" /\ Fd # NULL /\ UNCHANGED <<ring, FileName, Curr, CurMeta>>
      /\ RequestCount # CompleteCount /\ CurMeta = HeadMeta /\ HeadMeta' = HeadMeta
  BY Zenon DEF WriteEnd, WriteRecord, WriteError, WriterAtHead, FileInv, HeadMeta, ring, meta
<1>2. CurMeta \in Meta
  BY <1>1, HeadPending
<1>3. WriterAtHead'
  BY <1>1 DEF WriterAtHead, ring
<1>4. CASE WriteEnd
  <2>1. FileInv' /\ ToldInv'
    BY <1>1, <1>4 DEF WriteEnd, FileInv, ToldInv, ring, file, meta
  <2>2. CreditInv'
    BY <1>4 DEF WriteEnd, CreditInv, CreditBounded, file
  <2>. QED BY <1>3, <2>1, <2>2
<1>5. ASSUME NEW size \in RecordSize, WriteRecord(size) \/ WriteError(size)
      PROVE  FileInv' /\ ToldInv' /\ CreditInv'
  <2>1. Credit > 0 /\ Credit' = Credit - size
    BY <1>5 DEF WriteRecord, WriteError, MayWrite
  <2>2. Credit' > 0 - size /\ Credit' > 0 - (HeaderSize + size)
    BY <2>1, Constants
  <2>3. CreditInv'
    BY <2>2 DEF CreditInv, CreditBounded
  <2>4. CASE WriteRecord(size)
    <3>1. /\ Fd' = Fd /\ pc' = "write" /\ RecordNum' = RecordNum + 1
          /\ IsEOF' = (RecordNum >= LastRecord)
      BY <2>4 DEF WriteRecord
    <3>2. RecordNum >= LastRecord \/ RecordNum + 1 <= LastRecord
      BY Constants
    <3>3. ~ IsEOF' => RecordNum' <= LastRecord
      BY <3>1, <3>2, Zenon
    <3>. QED BY <3>1, <3>3, <2>3, <1>1 DEF FileInv, ToldInv, ring
  <2>5. CASE WriteError(size)
    <3>1. Fd' = NULL /\ pc' = "finish" /\ Told'[CurMeta] # {}
      BY <2>5, <1>2 DEF WriteError, Tell
    <3>. QED BY Zenon, <3>1, <2>3, <1>1 DEF FileInv, ToldInv
  <2>. QED BY <1>5, <2>4, <2>5
<1>. QED BY <1>3, <1>4, <1>5

\* The end of a slice, of a file and of a request.
LEMMA FinishStep ==
    ASSUME IInv, FinishComplete \/ FinishFailed \/ FinishSlice \/ Retire
    PROVE  WriterAtHead' /\ FileInv' /\ ToldInv' /\ CreditInv'
<1>. USE DEF IInv, RingExact, TypeOK
<1>1. /\ RequestCount # CompleteCount /\ CurMeta = HeadMeta /\ CurMeta \in Meta
  BY HeadPending, Zenon DEF FinishComplete, FinishFailed, FinishSlice, Retire, WriterAtHead
<1>2. CASE FinishComplete
  BY <1>1, <1>2, Zenon DEF FinishComplete, Tell, WriterAtHead, FileInv, ToldInv, CreditInv,
                    CreditBounded, HeadMeta, ring
<1>3. CASE FinishFailed
  BY <1>1, <1>3 DEF FinishFailed, WriterAtHead, FileInv, ToldInv, CreditInv,
                    CreditBounded, HeadMeta, ring, file, meta
<1>4. CASE FinishSlice
  BY <1>1, <1>4 DEF FinishSlice, Return, WriterAtHead, FileInv, ToldInv, CreditInv,
                    CreditBounded, HeadMeta, ring, file, meta
<1>5. CASE Retire
  BY <1>1, <1>5 DEF Retire, Return, WriterAtHead, FileInv, ToldInv, CreditInv,
                    CreditBounded, HeadMeta, file
<1>. QED BY <1>2, <1>3, <1>4, <1>5

\* The inductive invariant holds at the start: the ring is empty, nothing is open.
LEMMA InitIInv == Init => IInv
<1>. SUFFICES ASSUME Init PROVE IInv
  OBVIOUS
<1>. USE DEF Init
<1>1. TypeOK
  <2>1. /\ 0 \in 0..(CountModulus - 1) /\ 0 \in 0..(N - 1)
        /\ 0 \in 0..(LastRecord + 1) /\ 0 \in Int
    BY Constants, Sizes
  <2>. QED BY <2>1, Zenon DEF TypeOK
<1>2. Outstanding = 0
  BY OutstandingFacts, <1>1 DEF TypeOK
<1>3. RingExact
  <2>1. Outstanding <= N - 1 /\ 0..(Outstanding - 1) = {}
    BY <1>2, Sizes
  <2>2. \A i \in 0..(N - 1) : Entries[i] = NULL
    OBVIOUS
  <2>3. \A m \in Meta : ~ IsPending[m] /\ m # NULL
    BY Constants
  <2>. QED BY <1>1, <2>1, <2>2, <2>3 DEF RingExact
<1>4. EntriesDistinct /\ WriterAtHead /\ NamesGiven /\ FileInv /\ ToldInv
  BY DEF EntriesDistinct, WriterAtHead, NamesGiven, FileInv, ToldInv
<1>5. CreditInv
  <2>1. PICK size \in RecordSize : size > 0
    BY Constants
  <2>2. Credit > 0 - size /\ Credit > 0 - (HeaderSize + size)
    BY <2>1, Constants
  <2>. QED BY <2>2 DEF CreditInv, CreditBounded
<1>. QED BY <1>3, <1>4, <1>5 DEF IInv

\* Each step of a requester and of the writer keeps the invariant.
LEMMA NextIInv == IInv /\ [Next]_vars => IInv'
<1>. SUFFICES ASSUME IInv, [Next]_vars PROVE IInv'
  OBVIOUS
<1>1. RingExact' /\ EntriesDistinct'
  BY TypesStep, RingStep DEF RingExact, RingInv
<1>2. NamesGiven'
  BY NamesStep
<1>3. WriterAtHead' /\ FileInv' /\ ToldInv' /\ CreditInv'
  <2>1. CASE Next
    BY <2>1, CommandStep, RunStep, OpenStep, WriteStep, FinishStep DEF Next, Write
  <2>2. CASE UNCHANGED vars
    BY <2>2 DEF IInv, WriterAtHead, FileInv, ToldInv, CreditInv, CreditBounded, HeadMeta,
                vars, ring, file, meta, writer
  <2>. QED BY <2>1, <2>2
<1>. QED BY <1>1, <1>2, <1>3 DEF IInv

\* The inductive invariant holds in every state.
LEMMA IInvHolds == Spec => []IInv
  BY InitIInv, NextIInv, PTL DEF Spec

-----------------------------------------------------------------------------
(***************************************************************************)
(* The theorems                                                            *)
(***************************************************************************)
\* However many requests are accepted and retired, and also when the counters
\* wrap, the entries in use are the ones from CompleteCount to RequestCount, no
\* request overwrites another, and IsPending, which requesters read without the
\* lock, tells exactly which requests are in the ring.
THEOREM RingIsExact == Spec => []RingExact
<1>1. IInv => RingExact
  BY DEF IInv
<1>. QED BY <1>1, IInvHolds, PTL

\* The file that stays open between calls of CFE_FS_RunBackgroundFileDump is the
\* one that the request at the head names.
THEOREM FilesStayNamed == Spec => []FileStaysNamed
<1>1. IInv => FileStaysNamed
  BY HeadPending, Constants DEF IInv, FileInv, FileStaysNamed
<1>. QED BY <1>1, IInvHolds, PTL

\* The writer never owes more than a header and a record.
THEOREM CreditIsBounded == Spec => []CreditBounded
<1>1. IInv => CreditBounded
  BY DEF IInv, CreditInv
<1>. QED BY <1>1, IInvHolds, PTL

\* Only the last locked section of the writer clears IsPending, and by then
\* OnEvent has told the requester how the request ended.
THEOREM EndsAreTold == Spec => NoSilentEnd
<1>1. ASSUME IInv, [Next]_vars, NEW m \in Meta, IsPending[m], ~ IsPending'[m]
      PROVE  Told[m] # {}
  <2>1. CASE Retire
    <3>1. IsPending' = [IsPending EXCEPT ![CurMeta] = FALSE] /\ pc = "retire"
      BY <2>1 DEF Retire
    <3>2. m = CurMeta
      BY <1>1, <3>1 DEF IInv, RingExact, TypeOK
    <3>. QED BY <1>1, <3>1, <3>2 DEF IInv, ToldInv
  <2>2. ASSUME NEW n \in Meta, BackgroundFileDumpRequest(n)
        PROVE  FALSE
    BY <1>1, <2>2 DEF BackgroundFileDumpRequest, IInv, RingExact, TypeOK
  <2>3. ASSUME ~ Retire, ~ \E n \in Meta : BackgroundFileDumpRequest(n)
        PROVE  UNCHANGED IsPending
    BY <1>1, <2>3, Zenon DEF Next, Command, FillRequest, RequestRefused, RunIdle, RunStart,
       Write, OpenFile, OpenAlready, OpenError, WriteRecord, WriteError, WriteEnd,
       FinishComplete, FinishFailed, FinishSlice, vars, meta
  <2>. QED BY <1>1, <2>1, <2>2, <2>3
<1>2. IInv /\ [Next]_vars =>
        [\A m \in Meta : IsPending[m] /\ ~ IsPending'[m] => Told[m] # {}]_vars
  BY Zenon, <1>1
<1>. QED BY <1>2, IInvHolds, PTL DEF Spec, NoSilentEnd

-----------------------------------------------------------------------------
(***************************************************************************)
(* The ring implements the queue of RequestQueue                           *)
(***************************************************************************)
\* The requests in the ring, the one at the head first.
Waiting == [i \in 1..Outstanding |-> Entries[IndexOf(CompleteCount + i - 1)]]

\* Waiting is a sequence of pending requests.
LEMMA WaitingFacts ==
    ASSUME IInv
    PROVE  /\ Outstanding \in 0..(N - 1)
           /\ Waiting \in Seq(Meta)
           /\ Len(Waiting) = Outstanding
           /\ \A i \in 1..Outstanding : IsPending[Waiting[i]]
<1>. USE DEF IInv, RingExact, TypeOK
<1>1. Outstanding \in 0..(N - 1)
  BY OutstandingFacts, Sizes
<1>2. ASSUME NEW i \in 1..Outstanding
      PROVE  Waiting[i] \in Meta /\ IsPending[Waiting[i]]
  <2>1. i - 1 \in 0..(Outstanding - 1) /\ CompleteCount + i - 1 = CompleteCount + (i - 1)
    BY <1>1, Sizes
  <2>2. IndexOf(CompleteCount + (i - 1)) \in 0..(N - 1)
    BY <2>1, NextIndex
  <2>3. Waiting[i] = Entries[IndexOf(CompleteCount + (i - 1))]
    BY <2>1 DEF Waiting
  <2>4. Waiting[i] # NULL
    BY <2>1, <2>2, <2>3
  <2>5. Waiting[i] \in Meta
    BY <2>2, <2>3, <2>4
  <2>. QED BY <2>2, <2>3, <2>5
<1>3. Waiting \in [1..Outstanding -> Meta]
  BY <1>2 DEF Waiting
<1>. QED BY <1>1, <1>2, <1>3

\* An accepted request goes to the end of the queue.
LEMMA AcceptImplements ==
    ASSUME IInv, NEW m \in Meta, BackgroundFileDumpRequest(m)
    PROVE  /\ Len(Waiting) < N - 1
           /\ \A i \in 1..Len(Waiting) : Waiting[i] # m
           /\ Waiting' = Append(Waiting, m)
<1>. DEFINE w == IndexOf(RequestCount)
<1>. USE DEF IInv, RingExact, TypeOK
<1>1. /\ Entries' = [Entries EXCEPT ![w] = m] /\ ~ IsPending[m]
      /\ CompleteCount' = CompleteCount
  BY DEF BackgroundFileDumpRequest
<1>2. Outstanding \in 0..(N - 1) /\ Outstanding < N - 1 /\ Outstanding' = Outstanding + 1
  BY AcceptCounts, OutstandingFacts, Sizes DEF BackgroundFileDumpRequest
<1>3. w = IndexOf(CompleteCount + Outstanding)
  BY OutstandingFacts
<1>4. ASSUME NEW i \in 1..Outstanding
      PROVE  Waiting'[i] = Waiting[i]
  <2>1. /\ i - 1 \in 0..(N - 1) /\ i - 1 # Outstanding /\ Outstanding \in 0..(N - 1)
        /\ CompleteCount + i - 1 = CompleteCount + (i - 1) /\ i \in 1..(Outstanding + 1)
    BY <1>2, Sizes
  <2>2. IndexOf(CompleteCount + (i - 1)) # w /\ IndexOf(CompleteCount + (i - 1)) \in 0..(N - 1)
    BY <2>1, <1>3, IndicesDiffer, NextIndex
  <2>3. Entries'[IndexOf(CompleteCount + (i - 1))] = Entries[IndexOf(CompleteCount + (i - 1))]
    BY <2>2, <1>1
  <2>. QED BY <2>1, <2>3, <1>1, <1>2 DEF Waiting
<1>5. Waiting'[Outstanding + 1] = m
  <2>1. /\ CompleteCount + (Outstanding + 1) - 1 = CompleteCount + Outstanding
        /\ Outstanding + 1 \in 1..(Outstanding + 1)
    BY <1>2, Sizes
  <2>2. w \in 0..(N - 1)
    BY <1>2, <1>3, NextIndex
  <2>. QED BY <2>1, <2>2, <1>1, <1>2, <1>3 DEF Waiting
<1>6. Waiting' = [i \in 1..(Outstanding + 1) |-> Waiting'[i]]
  BY <1>2 DEF Waiting
<1>7. Waiting' = Append(Waiting, m)
  BY <1>2, <1>4, <1>5, <1>6, WaitingFacts
<1>. QED BY <1>1, <1>2, <1>7, WaitingFacts

\* A retired request was the first of the queue.
LEMMA RetireImplements ==
    ASSUME IInv, Retire
    PROVE  Waiting # << >> /\ Waiting' = Tail(Waiting)
<1>. DEFINE h == IndexOf(CompleteCount)
<1>. USE DEF IInv, RingExact, TypeOK
<1>1. /\ RequestCount # CompleteCount
      /\ Entries' = [Entries EXCEPT ![h] = NULL]
      /\ CompleteCount' = Increment(CompleteCount)
      /\ RequestCount' = RequestCount
  BY DEF Retire, WriterAtHead
<1>2. Outstanding \in 1..(N - 1) /\ Outstanding' = Outstanding - 1
  BY <1>1, RetireCounts, OutstandingFacts, Sizes
<1>3. ASSUME NEW i \in 1..(Outstanding - 1)
      PROVE  Waiting'[i] = Waiting[i + 1]
  <2>1. /\ i \in 0..(N - 1) /\ 0 \in 0..(N - 1) /\ i # 0 /\ i \in Int /\ i - 1 \in Int
        /\ CompleteCount + 0 = CompleteCount /\ (i - 1) + 1 = i
        /\ CompleteCount + (i + 1) - 1 = CompleteCount + i /\ i + 1 \in 1..Outstanding
    BY <1>2, Sizes
  <2>2. IndexOf(CompleteCount + i) # h /\ IndexOf(CompleteCount + i) \in 0..(N - 1)
    BY <2>1, IndicesDiffer, NextIndex
  <2>3. IndexOf(CompleteCount' + i - 1) = IndexOf(CompleteCount + i)
    <3>1. CompleteCount' + i - 1 = CompleteCount' + (i - 1)
      BY <1>1, <2>1, NextIndex, Sizes
    <3>. QED BY <3>1, <2>1, <1>1, NextIndex
  <2>4. Entries'[IndexOf(CompleteCount + i)] = Entries[IndexOf(CompleteCount + i)]
    BY <2>2, <1>1
  <2>. QED BY <2>1, <2>3, <2>4, <1>2 DEF Waiting
<1>4. Waiting' = [i \in 1..(Outstanding - 1) |-> Waiting'[i]]
  BY <1>2 DEF Waiting
<1>5. Waiting # << >> /\ Waiting' = Tail(Waiting)
  BY <1>2, <1>3, <1>4, WaitingFacts
<1>. QED BY <1>5

\* The ring, its counters and its wrapping implement a first-in first-out queue
\* of one request less than CFE_FS_MAX_BACKGROUND_FILE_WRITES: nothing is lost,
\* accepted twice or served out of order.
THEOREM RingImplementsQueue == Spec => ImplementsQueue
<1>1. Init => Q!Init
  <2>. SUFFICES ASSUME Init PROVE Waiting = << >>
    BY DEF Q!Init, Waiting
  <2>1. IInv
    BY InitIInv
  <2>2. Outstanding = 0
    BY <2>1, OutstandingFacts DEF Init, IInv, RingExact, TypeOK
  <2>. QED BY <2>1, <2>2, WaitingFacts
<1>2. IInv /\ [Next]_vars => [Q!Next]_(Waiting)
  <2>. SUFFICES ASSUME IInv, [Next]_vars, Waiting' # Waiting PROVE Q!Next
    OBVIOUS
  <2>1. CASE Retire
    BY <2>1, RetireImplements, Zenon DEF Q!Next, Q!Finish, Waiting
  <2>2. ASSUME NEW m \in Meta, BackgroundFileDumpRequest(m)
        PROVE  Q!Next
    BY <2>2, AcceptImplements, Zenon DEF Q!Next, Q!Accept, Waiting
  <2>3. ASSUME ~ Retire, ~ \E m \in Meta : BackgroundFileDumpRequest(m)
        PROVE  UNCHANGED ring
    BY <2>3, Zenon DEF Next, Command, FillRequest, RequestRefused, RunIdle, RunStart, Write,
       OpenFile, OpenAlready, OpenError, WriteRecord, WriteError, WriteEnd,
       FinishComplete, FinishFailed, FinishSlice, vars
  <2>4. UNCHANGED ring => Waiting' = Waiting
    BY DEF ring, Waiting, Outstanding
  <2>. QED BY <2>1, <2>2, <2>3, <2>4
<1>. QED BY <1>1, <1>2, IInvHolds, PTL DEF Spec, ImplementsQueue, Q!Spec, Waiting
=============================================================================
