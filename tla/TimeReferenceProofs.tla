------------------------ MODULE TimeReferenceProofs ------------------------
(***************************************************************************)
(* Proofs about TimeReference: for any words, values, readers, number of   *)
(* retries and number of versions, a reference taken as valid is the one   *)
(* that was published, and a pass fails only after four updates.           *)
(***************************************************************************)
EXTENDS TimeReference, TLAPS

\* The update in progress is marked in the next buffer, the version of the
\* current one is the counter, and no pass waits for the version being written.
Marked ==
    /\ StateVersion[CurrState] = LastVersionCounter
    /\ updating => /\ StateVersion[NextState] = Succ(LastVersionCounter)
                   /\ NoPassOutlivesWrap

\* While the buffer of a pass keeps its version, it holds what was published
\* when the pass began, and so does all the pass has read.
PassSound ==
    \A r \in Reader :
        pc[r] = "read" /\ Valid(r) =>
            /\ State[BufferOf(VersionCounter[r])] = wanted[r]
            /\ \A f \in DOMAIN Reference[r] : Reference[r][f] = wanted[r][f]

WantedWhole == \A r \in Reader : pc[r] = "read" => wanted[r] \in [Field -> Value]

IInv == /\ TypeOK /\ Marked /\ CurrentStable /\ WantedWhole
        /\ PassSound /\ ReadConsistent /\ RetryOnlyAfterDepth

\* Consecutive versions are in different buffers, across the wrap as well.
LEMMA Buffers ==
  ASSUME NEW v \in Version
  PROVE  /\ Succ(v) \in Version /\ Succ(v) # v
         /\ BufferOf(v) \in Buffer /\ BufferOf(Succ(v)) # BufferOf(v)
<1>1. /\ Succ(v) \in Version /\ Succ(v) # v
  BY VersionAssumption DEF Version, Succ
<1>2. BufferOf(v) \in Buffer
  BY DEF BufferOf, Buffer, Version, CFE_TIME_REFERENCE_BUF_DEPTH
<1>3. BufferOf(Succ(v)) # BufferOf(v)
  BY VersionAssumption DEF BufferOf, Succ, Version, CFE_TIME_REFERENCE_BUF_DEPTH
<1> QED BY <1>1, <1>2, <1>3

\* The ages of the versions: CFE_TIME_FinishReferenceUpdate makes a version older
\* by one, and versions in one buffer are a multiple of four apart.
AgeOf(v, u) == IF v >= u THEN v - u ELSE v - u + VersionCount

\* An age is a natural number, an update adds one to it until the version
\* itself comes round, and the writer comes back to the buffer of an older
\* version only when that is at least three updates old.
LEMMA Ages ==
  ASSUME NEW v \in Version, NEW u \in Version
  PROVE  /\ AgeOf(v, u) \in Nat /\ AgeOf(v, v) = 0
         /\ u # Succ(v) => AgeOf(Succ(v), u) = AgeOf(v, u) + 1
         /\ u # Succ(v) /\ BufferOf(u) = BufferOf(Succ(v)) => AgeOf(v, u) >= 3
<1>1. AgeOf(v, u) \in Nat /\ AgeOf(v, v) = 0
  BY VersionAssumption DEF Version, AgeOf
<1>2. u # Succ(v) => AgeOf(Succ(v), u) = AgeOf(v, u) + 1
  BY VersionAssumption DEF Version, AgeOf, Succ
<1>3. u # Succ(v) /\ BufferOf(u) = BufferOf(Succ(v)) => AgeOf(v, u) >= 3
  BY VersionAssumption DEF Version, AgeOf, Succ, BufferOf, CFE_TIME_REFERENCE_BUF_DEPTH
<1> QED BY <1>1, <1>2, <1>3

\* Adding a word to some words, and taking one away, leaves words.
LEMMA WordsClosed ==
  ASSUME NEW w \in Words, NEW f \in Field, NEW v \in Value
  PROVE  /\ With(w, f, v) \in Words /\ Without(w, f) \in Words
         /\ DOMAIN w \subseteq Field /\ Nothing \in Words
<1>1. PICK F \in SUBSET Field : w \in [F -> Value]
  BY DEF Words
<1>2. With(w, f, v) \in [F \cup {f} -> Value]
  BY <1>1 DEF With
<1>3. Without(w, f) \in [F \ {f} -> Value]
  BY <1>1 DEF Without
<1>4. Nothing \in [{} -> Value]
  BY DEF Nothing
<1>5. \A G \in SUBSET Field : [G -> Value] \subseteq Words
  BY DEF Words
<1>6. With(w, f, v) \in Words
  BY <1>2, <1>5
<1>7. Without(w, f) \in Words
  BY <1>3, <1>5
<1>8. Nothing \in Words
  BY ZenonT(60), <1>4, <1>5
<1> QED BY <1>1, <1>6, <1>7, <1>8

\* The same with nothing given: there are no words at first, and whole
\* functions are words.
LEMMA WordsExist ==
  /\ Nothing \in Words /\ [Field -> Value] \subseteq Words /\ Stores \subseteq Words
<1>1. \A G \in SUBSET Field : [G -> Value] \subseteq Words
  BY DEF Words
<1>2. Nothing \in [{} -> Value]
  BY DEF Nothing
<1>3. Nothing \in Words
  BY ZenonT(60), <1>1, <1>2
<1>4. [Field -> Value] \subseteq Words
  BY <1>1
<1>5. Stores \subseteq Words
  BY <1>1, StoresAssumption
<1> QED BY <1>3, <1>4, <1>5

\* The state after CFE_TIME_InitData has the invariant.
LEMMA InitIInv == Init => IInv
<1> SUFFICES ASSUME Init PROVE IInv
  OBVIOUS
<1>1. Buffer = 0 .. 3 /\ 2 \in Version /\ Never \in Version /\ 1 \in Version /\ 0 \in Version
  BY VersionAssumption DEF Buffer, CFE_TIME_REFERENCE_BUF_DEPTH, Version, Never
<1>2. StateVersion \in [Buffer -> Version]
  BY <1>1 DEF Init
<1>3. TypeOK
  <2>1. /\ LastVersionCounter \in Version /\ updating \in BOOLEAN
        /\ uncopied \in SUBSET Field /\ published \in [Field -> Value]
        /\ State \in [Buffer -> [Field -> Value]]
    BY ZenonT(60), <1>1 DEF Init
  <2>2. /\ unstored \in Words /\ Reference \in [Reader -> Words]
        /\ wanted \in [Reader -> Words]
    BY WordsExist DEF Init
  <2>3. /\ pc \in [Reader -> {"idle", "read", "retry", "done", "failed"}]
        /\ VersionCounter \in [Reader -> Version]
        /\ RetryCount \in [Reader -> 0 .. Retries]
    BY <1>1, RetriesAssumption DEF Init
  <2> QED BY <1>2, <2>1, <2>2, <2>3 DEF TypeOK
<1>4. CurrState = 2
  BY DEF Init, CurrState, BufferOf, CFE_TIME_REFERENCE_BUF_DEPTH
<1>5. Marked
  BY <1>1, <1>4 DEF Init, Marked
<1>6. CurrentStable
  BY <1>1, <1>4 DEF Init, CurrentStable
<1>7. WantedWhole /\ PassSound /\ ReadConsistent /\ RetryOnlyAfterDepth
  BY DEF Init, WantedWhole, PassSound, ReadConsistent, RetryOnlyAfterDepth
<1> QED BY <1>3, <1>5, <1>6, <1>7 DEF IInv

\* Every step of the TIME task and of a reader keeps the types.
LEMMA TypeStep == TypeOK /\ Marked /\ [Next]_vars => TypeOK'
<1> SUFFICES ASSUME TypeOK, Marked, [Next]_vars PROVE TypeOK'
  OBVIOUS
<1> USE DEF TypeOK
<1>0. /\ CurrState \in Buffer /\ NextState \in Buffer
      /\ Succ(LastVersionCounter) \in Version
      /\ \A r \in Reader : BufferOf(VersionCounter[r]) \in Buffer
  BY Buffers DEF CurrState, NextState
<1>1. CASE \E store \in Stores : StartReferenceUpdate(store)
  BY <1>0, <1>1, WordsExist DEF StartReferenceUpdate, readerVars
<1>2. CASE \E f \in Field : Propagate(f)
  BY <1>0, <1>2 DEF Propagate, readerVars
<1>3. CASE \E f \in Field : SetState(f)
  <2>1. PICK f \in Field : SetState(f)
    BY <1>3
  <2>2. PICK F \in SUBSET Field : unstored \in [F -> Value]
    BY DEF Words
  <2>3. unstored[f] \in Value
    BY <2>1, <2>2 DEF SetState
  <2>4. unstored' \in Words
    BY <2>1, <2>3, WordsClosed DEF SetState
  <2>5. State' \in [Buffer -> [Field -> Value]]
    BY <1>0, <2>1, <2>3 DEF SetState
  <2> QED BY <2>1, <2>4, <2>5 DEF SetState, readerVars
<1>4. CASE FinishReferenceUpdate
  BY ZenonT(60), <1>0, <1>4 DEF FinishReferenceUpdate, readerVars
<1>5. ASSUME NEW r \in Reader, ReadVersion(r) PROVE TypeOK'
  <2>1. RetryCount' \in [Reader -> 0 .. Retries]
    BY <1>5, RetriesAssumption DEF ReadVersion
  <2>2. wanted' \in [Reader -> Words] /\ Reference' \in [Reader -> Words]
    BY <1>5, WordsExist DEF ReadVersion
  <2> QED BY <1>5, <2>1, <2>2 DEF ReadVersion, writerVars
<1>6. ASSUME NEW r \in Reader, NEW f \in Field, ReadWord(r, f) PROVE TypeOK'
  <2>1. State[BufferOf(VersionCounter[r])][f] \in Value
    BY <1>0
  <2>2. With(Reference[r], f, State[BufferOf(VersionCounter[r])][f]) \in Words
    BY <2>1, WordsClosed
  <2>3. Reference' \in [Reader -> Words]
    BY <1>6, <2>2 DEF ReadWord
  <2> QED BY <1>6, <2>3 DEF ReadWord, writerVars
<1>7. ASSUME NEW r \in Reader, CheckVersion(r) PROVE TypeOK'
  <2>1. RetryCount' \in [Reader -> 0 .. Retries]
    BY <1>7, RetriesAssumption DEF CheckVersion
  <2>2. pc' \in [Reader -> {"idle", "read", "retry", "done", "failed"}]
    BY ZenonT(60), <1>7 DEF CheckVersion
  <2> QED BY <1>7, <2>1, <2>2 DEF CheckVersion, writerVars
<1>8. ASSUME NEW r \in Reader, Return(r) PROVE TypeOK'
  <2>1. RetryCount' \in [Reader -> 0 .. Retries]
    BY <1>8, RetriesAssumption DEF Return
  <2>2. wanted' \in [Reader -> Words] /\ Reference' \in [Reader -> Words]
    BY <1>8, WordsExist DEF Return
  <2>3. VersionCounter' \in [Reader -> Version]
    BY <1>8, VersionAssumption DEF Return, Version
  <2> QED BY <1>8, <2>1, <2>2, <2>3 DEF Return, writerVars
<1>9. CASE UNCHANGED vars
  BY <1>9 DEF vars, writerVars, readerVars
<1> QED
  BY <1>1, <1>2, <1>3, <1>4, <1>5, <1>6, <1>7, <1>8, <1>9 DEF Next, GetReference

\* CFE_TIME_StartReferenceUpdate keeps the invariant: the buffer it marks is not
\* the current one, and a pass whose buffer it is fails from now on.
LEMMA StartStep ==
  ASSUME IInv, TypeOK', NEW store \in Stores, StartReferenceUpdate(store)
  PROVE  IInv'
<1> USE DEF IInv
<1>0. UNCHANGED <<LastVersionCounter, State, published, pc, VersionCounter, Reference, wanted>>
  BY DEF StartReferenceUpdate, readerVars
<1>1. /\ CurrState \in Buffer /\ NextState \in Buffer /\ NextState # CurrState
      /\ CurrState' = CurrState /\ NextState' = NextState
  BY <1>0, Buffers DEF TypeOK, CurrState, NextState
<1>2. /\ StateVersion'[NextState] = Succ(LastVersionCounter)
      /\ \A b \in Buffer \ {NextState} : StateVersion'[b] = StateVersion[b]
  BY <1>1 DEF TypeOK, StartReferenceUpdate
<1>3. NoPassOutlivesWrap /\ NoPassOutlivesWrap'
  BY <1>0 DEF StartReferenceUpdate, NoPassOutlivesWrap
<1>4. Marked'
  BY <1>0, <1>1, <1>2, <1>3 DEF Marked
<1>5. CurrentStable' /\ WantedWhole' /\ ReadConsistent'
  BY <1>0, <1>1 DEF CurrentStable, WantedWhole, ReadConsistent
<1>6. ASSUME NEW r \in Reader, pc[r] = "read"
      PROVE  /\ BufferOf(VersionCounter[r]) \in Buffer
             /\ BufferOf(VersionCounter[r]) # NextState =>
                    Valid(r)' = Valid(r)
             /\ BufferOf(VersionCounter[r]) = NextState => ~Valid(r)'
  <2>1. BufferOf(VersionCounter[r]) \in Buffer
    BY Buffers DEF TypeOK
  <2>2. VersionCounter[r] # Succ(LastVersionCounter)
    BY <1>3, <1>6 DEF NoPassOutlivesWrap
  <2> QED BY <1>0, <1>2, <2>1, <2>2 DEF Valid
<1>7. PassSound'
  BY <1>0, <1>6 DEF PassSound
<1>8. RetryOnlyAfterDepth'
  <2> SUFFICES ASSUME NEW r \in Reader, pc[r] = "read", ~Valid(r)'
               PROVE  Age(r)' + 1 >= 4
    BY <1>0 DEF RetryOnlyAfterDepth, StartReferenceUpdate, CFE_TIME_REFERENCE_BUF_DEPTH
  <2>0. /\ VersionCounter[r] \in Version /\ LastVersionCounter \in Version
        /\ Age(r)' = Age(r) /\ Age(r) = AgeOf(LastVersionCounter, VersionCounter[r])
    BY <1>0 DEF TypeOK, Age, AgeOf
  <2>1. CASE BufferOf(VersionCounter[r]) = NextState
    <3>1. VersionCounter[r] # Succ(LastVersionCounter)
      BY <1>3 DEF NoPassOutlivesWrap
    <3>2. AgeOf(LastVersionCounter, VersionCounter[r]) >= 3
      BY <2>0, <2>1, <3>1, Ages DEF NextState
    <3> QED BY <2>0, <3>2, Ages
  <2>2. CASE BufferOf(VersionCounter[r]) # NextState
    <3>1. ~Valid(r) /\ ~updating
      BY <1>6, <2>2 DEF StartReferenceUpdate
    <3>2. Age(r) + 0 >= 4
      BY <3>1 DEF RetryOnlyAfterDepth, CFE_TIME_REFERENCE_BUF_DEPTH
    <3>3. Age(r) \in Nat
      BY <2>0, Ages
    <3> QED BY <2>0, <3>2, <3>3
  <2> QED BY <2>1, <2>2
<1> QED BY <1>4, <1>5, <1>7, <1>8

\* Storing words of the next buffer, by CFE_TIME_StartReferenceUpdate or by its
\* caller, keeps the invariant: no valid pass reads that buffer.
LEMMA StoreStep ==
  ASSUME IInv, TypeOK', NEW f \in Field, Propagate(f) \/ SetState(f)
  PROVE  IInv'
<1> USE DEF IInv
<1>0. /\ UNCHANGED <<LastVersionCounter, StateVersion, updating, published>>
      /\ UNCHANGED <<pc, VersionCounter, Reference, wanted>> /\ updating
  BY DEF Propagate, SetState, readerVars
<1>1. /\ CurrState \in Buffer /\ NextState \in Buffer /\ NextState # CurrState
      /\ CurrState' = CurrState /\ NextState' = NextState
  BY <1>0, Buffers DEF TypeOK, CurrState, NextState
<1>2. \A b \in Buffer \ {NextState} : State'[b] = State[b]
  BY <1>1 DEF TypeOK, Propagate, SetState
<1>3. Marked'
  BY <1>0, <1>1 DEF Marked, NoPassOutlivesWrap
<1>4. CurrentStable'
  BY <1>0, <1>1, <1>2 DEF CurrentStable
<1>5. WantedWhole' /\ ReadConsistent'
  BY <1>0 DEF WantedWhole, ReadConsistent
<1>6. RetryOnlyAfterDepth'
  BY <1>0 DEF RetryOnlyAfterDepth, Valid, Age
<1>7. PassSound'
  <2> SUFFICES ASSUME NEW r \in Reader, pc[r] = "read", Valid(r)
               PROVE  State'[BufferOf(VersionCounter[r])] = State[BufferOf(VersionCounter[r])]
    BY <1>0 DEF PassSound, Valid
  <2>1. BufferOf(VersionCounter[r]) \in Buffer
    BY Buffers DEF TypeOK
  <2>2. /\ StateVersion[NextState] = Succ(LastVersionCounter)
        /\ VersionCounter[r] # Succ(LastVersionCounter)
    BY <1>0 DEF Marked, NoPassOutlivesWrap
  <2>3. BufferOf(VersionCounter[r]) # NextState
    BY <2>2 DEF Valid
  <2> QED BY <1>2, <2>1, <2>3
<1> QED BY <1>3, <1>4, <1>5, <1>6, <1>7

\* CFE_TIME_FinishReferenceUpdate keeps the invariant: what it makes current is
\* what was marked.
LEMMA FinishStep ==
  ASSUME IInv, TypeOK', FinishReferenceUpdate
  PROVE  IInv'
<1> USE DEF IInv
<1>0. /\ UNCHANGED <<StateVersion, State, pc, VersionCounter, Reference, wanted>>
      /\ updating /\ ~updating' /\ published' = State[NextState]
  BY SMTT(60) DEF FinishReferenceUpdate, readerVars
<1>1. /\ LastVersionCounter' = Succ(LastVersionCounter)
      /\ CurrState' = NextState
  BY <1>0 DEF Marked, FinishReferenceUpdate, CurrState, NextState
<1>2. Marked'
  BY <1>0, <1>1 DEF Marked
<1>3. CurrentStable' /\ WantedWhole' /\ ReadConsistent' /\ PassSound'
  BY <1>0, <1>1 DEF CurrentStable, WantedWhole, ReadConsistent, PassSound, Valid
<1>4. RetryOnlyAfterDepth'
  <2> SUFFICES ASSUME NEW r \in Reader, pc[r] = "read", ~Valid(r)
               PROVE  Age(r)' + 0 >= 4
    BY <1>0 DEF RetryOnlyAfterDepth, CFE_TIME_REFERENCE_BUF_DEPTH, Valid
  <2>0. VersionCounter[r] \in Version /\ LastVersionCounter \in Version
    BY DEF TypeOK
  <2>1. Age(r) + 1 >= 4
    BY <1>0 DEF RetryOnlyAfterDepth, CFE_TIME_REFERENCE_BUF_DEPTH
  <2>2. VersionCounter[r] # Succ(LastVersionCounter)
    BY <1>0 DEF Marked, NoPassOutlivesWrap
  <2>3. /\ Age(r) = AgeOf(LastVersionCounter, VersionCounter[r])
        /\ Age(r)' = AgeOf(Succ(LastVersionCounter), VersionCounter[r])
    BY <1>0, <1>1 DEF Age, AgeOf
  <2>4. Age(r)' = Age(r) + 1 /\ Age(r) \in Nat
    BY SMTT(60), <2>0, <2>2, <2>3, Ages
  <2> QED BY <2>1, <2>4
<1> QED BY <1>2, <1>3, <1>4

\* What a step of one reader leaves alone in the others.
LEMMA OtherReaders ==
  ASSUME TypeOK, NEW r \in Reader, GetReference(r)
  PROVE  /\ UNCHANGED writerVars
         /\ \A q \in Reader \ {r} :
                /\ pc'[q] = pc[q] /\ VersionCounter'[q] = VersionCounter[q]
                /\ Reference'[q] = Reference[q] /\ wanted'[q] = wanted[q]
<1>1. CASE ReadVersion(r)
  BY <1>1 DEF TypeOK, ReadVersion
<1>2. CASE CheckVersion(r)
  BY <1>2 DEF TypeOK, CheckVersion
<1>3. CASE Return(r)
  BY <1>3 DEF TypeOK, Return
<1>4. CASE \E f \in Field : ReadWord(r, f)
  BY SMTT(60), <1>4 DEF TypeOK, ReadWord
<1> QED BY <1>1, <1>2, <1>3, <1>4 DEF GetReference

\* The invariant as far as it is about one reader.
Sound(r) ==
    /\ pc[r] = "read" =>
        /\ VersionCounter[r] # Succ(LastVersionCounter) \/ ~updating
        /\ wanted[r] \in [Field -> Value]
        /\ Valid(r) => /\ State[BufferOf(VersionCounter[r])] = wanted[r]
                       /\ \A f \in DOMAIN Reference[r] : Reference[r][f] = wanted[r][f]
        /\ ~Valid(r) => Age(r) + (IF updating THEN 1 ELSE 0) >= CFE_TIME_REFERENCE_BUF_DEPTH
    /\ pc[r] = "done" => Reference[r] = wanted[r]

\* Every reader of CFE_TIME_GetReference is sound when the invariant holds.
LEMMA SoundIInv == IInv => \A r \in Reader : Sound(r)
BY DEF IInv, Marked, NoPassOutlivesWrap, PassSound, WantedWhole, ReadConsistent,
       RetryOnlyAfterDepth, Sound

\* A step of CFE_TIME_GetReference keeps the invariant.
LEMMA ReaderStep ==
  ASSUME IInv, TypeOK', NEW r \in Reader, GetReference(r)
  PROVE  IInv'
<1>0. TypeOK /\ CurrentStable /\ StateVersion[CurrState] = LastVersionCounter
  BY DEF IInv, Marked
<1>1. UNCHANGED <<LastVersionCounter, StateVersion, State, updating, published>>
  BY <1>0, OtherReaders DEF writerVars
<1>2. /\ CurrentStable' /\ (StateVersion[CurrState] = LastVersionCounter)'
      /\ (updating => StateVersion[NextState] = Succ(LastVersionCounter))'
  BY <1>0, <1>1 DEF IInv, Marked, CurrentStable, CurrState, NextState
<1>3. ASSUME NEW q \in Reader \ {r} PROVE Sound(q)'
  <2>1. Sound(q)
    BY SoundIInv
  <2>2. /\ pc'[q] = pc[q] /\ VersionCounter'[q] = VersionCounter[q]
        /\ Reference'[q] = Reference[q] /\ wanted'[q] = wanted[q]
    BY <1>0, OtherReaders
  <2>3. Valid(q)' = Valid(q) /\ Age(q)' = Age(q)
    BY <1>1, <2>2 DEF Valid, Age
  <2> QED BY <1>1, <2>1, <2>2, <2>3 DEF Sound
<1>4. Sound(r)
  BY SoundIInv
<1>5. Sound(r)' => IInv'
  <2>1. ASSUME Sound(r)' PROVE \A q \in Reader : Sound(q)'
    BY <1>3, <2>1
  <2>2. ASSUME \A q \in Reader : Sound(q)' PROVE IInv'
    BY <1>2, <2>2
       DEF IInv, Marked, NoPassOutlivesWrap, PassSound, WantedWhole, ReadConsistent,
           RetryOnlyAfterDepth, Sound
  <2> QED BY <2>1, <2>2
<1>6. CASE ReadVersion(r)
  <2>1. /\ pc'[r] = "read" /\ VersionCounter'[r] = LastVersionCounter
        /\ Reference'[r] = Nothing /\ wanted'[r] = published
    BY <1>0, <1>6 DEF TypeOK, ReadVersion
  <2>2. Valid(r)' /\ State[BufferOf(LastVersionCounter)] = published
    BY <1>0, <1>1, <2>1 DEF Valid, CurrState, CurrentStable
  <2>3. LastVersionCounter # Succ(LastVersionCounter) /\ published \in [Field -> Value]
    BY <1>0, Buffers DEF TypeOK
  <2>4. DOMAIN Nothing = {}
    BY DEF Nothing
  <2>5. Sound(r)'
    BY <1>1, <2>1, <2>2, <2>3, <2>4 DEF Sound
  <2> QED BY <1>5, <2>5
<1>7. CASE CheckVersion(r)
  <2>1. /\ pc[r] = "read" /\ DOMAIN Reference[r] = Field
        /\ pc'[r] \in {"failed", "retry"} \/ (pc'[r] = "done" /\ Valid(r))
        /\ Reference' = Reference /\ wanted' = wanted
    BY <1>0, <1>7 DEF TypeOK, CheckVersion
  <2>2. Valid(r) => Reference[r] = wanted[r]
    <3>1. PICK F \in SUBSET Field : Reference[r] \in [F -> Value]
      BY <1>0 DEF TypeOK, Words
    <3>2. Reference[r] \in [Field -> Value]
      BY SMTT(60), <2>1, <3>1
    <3> QED BY SMTT(60), <1>4, <2>1, <3>2 DEF Sound
  <2>3. Sound(r)'
    BY <2>1, <2>2 DEF Sound
  <2> QED BY <1>5, <2>3
<1>8. CASE Return(r)
  <2>1. pc'[r] = "idle"
    BY SMTT(60), <1>0, <1>8 DEF TypeOK, Return
  <2>2. Sound(r)'
    BY <2>1 DEF Sound
  <2> QED BY <1>5, <2>2
<1>9. ASSUME NEW f \in Field, ReadWord(r, f) PROVE IInv'
  <2>1. /\ pc[r] = "read" /\ pc' = pc /\ VersionCounter' = VersionCounter /\ wanted' = wanted
        /\ Reference'[r] = With(Reference[r], f, State[BufferOf(VersionCounter[r])][f])
    BY <1>0, <1>9 DEF TypeOK, ReadWord
  <2>2. Valid(r)' = Valid(r) /\ Age(r)' = Age(r)
    BY SMTT(60), <1>1, <2>1 DEF Valid, Age
  <2>3. Valid(r) => \A g \in DOMAIN Reference'[r] : Reference'[r][g] = wanted[r][g]
    BY SMTT(60), <1>4, <2>1 DEF Sound, With
  <2>4. Sound(r)'
    BY <1>1, <1>4, <2>1, <2>2, <2>3 DEF Sound
  <2> QED BY <1>5, <2>4
<1> QED BY <1>6, <1>7, <1>8, <1>9 DEF GetReference

\* IInv is an invariant of the specification.
THEOREM IInvHolds == Spec => []IInv
<1>1. ASSUME IInv, [Next]_vars PROVE IInv'
  <2>0. TypeOK'
    BY SMTT(60), <1>1, TypeStep DEF IInv
  <2>1. CASE UNCHANGED vars
    BY <1>1, <2>1
       DEF IInv, TypeOK, Marked, NoPassOutlivesWrap, CurrentStable, WantedWhole, PassSound,
           ReadConsistent, RetryOnlyAfterDepth, Valid, Age, CurrState, NextState,
           vars, writerVars, readerVars
  <2> QED BY <1>1, <2>0, <2>1, StartStep, StoreStep, FinishStep, ReaderStep DEF Next
<1> QED BY <1>1, InitIInv, PTL DEF Spec

\* What CFE_TIME_GetReference takes as valid is what one update published.
THEOREM ReadsAreConsistent == Spec => []ReadConsistent
BY IInvHolds, PTL DEF IInv

\* A pass of CFE_TIME_GetReference fails only after four updates.
THEOREM RetriesAreRare == Spec => []RetryOnlyAfterDepth
BY IInvHolds, PTL DEF IInv

\* The buffer readers use is never written.
THEOREM CurrentIsStable == Spec => []CurrentStable
BY IInvHolds, PTL DEF IInv

\* The types.
THEOREM TypesHold == Spec => []TypeOK
BY IInvHolds, PTL DEF IInv
=============================================================================
