--------------------------- MODULE TimeReference ---------------------------
(***************************************************************************)
(* The reference data of the time services (cfe/fsw/cfe-core/src/time):    *)
(* four copies, of which the TIME task prepares the next one while tasks   *)
(* and interrupt handlers read the current one without a lock, check a     *)
(* version number afterwards and read again, a limited number of times.    *)
(*                                                                         *)
(* A field is one machine word.  The code copies them in a fixed order;    *)
(* the model in any order, which allows every interleaving of the code.    *)
(* Loads and stores of the volatile data take effect in program order.     *)
(***************************************************************************)
EXTENDS Integers

CONSTANTS
    Field,        \* the words of CFE_TIME_ReferenceState_t but StateVersion
    Value,        \* what a word may hold
    Stores,       \* what updates store: functions from some of the words to Value
    Reader,       \* the tasks and interrupt handlers that call GetReference
    Retries,      \* how often a pass is repeated (4 in the code)
    VersionCount  \* the number of versions (2^32 in the code)

\* The buffers take turns across the wrap of the version as well.
ASSUME VersionAssumption ==
    VersionCount \in Nat /\ VersionCount > 4 /\ VersionCount % 4 = 0
ASSUME RetriesAssumption == Retries \in Nat
ASSUME StoresAssumption == \A s \in Stores : \E F \in SUBSET Field : s \in [F -> Value]

VARIABLES
    LastVersionCounter,  \* CFE_TIME_Global.LastVersionCounter
    StateVersion,        \* the StateVersion of each of the ReferenceStates
    State,               \* their other words
    updating,            \* the TIME task is between Start- and FinishReferenceUpdate
    uncopied,            \* the words StartReferenceUpdate has still to propagate
    unstored,            \* the words its caller has still to store
    pc,                  \* where a reader is
    VersionCounter,      \* the reader's VersionCounter, RetryCount and the words
    RetryCount,          \*   of the Reference that it has read in this pass
    Reference,
    published,           \* the words of the version finished last
    wanted               \* those when the reader took VersionCounter

writerVars == <<LastVersionCounter, StateVersion, State, updating, uncopied, unstored,
                published>>
readerVars == <<pc, VersionCounter, RetryCount, Reference, wanted>>
vars == <<writerVars, readerVars>>
-----------------------------------------------------------------------------
CFE_TIME_REFERENCE_BUF_DEPTH == 4
Buffer == 0 .. CFE_TIME_REFERENCE_BUF_DEPTH - 1

Version == 0 .. VersionCount - 1

\* The buffer of a version, and the version after one.
BufferOfMask1(version) == version % (CFE_TIME_REFERENCE_BUF_DEPTH \div 2)
BufferOf(version) == version % CFE_TIME_REFERENCE_BUF_DEPTH
Succ(version) == IF version = VersionCount - 1 THEN 0 ELSE version + 1

CurrState == BufferOf(LastVersionCounter)
NextState == BufferOf(Succ(LastVersionCounter))

\* 0xFFFFFFFF, the version of a buffer that was never written.
Never == VersionCount - 1

\* Some of the words: functions from a subset of Field.
Words == UNION {[F -> Value] : F \in SUBSET Field}
Nothing == [f \in {} |-> {}]
Without(w, f) == [g \in DOMAIN w \ {f} |-> w[g]]
With(w, f, v) == [g \in DOMAIN w \cup {f} |-> IF g = f THEN v ELSE w[g]]

\* After CFE_TIME_InitData: versions 1 and 2 were written before anybody else runs.
Init ==
    /\ LastVersionCounter = 2
    /\ StateVersion = [b \in Buffer |-> IF b \in {1, 2} THEN b ELSE Never]
    /\ published \in [Field -> Value]
    /\ State = [b \in Buffer |-> published]
    /\ updating = FALSE
    /\ uncopied = {}
    /\ unstored = Nothing
    /\ pc = [r \in Reader |-> "idle"]
    /\ VersionCounter = [r \in Reader |-> 0]
    /\ RetryCount = [r \in Reader |-> Retries]
    /\ Reference = [r \in Reader |-> Nothing]
    /\ wanted = [r \in Reader |-> Nothing]
-----------------------------------------------------------------------------
(***************************************************************************)
(* The TIME task                                                           *)
(***************************************************************************)
\* No reader stays in one pass while the version wraps around: 2^32 updates, a
\* few of which are made each second.
NoPassOutlivesWrap ==
    \A r \in Reader : pc[r] = "read" => VersionCounter[r] # Succ(LastVersionCounter)

\* CFE_TIME_StartReferenceUpdate marks the next buffer first
StartReferenceUpdate(store) ==
    /\ ~updating /\ NoPassOutlivesWrap
    /\ updating' = TRUE
    /\ StateVersion' = [StateVersion EXCEPT ![NextState] = Succ(LastVersionCounter)]
    /\ uncopied' = Field
    /\ unstored' = store
    /\ UNCHANGED <<LastVersionCounter, State, published, readerVars>>

\* and then propagates the words of the current one.
Propagate(f) ==
    /\ updating /\ f \in uncopied
    /\ State' = [State EXCEPT ![NextState][f] = State[CurrState][f]]
    /\ uncopied' = uncopied \ {f}
    /\ UNCHANGED <<LastVersionCounter, StateVersion, updating, unstored, published,
                   readerVars>>

\* Its caller, for instance CFE_TIME_SetState, stores the words it is about.
SetState(f) ==
    /\ updating /\ uncopied = {} /\ f \in DOMAIN unstored
    /\ State' = [State EXCEPT ![NextState][f] = unstored[f]]
    /\ unstored' = Without(unstored, f)
    /\ UNCHANGED <<LastVersionCounter, StateVersion, updating, uncopied, published,
                   readerVars>>

\* CFE_TIME_FinishReferenceUpdate
FinishReferenceUpdate ==
    /\ updating /\ uncopied = {} /\ DOMAIN unstored = {}
    /\ LastVersionCounter' = StateVersion[NextState]
    /\ published' = State[NextState]
    /\ updating' = FALSE
    /\ UNCHANGED <<StateVersion, State, uncopied, unstored, readerVars>>
-----------------------------------------------------------------------------
(***************************************************************************)
(* CFE_TIME_GetReference                                                   *)
(***************************************************************************)
\* The version, at the start of a call and of every retry.
ReadVersion(r) ==
    /\ pc[r] \in {"idle", "retry"}
    /\ pc' = [pc EXCEPT ![r] = "read"]
    /\ RetryCount' = [RetryCount EXCEPT ![r] = IF pc[r] = "idle" THEN Retries ELSE @]
    /\ VersionCounter' = [VersionCounter EXCEPT ![r] = LastVersionCounter]
    /\ Reference' = [Reference EXCEPT ![r] = Nothing]
    /\ wanted' = [wanted EXCEPT ![r] = published]
    /\ UNCHANGED writerVars

ReadWord(r, f) ==
    /\ pc[r] = "read" /\ f \in Field \ DOMAIN Reference[r]
    /\ Reference' = [Reference EXCEPT ![r] =
                        With(@, f, State[BufferOf(VersionCounter[r])][f])]
    /\ UNCHANGED <<pc, VersionCounter, RetryCount, wanted, writerVars>>

\* Whether the copy is taken as valid.
Age(r) ==
    IF LastVersionCounter >= VersionCounter[r]
    THEN LastVersionCounter - VersionCounter[r]
    ELSE LastVersionCounter - VersionCounter[r] + VersionCount
ValidIfYoung(r) == Age(r) < CFE_TIME_REFERENCE_BUF_DEPTH
Valid(r) == StateVersion[BufferOf(VersionCounter[r])] = VersionCounter[r]

\* The end of a pass: done, again, or given up with what was read.
CheckUnlimited(r) ==
    /\ pc[r] = "read" /\ DOMAIN Reference[r] = Field
    /\ pc' = [pc EXCEPT ![r] = IF Valid(r) THEN "done" ELSE "retry"]
    /\ UNCHANGED <<VersionCounter, RetryCount, Reference, wanted, writerVars>>

CheckVersion(r) ==
    /\ pc[r] = "read" /\ DOMAIN Reference[r] = Field
    /\ \/ /\ Valid(r)
          /\ pc' = [pc EXCEPT ![r] = "done"]
          /\ UNCHANGED RetryCount
       \/ /\ ~Valid(r) /\ RetryCount[r] = 0
          /\ pc' = [pc EXCEPT ![r] = "failed"]
          /\ UNCHANGED RetryCount
       \/ /\ ~Valid(r) /\ RetryCount[r] > 0
          /\ pc' = [pc EXCEPT ![r] = "retry"]
          /\ RetryCount' = [RetryCount EXCEPT ![r] = @ - 1]
    /\ UNCHANGED <<VersionCounter, Reference, wanted, writerVars>>

\* The caller has used the reference and may call again.
Return(r) ==
    /\ pc[r] \in {"done", "failed"}
    /\ pc' = [pc EXCEPT ![r] = "idle"]
    /\ VersionCounter' = [VersionCounter EXCEPT ![r] = 0]
    /\ RetryCount' = [RetryCount EXCEPT ![r] = Retries]
    /\ Reference' = [Reference EXCEPT ![r] = Nothing]
    /\ wanted' = [wanted EXCEPT ![r] = Nothing]
    /\ UNCHANGED writerVars
-----------------------------------------------------------------------------
GetReference(r) ==
    \/ ReadVersion(r) \/ CheckVersion(r) \/ Return(r)
    \/ \E f \in Field : ReadWord(r, f)

Next ==
    \/ \E store \in Stores : StartReferenceUpdate(store)
    \/ \E f \in Field : Propagate(f) \/ SetState(f)
    \/ FinishReferenceUpdate
    \/ \E r \in Reader : GetReference(r)

\* A reader that was scheduled runs on: it is a task that is ready or an
\* interrupt handler.  Nothing is assumed about the TIME task.
Fairness == \A r \in Reader : WF_vars(pc[r] # "idle" /\ GetReference(r))

Spec == Init /\ [][Next]_vars
FairSpec == Spec /\ Fairness
-----------------------------------------------------------------------------
TypeOK ==
    /\ LastVersionCounter \in Version
    /\ StateVersion \in [Buffer -> Version]
    /\ State \in [Buffer -> [Field -> Value]]
    /\ updating \in BOOLEAN
    /\ uncopied \in SUBSET Field
    /\ unstored \in Words
    /\ published \in [Field -> Value]
    /\ pc \in [Reader -> {"idle", "read", "retry", "done", "failed"}]
    /\ VersionCounter \in [Reader -> Version]
    /\ RetryCount \in [Reader -> 0 .. Retries]
    /\ Reference \in [Reader -> Words]
    /\ wanted \in [Reader -> Words]

\* A reference that CFE_TIME_GetReference takes as valid is exactly what one
\* update published, the one that was current when the pass began, however many
\* updates were made while its words were read one by one.
ReadConsistent == \A r \in Reader : pc[r] = "done" => Reference[r] = wanted[r]

\* A pass fails only when the TIME task has at least started the fourth update
\* after the version the pass began with.  The two or three updates in rapid
\* succession that the 1Hz state machine makes disturb no reader, which is what
\* CFE_TIME_REFERENCE_BUF_DEPTH is chosen for.
RetryOnlyAfterDepth ==
    \A r \in Reader :
        pc[r] = "read" /\ ~Valid(r) =>
            Age(r) + (IF updating THEN 1 ELSE 0) >= CFE_TIME_REFERENCE_BUF_DEPTH

\* The TIME task never writes the buffer of the current version: what a reader
\* finds there is what FinishReferenceUpdate published.
CurrentStable == State[CurrState] = published

\* Every call of CFE_TIME_GetReference ends, although the TIME task may make
\* updates for ever: "to prevent getting stuck in this loop forever".
ReadEnds == \A r \in Reader : pc[r] = "read" ~> pc[r] \in {"done", "failed"}
=============================================================================
