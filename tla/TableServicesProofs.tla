------------------------ MODULE TableServicesProofs ------------------------
(***************************************************************************)
(* The access lists of the table registry, for any number of tables,       *)
(* descriptors and applications.  The invariant is about a registry R and  *)
(* descriptors H, so that it can be stated of the states                   *)
(* CFE_TBL_CleanUpApp goes through as well.                                *)
(***************************************************************************)
EXTENDS TableServices, WellFoundedInduction, TLAPS

-----------------------------------------------------------------------------
(***************************************************************************)
(* The invariant                                                           *)
(***************************************************************************)
\* The records and the descriptors have the fields that make up the lists.
RegistryOK(R) ==
    /\ DOMAIN R = Reg
    /\ \A r \in Reg : "OwnerAppId" \in DOMAIN R[r] /\ "HeadOfAccessList" \in DOMAIN R[r]
LinkFields == {"UsedFlag", "AppId", "RegIndex", "PrevLink", "NextLink"}
DescriptorTyped(d) ==
    /\ LinkFields \subseteq DOMAIN d
    /\ d.RegIndex \in Reg
    /\ d.PrevLink \in Handle \cup {END_OF_LIST} /\ d.NextLink \in Handle \cup {END_OF_LIST}
DescriptorsOK(H) == DOMAIN H = Handle /\ \A h \in Handle : DescriptorTyped(H[h])

\* The links of a descriptor in use lead to descriptors in use for the same
\* record and back, and from the first one to the record and back.
NextBack(H, h) ==
    H[h].NextLink # END_OF_LIST =>
        /\ H[H[h].NextLink].UsedFlag
        /\ H[H[h].NextLink].RegIndex = H[h].RegIndex
        /\ H[H[h].NextLink].PrevLink = h
PrevBack(H, h) ==
    H[h].PrevLink # END_OF_LIST =>
        /\ H[H[h].PrevLink].UsedFlag
        /\ H[H[h].PrevLink].RegIndex = H[h].RegIndex
        /\ H[H[h].PrevLink].NextLink = h
FirstBack(R, H, h) == H[h].PrevLink = END_OF_LIST => R[H[h].RegIndex].HeadOfAccessList = h
HeadBack(R, H, r) ==
    R[r].HeadOfAccessList # END_OF_LIST =>
        /\ R[r].HeadOfAccessList \in Handle
        /\ H[R[r].HeadOfAccessList].UsedFlag
        /\ H[R[r].HeadOfAccessList].RegIndex = r
        /\ H[R[r].HeadOfAccessList].PrevLink = END_OF_LIST
Linking(R, H) ==
    /\ \A h \in Handle : H[h].UsedFlag => NextBack(H, h) /\ PrevBack(H, h) /\ FirstBack(R, H, h)
    /\ \A r \in Reg : HeadBack(R, H, r)

\* There are no cycles: the links lead from lower to higher positions.
Ordered(H, pos) ==
    \A h \in Handle : H[h].UsedFlag /\ H[h].PrevLink # END_OF_LIST => pos[H[h].PrevLink] < pos[h]
Acyclic(H) == \E pos \in [Handle -> Nat] : Ordered(H, pos)
ListInv(R, H) == Linking(R, H) /\ Acyclic(H)

\* An owned table has a descriptor of its owner.
HasOwner(R, H, r) ==
    R[r].OwnerAppId # NoApp =>
        \E h \in Handle : H[h].UsedFlag /\ H[h].RegIndex = r /\ H[h].AppId = R[r].OwnerAppId

TableInv(R, H) ==
    /\ RegistryOK(R) /\ DescriptorsOK(H) /\ ListInv(R, H)
    /\ \A r \in Reg : HasOwner(R, H, r)
IInv == TableInv(Registry, Handles)
-----------------------------------------------------------------------------
(***************************************************************************)
(* Searches                                                                *)
(***************************************************************************)
\* A set of numbers has a least one: the first one a search finds.
LEMMA LeastExists ==
  ASSUME NEW S \in SUBSET Nat, S # {}
  PROVE  \E x \in S : \A y \in S : x <= y
<1>1. \E x \in S : \A y \in S : ~ (<<y, x>> \in OpToRel(<, Nat))
  BY ZenonT(60), NatLessThanWellFounded, WFMin
<1>2. PICK x \in S : \A y \in S : ~ (<<y, x>> \in OpToRel(<, Nat))
  BY ZenonT(60), <1>1
<1>3. \A y \in S : x <= y
  <2> SUFFICES ASSUME NEW y \in S, ~ (x <= y)
               PROVE  FALSE
    OBVIOUS
  <2>1. x \in Nat /\ y \in Nat /\ y < x
    OBVIOUS
  <2>2. <<y, x>> \in OpToRel(<, Nat)
    BY Zenon, <2>1 DEF OpToRel
  <2> QED BY ZenonT(60), <1>2, <2>2
<1> QED BY Zenon, <1>3

\* A search ends with an element of the set it searches, or with none.
LEMMA FirstFound ==
  ASSUME NEW S \in SUBSET Nat
  PROVE  /\ First(S, -1) = -1 <=> S = {}
         /\ First(S, -1) # -1 => First(S, -1) \in S
<1>1. CASE S = {}
  BY <1>1 DEF First
<1>2. CASE S # {}
  <2>1. \E x \in S : \A y \in S : x <= y
    BY Zenon, <1>2, LeastExists
  <2>2. Min(S) \in S
    BY Zenon, <2>1 DEF Min
  <2>3. First(S, -1) = Min(S)
    BY Zenon, <1>2 DEF First
  <2>4. \A x \in Nat : x # -1
    OBVIOUS
  <2>5. Min(S) # -1
    BY Zenon, <2>2, <2>4
  <2> QED BY Zenon, <2>2, <2>3, <2>5, <1>2
<1> QED BY Zenon, <1>1, <1>2

-----------------------------------------------------------------------------
(***************************************************************************)
(* The lists of descriptors                                                *)
(***************************************************************************)
UsedFor(H, r) == {h \in Handle : H[h].UsedFlag /\ H[h].RegIndex = r}

\* Of the descriptors in a set one comes first in its list.
LEMMA FirstInOrder ==
  ASSUME NEW pos \in [Handle -> Nat], NEW B \in SUBSET Handle, B # {}
  PROVE  \E m \in B : \A h \in B : pos[m] <= pos[h]
<1> DEFINE Positions == {pos[h] : h \in B}
<1>1. \A h \in B : pos[h] \in Nat
  OBVIOUS
<1>2. Positions \in SUBSET Nat
  BY Zenon, <1>1
<1>3. Positions # {}
  BY Zenon
<1> HIDE DEF Positions
<1>4. PICK x \in Positions : \A y \in Positions : x <= y
  BY Zenon, <1>2, <1>3, LeastExists
<1>5. PICK m \in B : x = pos[m]
  BY Zenon, <1>4 DEF Positions
<1>6. \A h \in B : pos[m] <= pos[h]
  BY Zenon, <1>4, <1>5 DEF Positions
<1> QED BY Zenon, <1>6

\* The link of a descriptor is a descriptor or the end of the list.
LEMMA LinkTypes ==
  ASSUME NEW H, DescriptorsOK(H), NEW h \in Handle
  PROVE  /\ H[h].RegIndex \in Reg /\ h # END_OF_LIST
         /\ H[h].NextLink # END_OF_LIST => H[h].NextLink \in Handle
         /\ H[h].PrevLink # END_OF_LIST => H[h].PrevLink \in Handle
<1>1. DescriptorTyped(H[h])
  BY Zenon DEF DescriptorsOK
<1>2. h # END_OF_LIST
  BY SizesAssumption DEF Handle, END_OF_LIST
<1> QED BY Zenon, <1>1, <1>2 DEF DescriptorTyped

\* A set with the head of a list and, with each descriptor, the next one has all
\* descriptors in use for the record: the first one outside would be the head
\* or the next one of one inside.
LEMMA AllReached ==
  ASSUME NEW R, NEW H, DescriptorsOK(H), ListInv(R, H), NEW r \in Reg, NEW S \in SUBSET Handle,
         R[r].HeadOfAccessList \in S \cup {END_OF_LIST},
         \A h \in S : H[h].NextLink \in S \cup {END_OF_LIST}
  PROVE  UsedFor(H, r) \subseteq S
<1> DEFINE B == UsedFor(H, r) \ S
<1> SUFFICES ASSUME B # {} PROVE FALSE
  BY Zenon
<1>1. B \in SUBSET Handle
  BY Zenon DEF UsedFor
<1>2. PICK pos \in [Handle -> Nat] : Ordered(H, pos)
  BY Zenon DEF ListInv, Acyclic
<1>3. PICK m \in B : \A x \in B : pos[m] <= pos[x]
  BY Zenon, <1>1, FirstInOrder
<1>4. m \in Handle /\ H[m].UsedFlag /\ H[m].RegIndex = r /\ m \notin S /\ m # END_OF_LIST
  BY Zenon, LinkTypes DEF UsedFor
<1>5. PrevBack(H, m) /\ FirstBack(R, H, m)
  BY Zenon, <1>4 DEF ListInv, Linking
<1> DEFINE p == H[m].PrevLink
<1>6. p # END_OF_LIST
  BY Zenon, <1>4, <1>5 DEF FirstBack
<1>7. p \in Handle
  BY Zenon, <1>4, <1>6, LinkTypes
<1>8. p \in UsedFor(H, r) /\ H[p].NextLink = m
  BY Zenon, <1>4, <1>5, <1>6, <1>7 DEF PrevBack, UsedFor
<1>9. p \in B
  BY Zenon, <1>4, <1>8
<1>10. pos[p] < pos[m] /\ pos[p] \in Nat /\ pos[m] \in Nat
  BY Zenon, <1>2, <1>4, <1>6, <1>7 DEF Ordered
<1> QED BY <1>3, <1>9, <1>10

\* What a loop through the list of a record meets are the descriptors in use
\* for that record.
LEMMA ListIsUsed ==
  ASSUME DescriptorsOK(Handles), ListInv(Registry, Handles), NEW r \in Reg
  PROVE  AccessList(r) = UsedFor(Handles, r)
<1> DEFINE U == UsedFor(Handles, r)
<1>1. U \in SUBSET Handle
  BY Zenon DEF UsedFor
<1>2. Registry[r].HeadOfAccessList \in U \cup {END_OF_LIST}
  BY Zenon DEF ListInv, Linking, HeadBack, UsedFor
<1>3. ASSUME NEW h \in U PROVE Handles[h].NextLink \in U \cup {END_OF_LIST}
  <2>1. h \in Handle /\ Handles[h].UsedFlag /\ Handles[h].RegIndex = r
    BY Zenon DEF UsedFor
  <2>2. NextBack(Handles, h)
    BY Zenon, <2>1 DEF ListInv, Linking
  <2> QED BY Zenon, <2>1, <2>2, LinkTypes DEF NextBack, UsedFor
<1>4. Linked(r, U)
  BY Zenon, <1>2, <1>3 DEF Linked
<1>5. AccessList(r) \subseteq U
  BY Zenon, <1>1, <1>4 DEF AccessList
<1>6. ASSUME NEW S \in SUBSET Handle, Linked(r, S) PROVE U \subseteq S
  BY Zenon, <1>6, AllReached DEF Linked
<1>7. U \subseteq AccessList(r)
  BY Zenon, <1>1, <1>6 DEF AccessList
<1> QED BY Zenon, <1>5, <1>7

\* A record that nobody has a descriptor of has an empty list.
LEMMA EmptyList ==
  ASSUME NEW R, NEW H, DescriptorsOK(H), ListInv(R, H), NEW r \in Reg
  PROVE  R[r].HeadOfAccessList = END_OF_LIST <=> UsedFor(H, r) = {}
<1>1. ASSUME R[r].HeadOfAccessList = END_OF_LIST PROVE UsedFor(H, r) = {}
  <2> DEFINE S == {}
  <2>1. /\ S \in SUBSET Handle /\ \A h \in S : H[h].NextLink \in S \cup {END_OF_LIST}
        /\ R[r].HeadOfAccessList \in S \cup {END_OF_LIST}
    BY Zenon, <1>1
  <2>2. \A h : h \notin S
    BY Zenon
  <2> HIDE DEF S
  <2>3. UsedFor(H, r) \subseteq S
    BY Zenon, <2>1, AllReached
  <2> QED BY Zenon, <2>2, <2>3
<1>2. ASSUME R[r].HeadOfAccessList # END_OF_LIST PROVE UsedFor(H, r) # {}
  BY Zenon, <1>2 DEF ListInv, Linking, HeadBack, UsedFor
<1> QED BY Zenon, <1>1, <1>2

\* The invariant says what CFE_TBL_Register, CFE_TBL_Share and
\* CFE_TBL_RemoveAccessLink promise of the lists.
LEMMA IInvLists ==
  ASSUME IInv
  PROVE  AccessListExact
<1>1. /\ DescriptorsOK(Handles) /\ ListInv(Registry, Handles)
      /\ \A r \in Reg : HasOwner(Registry, Handles, r)
  BY Zenon DEF IInv, TableInv
<1> SUFFICES ASSUME NEW r \in Reg
             PROVE  /\ AccessList(r) = {h \in Handle : Handles[h].UsedFlag /\ Handles[h].RegIndex = r}
                    /\ \A h \in AccessList(r) :
                         /\ (Handles[h].PrevLink = END_OF_LIST) = (Registry[r].HeadOfAccessList = h)
                         /\ Handles[h].NextLink # END_OF_LIST => Handles[Handles[h].NextLink].PrevLink = h
                    /\ Registry[r].OwnerAppId # NoApp =>
                         \E h \in AccessList(r) : Handles[h].AppId = Registry[r].OwnerAppId
  BY Zenon DEF AccessListExact
<1>2. AccessList(r) = {h \in Handle : Handles[h].UsedFlag /\ Handles[h].RegIndex = r}
  BY Zenon, <1>1, ListIsUsed DEF UsedFor
<1>3. ASSUME NEW h \in AccessList(r)
      PROVE  /\ (Handles[h].PrevLink = END_OF_LIST) = (Registry[r].HeadOfAccessList = h)
             /\ Handles[h].NextLink # END_OF_LIST => Handles[Handles[h].NextLink].PrevLink = h
  <2>1. h \in Handle /\ Handles[h].UsedFlag /\ Handles[h].RegIndex = r /\ h # END_OF_LIST
    BY Zenon, <1>1, <1>2, LinkTypes
  <2>2. NextBack(Handles, h) /\ FirstBack(Registry, Handles, h) /\ HeadBack(Registry, Handles, r)
    BY Zenon, <1>1, <2>1 DEF ListInv, Linking
  <2>3. Handles[h].PrevLink = END_OF_LIST => Registry[r].HeadOfAccessList = h
    BY Zenon, <2>1, <2>2 DEF FirstBack
  <2>4. Registry[r].HeadOfAccessList = h => Handles[h].PrevLink = END_OF_LIST
    BY Zenon, <2>1, <2>2 DEF HeadBack
  <2>5. Handles[h].NextLink # END_OF_LIST => Handles[Handles[h].NextLink].PrevLink = h
    BY Zenon, <2>2 DEF NextBack
  <2>6. (Handles[h].PrevLink = END_OF_LIST) = (Registry[r].HeadOfAccessList = h)
    BY Zenon, <2>3, <2>4
  <2> QED BY Zenon, <2>5, <2>6
<1>4. Registry[r].OwnerAppId # NoApp =>
        \E h \in AccessList(r) : Handles[h].AppId = Registry[r].OwnerAppId
  BY Zenon, <1>1, <1>2 DEF HasOwner
<1> QED BY Zenon, <1>2, <1>3, <1>4

-----------------------------------------------------------------------------
(***************************************************************************)
(* Steps that leave the lists alone                                        *)
(***************************************************************************)
SameRecord(rec2, rec) ==
    /\ "OwnerAppId" \in DOMAIN rec2 /\ "HeadOfAccessList" \in DOMAIN rec2
    /\ rec2.OwnerAppId = rec.OwnerAppId /\ rec2.HeadOfAccessList = rec.HeadOfAccessList
SameTables(R2, R) == DOMAIN R2 = Reg /\ \A r \in Reg : SameRecord(R2[r], R[r])
SameLinks(d2, d) ==
    /\ LinkFields \subseteq DOMAIN d2
    /\ d2.UsedFlag = d.UsedFlag /\ d2.AppId = d.AppId /\ d2.RegIndex = d.RegIndex
    /\ d2.PrevLink = d.PrevLink /\ d2.NextLink = d.NextLink
SameLists(H2, H) == DOMAIN H2 = Handle /\ \A h \in Handle : SameLinks(H2[h], H[h])

\* The lists are those of before when no link changes.
LEMMA ListsKept ==
  ASSUME NEW R, NEW H, NEW R2, NEW H2, TableInv(R, H), SameTables(R2, R), SameLists(H2, H)
  PROVE  TableInv(R2, H2)
<1>1. /\ RegistryOK(R) /\ DescriptorsOK(H) /\ Linking(R, H) /\ Acyclic(H)
      /\ \A r \in Reg : HasOwner(R, H, r)
  BY Zenon DEF TableInv, ListInv
<1>2. \A r \in Reg : /\ R2[r].HeadOfAccessList = R[r].HeadOfAccessList
                     /\ R2[r].OwnerAppId = R[r].OwnerAppId
  BY Zenon DEF SameTables, SameRecord
<1>3. ASSUME NEW h \in Handle, H2[h].UsedFlag
      PROVE  NextBack(H2, h) /\ PrevBack(H2, h) /\ FirstBack(R2, H2, h)
  <2>1. SameLinks(H2[h], H[h]) /\ H[h].UsedFlag
    BY Zenon, <1>3 DEF SameLists, SameLinks
  <2>2. NextBack(H, h) /\ PrevBack(H, h) /\ FirstBack(R, H, h)
    BY Zenon, <1>1, <2>1 DEF Linking
  <2>3. NextBack(H2, h)
    <3> SUFFICES ASSUME H[h].NextLink # END_OF_LIST PROVE NextBack(H2, h)
      BY Zenon, <2>1 DEF NextBack, SameLinks
    <3>1. SameLinks(H2[H[h].NextLink], H[H[h].NextLink])
      BY Zenon, <1>1, LinkTypes DEF SameLists
    <3> QED BY Zenon, <3>1, <2>1, <2>2 DEF NextBack, SameLinks
  <2>4. PrevBack(H2, h)
    <3> SUFFICES ASSUME H[h].PrevLink # END_OF_LIST PROVE PrevBack(H2, h)
      BY Zenon, <2>1 DEF PrevBack, SameLinks
    <3>1. SameLinks(H2[H[h].PrevLink], H[H[h].PrevLink])
      BY Zenon, <1>1, LinkTypes DEF SameLists
    <3> QED BY Zenon, <3>1, <2>1, <2>2 DEF PrevBack, SameLinks
  <2>5. FirstBack(R2, H2, h)
    BY Zenon, <1>1, <1>2, <2>1, <2>2, LinkTypes DEF FirstBack, SameLinks
  <2> QED BY Zenon, <2>3, <2>4, <2>5
<1>4. ASSUME NEW r \in Reg PROVE HeadBack(R2, H2, r)
  <2>1. HeadBack(R, H, r) /\ R2[r].HeadOfAccessList = R[r].HeadOfAccessList
    BY Zenon, <1>1, <1>2 DEF Linking
  <2> QED BY Zenon, <2>1 DEF HeadBack, SameLists, SameLinks
<1>5. Acyclic(H2)
  <2>1. PICK pos \in [Handle -> Nat] : Ordered(H, pos)
    BY Zenon, <1>1 DEF Acyclic
  <2>2. Ordered(H2, pos)
    BY Zenon, <2>1 DEF Ordered, SameLists, SameLinks
  <2> QED BY Zenon, <2>2 DEF Acyclic
<1>6. \A r \in Reg : HasOwner(R2, H2, r)
  <2> SUFFICES ASSUME NEW r \in Reg, R2[r].OwnerAppId # NoApp
               PROVE  \E h \in Handle : /\ H2[h].UsedFlag /\ H2[h].RegIndex = r
                                        /\ H2[h].AppId = R2[r].OwnerAppId
    BY Zenon DEF HasOwner
  <2>1. PICK h \in Handle : H[h].UsedFlag /\ H[h].RegIndex = r /\ H[h].AppId = R[r].OwnerAppId
    BY Zenon, <1>1, <1>2 DEF HasOwner
  <2> QED BY Zenon, <1>2, <2>1 DEF SameLists, SameLinks
<1>7. RegistryOK(R2)
  BY Zenon, <1>1 DEF RegistryOK, SameTables, SameRecord
<1>8. DescriptorsOK(H2)
  BY Zenon, <1>1 DEF DescriptorsOK, DescriptorTyped, SameLists, SameLinks
<1> QED BY Zenon, <1>3, <1>4, <1>5, <1>6, <1>7, <1>8 DEF TableInv, ListInv, Linking

\* Nothing that the lists are made of has changed.
LEMMA NothingChanged ==
  ASSUME NEW R, NEW H, RegistryOK(R), DescriptorsOK(H)
  PROVE  SameTables(R, R) /\ SameLists(H, H)
BY Zenon DEF RegistryOK, DescriptorsOK, DescriptorTyped, SameTables, SameRecord, SameLists, SameLinks

\* The fields of the records stay.
LEMMA ShapeKept ==
  ASSUME NEW R, NEW R2, SameTables(R2, R)
  PROVE  RegistryOK(R2)
BY Zenon DEF RegistryOK, SameTables, SameRecord

\* One change after another.
LEMMA SameTablesTwice ==
  ASSUME NEW R, NEW R1, NEW R2, SameTables(R1, R), SameTables(R2, R1)
  PROVE  SameTables(R2, R)
BY Zenon DEF SameTables, SameRecord

\* CFE_TBL_NotifyTblUsersOfUpdate, and what CFE_TBL_GetWorkingBuffer and a load
\* write, touch neither links nor owners.
LEMMA WorkKept ==
  ASSUME NEW R, RegistryOK(R), NEW r, NEW w, NEW d
  PROVE  /\ SameTables(LoadDone(R, r), R) /\ RegistryOK(LoadDone(R, r))
         /\ SameTables(PutOwn(R, r, w, d), R) /\ RegistryOK(PutOwn(R, r, w, d))
<1>1. SameTables(LoadDone(R, r), R)
  BY DEF RegistryOK, SameTables, SameRecord, LoadDone
<1>2. SameTables(PutOwn(R, r, w, d), R)
  BY DEF RegistryOK, SameTables, SameRecord, PutOwn
<1> QED BY Zenon, <1>1, <1>2, ShapeKept

\* The descriptors of the table are told, and those of other applications.
LEMMA NotifiedKept ==
  ASSUME DescriptorsOK(Handles), NEW r
  PROVE  SameLists(Notified(r), Handles)
<1>1. DOMAIN Notified(r) = Handle
  BY Zenon DEF Notified
<1>2. ASSUME NEW h \in Handle PROVE SameLinks(Notified(r)[h], Handles[h])
  <2>1. Notified(r)[h] = [Handles[h] EXCEPT !.Updated = TRUE] \/ Notified(r)[h] = Handles[h]
    BY Zenon DEF Notified
  <2>2. LinkFields \subseteq DOMAIN Handles[h]
    BY Zenon DEF DescriptorsOK, DescriptorTyped
  <2> QED BY <2>1, <2>2 DEF SameLinks, LinkFields
<1> QED BY Zenon, <1>1, <1>2 DEF SameLists

\* The lists are left alone.
Quiet == SameTables(Registry', Registry) /\ SameLists(Handles', Handles)

\* CFE_TBL_UpdateInternal swaps or copies, and tells the users of the table.
LEMMA UpdateQuiet ==
  ASSUME RegistryOK(Registry), DescriptorsOK(Handles), NEW r, NEW rg, NEW lb,
         RegistryOK(rg), SameTables(rg, Registry), UpdateInternal(r, rg, lb)
  PROVE  Quiet
<1> DEFINE i == rg[r].LoadInProgress
           active == [rg EXCEPT ![r].ActiveBufferIndex = i]
           copy == [rg EXCEPT ![r].Buffers[0].Data = lb[i].Data]
<1>1. \/ Registry' = rg /\ Handles' = Handles
      \/ Registry' = LoadDone(active, r) /\ Handles' = Notified(r)
      \/ Registry' = LoadDone(copy, r) /\ Handles' = Notified(r)
  BY Zenon DEF UpdateInternal
<1>2. SameTables(active, rg)
  BY DEF RegistryOK, SameTables, SameRecord
<1>3. SameTables(copy, rg)
  BY DEF RegistryOK, SameTables, SameRecord
<1> HIDE DEF active, copy
<1>4. RegistryOK(active) /\ RegistryOK(copy)
  BY Zenon, <1>2, <1>3, ShapeKept
<1>5. SameTables(LoadDone(active, r), Registry) /\ SameTables(LoadDone(copy, r), Registry)
  BY Zenon, <1>2, <1>3, <1>4, WorkKept, SameTablesTwice
<1> QED BY Zenon, <1>1, <1>5, NothingChanged, NotifiedKept DEF Quiet

\* The calls of the applications that have a descriptor leave the lists alone.
LEMMA CallQuiet ==
  ASSUME RegistryOK(Registry), DescriptorsOK(Handles), NEW a, NEW h \in Handle
  PROVE  /\ GetAddress(a, h) \/ ReleaseAddress(a, h) => Quiet
         /\ LoadAddress(a, h) \/ Update(a, h) => Quiet
         /\ ValidateInactive(a, h) \/ ValidateActive(a, h) \/ DumpToBuffer(a, h) => Quiet
         /\ \A img : Modified(a, h, img) => Quiet
<1>1. SameTables(Registry, Registry) /\ SameLists(Handles, Handles)
  BY Zenon, NothingChanged
<1>2. ASSUME GetAddress(a, h) \/ ReleaseAddress(a, h) PROVE Quiet
  <2>1. Registry' = Registry
    BY Zenon, <1>2 DEF GetAddress, ReleaseAddress
  <2>2. SameLists(Handles', Handles)
    BY <1>2 DEF GetAddress, ReleaseAddress, DescriptorsOK, DescriptorTyped, LinkFields, SameLists,
               SameLinks
  <2> QED BY Zenon, <1>1, <2>1, <2>2 DEF Quiet
<1>3. ASSUME LoadAddress(a, h) PROVE Quiet
  <2>1. Handles' = Handles
    BY Zenon, <1>3 DEF LoadAddress
  <2>2. SameTables(Registry', Registry)
    BY Zenon, <1>3 DEF LoadAddress, RegistryOK, SameTables, SameRecord
  <2> QED BY Zenon, <1>1, <2>1, <2>2 DEF Quiet
<1>4. ASSUME Update(a, h) PROVE Quiet
  <2>1. UpdateInternal(Handles[h].RegIndex, Registry, LoadBuffs)
    BY Zenon, <1>4 DEF Update
  <2> QED BY Zenon, <1>1, <2>1, UpdateQuiet
<1>5. ASSUME ValidateInactive(a, h) PROVE Quiet
  <2>1. Handles' = Handles
    BY Zenon, <1>5 DEF ValidateInactive
  <2>2. SameTables(Registry', Registry)
    BY Zenon, <1>5 DEF ValidateInactive, RegistryOK, SameTables, SameRecord
  <2> QED BY Zenon, <1>1, <2>1, <2>2 DEF Quiet
<1>6. ASSUME ValidateActive(a, h) PROVE Quiet
  <2>1. Handles' = Handles
    BY Zenon, <1>6 DEF ValidateActive
  <2>2. SameTables(Registry', Registry)
    BY <1>6 DEF ValidateActive, RegistryOK, SameTables, SameRecord
  <2> QED BY Zenon, <1>1, <2>1, <2>2 DEF Quiet
<1>7. ASSUME DumpToBuffer(a, h) PROVE Quiet
  <2>1. Handles' = Handles
    BY Zenon, <1>7 DEF DumpToBuffer
  <2>2. SameTables(Registry', Registry)
    BY Zenon, <1>7 DEF DumpToBuffer, RegistryOK, SameTables, SameRecord
  <2> QED BY Zenon, <1>1, <2>1, <2>2 DEF Quiet
<1>8. ASSUME NEW img, Modified(a, h, img) PROVE Quiet
  <2>1. SameTables(Registry', Registry)
    <3> DEFINE r == Handles[h].RegIndex
    <3>1. Registry' = [Registry EXCEPT ![r].Buffers[Registry[r].ActiveBufferIndex].Data = img]
      BY Zenon, <1>8 DEF Modified
    <3> QED BY Zenon, <3>1 DEF RegistryOK, SameTables, SameRecord
  <2>2. ASSUME NEW i \in Handle PROVE SameLinks(Handles'[i], Handles[i])
    <3>1. Handles'[i] = [Handles[i] EXCEPT !.Updated = TRUE] \/ Handles'[i] = Handles[i]
      BY Zenon, <1>8 DEF Modified
    <3>2. LinkFields \subseteq DOMAIN Handles[i]
      BY Zenon DEF DescriptorsOK, DescriptorTyped
    <3> QED BY <3>1, <3>2 DEF SameLinks, LinkFields
  <2>3. DOMAIN Handles' = Handle
    BY Zenon, <1>8 DEF Modified
  <2> QED BY Zenon, <2>1, <2>2, <2>3 DEF Quiet, SameLists
<1> QED BY Zenon, <1>2, <1>3, <1>4, <1>5, <1>6, <1>7, <1>8

\* So does CFE_TBL_Load, whether it is refused, completed or left to an update.
LEMMA LoadQuiet ==
  ASSUME RegistryOK(Registry), DescriptorsOK(Handles), NEW a, NEW h \in Handle, NEW img, NEW ok,
         Load(a, h, img, ok)
  PROVE  Quiet
<1> DEFINE r == Handles[h].RegIndex
           w == GetWorkingBuffer(r, TRUE)
           d == Loaded(r, img, ok)
           rg == PutOwn(WithLoadInProgress(r, w, TRUE), r, w, d)
           lb == PutShared(LoadBuffs, w, d)
           refused == [rg EXCEPT ![r].LoadInProgress = NONE]
           pending == [rg EXCEPT ![r].LoadPending = TRUE]
<1>1. \/ Registry' = refused /\ Handles' = Handles
      \/ UpdateInternal(r, pending, lb)
      \/ Registry' = LoadDone(rg, r) /\ Handles' = Notified(r)
  BY Zenon DEF Load
<1>2. SameTables(WithLoadInProgress(r, w, TRUE), Registry)
  BY DEF WithLoadInProgress, RegistryOK, SameTables, SameRecord
<1>3. SameTables(rg, Registry) /\ RegistryOK(rg)
  BY Zenon, <1>2, ShapeKept, WorkKept, SameTablesTwice
<1> HIDE DEF rg, lb
<1>4. SameTables(refused, rg)
  BY <1>3 DEF RegistryOK, SameTables, SameRecord
<1>5. SameTables(pending, rg)
  BY <1>3 DEF RegistryOK, SameTables, SameRecord
<1> HIDE DEF refused, pending
<1>6. /\ SameTables(refused, Registry) /\ SameTables(pending, Registry) /\ RegistryOK(pending)
      /\ SameTables(LoadDone(rg, r), Registry)
  BY Zenon, <1>3, <1>4, <1>5, ShapeKept, WorkKept, SameTablesTwice
<1> QED BY Zenon, <1>1, <1>6, UpdateQuiet, NothingChanged, NotifiedKept DEF Quiet

\* So do the commands of the table task.
LEMMA CommandQuiet ==
  ASSUME RegistryOK(Registry), DescriptorsOK(Handles), Command
  PROVE  Quiet
<1>1. Handles' = Handles
  <2>1. ASSUME NEW n, NEW img, NEW ok, LoadCmd(n, img, ok) PROVE Handles' = Handles
    BY Zenon, <2>1 DEF LoadCmd
  <2>2. ASSUME NEW n, NEW active, ValidateCmd(n, active) \/ DumpCmd(n, active)
        PROVE  Handles' = Handles
    BY Zenon, <2>2 DEF ValidateCmd, DumpCmd
  <2>3. ASSUME NEW n, ActivateCmd(n) \/ AbortLoadCmd(n) PROVE Handles' = Handles
    BY Zenon, <2>3 DEF ActivateCmd, AbortLoadCmd
  <2>4. HousekeepingCmd => Handles' = Handles
    BY Zenon DEF HousekeepingCmd
  <2> QED BY Zenon, <2>1, <2>2, <2>3, <2>4 DEF Command
<1>2. SameTables(Registry, Registry) /\ SameLists(Handles, Handles)
  BY Zenon, NothingChanged
<1> SUFFICES SameTables(Registry', Registry)
  BY Zenon, <1>1, <1>2 DEF Quiet
<1>3. ASSUME NEW r, NEW w PROVE SameTables(WithLoadInProgress(r, w, FALSE), Registry)
  BY DEF WithLoadInProgress, RegistryOK, SameTables, SameRecord
<1>4. ASSUME NEW n, NEW img, NEW ok, LoadCmd(n, img, ok) PROVE SameTables(Registry', Registry)
  <2> DEFINE r == FindTableInRegistry(n)
             w == GetWorkingBuffer(r, FALSE)
             d == IF ok THEN img ELSE TORN
             rg == PutOwn(WithLoadInProgress(r, w, FALSE), r, w, d)
             marked == [rg EXCEPT ![r].Buffers[w.Index].Validated = ~rg[r].Func]
  <2>1. Registry' = marked \/ Registry' = rg
    BY Zenon, <1>4 DEF LoadCmd
  <2>2. SameTables(rg, Registry) /\ RegistryOK(rg)
    BY Zenon, <1>3, ShapeKept, WorkKept, SameTablesTwice
  <2> HIDE DEF rg
  <2>3. SameTables(marked, rg)
    BY <2>2 DEF RegistryOK, SameTables, SameRecord
  <2> HIDE DEF marked
  <2> QED BY Zenon, <2>1, <2>2, <2>3, SameTablesTwice
<1>5. ASSUME NEW n, NEW active, ValidateCmd(n, active) PROVE SameTables(Registry', Registry)
  <2> DEFINE r == FindTableInRegistry(n)
  <2>1. \/ \E v : Registry' = [Registry EXCEPT ![r].ValidateActiveIndex = v]
        \/ \E v : Registry' = [Registry EXCEPT ![r].ValidateInactiveIndex = v]
        \/ Registry' = Registry
    BY Zenon, <1>5 DEF ValidateCmd
  <2> HIDE DEF r
  <2> QED BY <2>1 DEF RegistryOK, SameTables, SameRecord
<1>6. ASSUME NEW n, NEW active, DumpCmd(n, active) PROVE SameTables(Registry', Registry)
  <2> DEFINE r == FindTableInRegistry(n)
             w == GetWorkingBuffer(r, FALSE)
             rg == WithLoadInProgress(r, w, FALSE)
  <2>1. \E c : Registry' = [rg EXCEPT ![r].DumpControlIndex = c]
    BY Zenon, <1>6 DEF DumpCmd
  <2>2. SameTables(rg, Registry) /\ RegistryOK(rg)
    BY Zenon, <1>3, ShapeKept
  <2> HIDE DEF rg, r
  <2>3. SameTables(Registry', rg)
    BY <2>1, <2>2 DEF RegistryOK, SameTables, SameRecord
  <2> QED BY Zenon, <2>2, <2>3, SameTablesTwice
<1>7. ASSUME NEW n, ActivateCmd(n) \/ AbortLoadCmd(n) PROVE SameTables(Registry', Registry)
  BY <1>7 DEF ActivateCmd, AbortLoadCmd, RegistryOK, SameTables, SameRecord
<1>8. ASSUME HousekeepingCmd PROVE SameTables(Registry', Registry)
  <2>1. DOMAIN Registry' = Reg
    BY Zenon, <1>8 DEF HousekeepingCmd
  <2>2. ASSUME NEW r \in Reg PROVE SameRecord(Registry'[r], Registry[r])
    <3>1. Registry'[r] = [Registry[r] EXCEPT !.LoadInProgress = NONE] \/ Registry'[r] = Registry[r]
      BY Zenon, <1>8 DEF HousekeepingCmd
    <3> QED BY <3>1 DEF RegistryOK, SameRecord
  <2> QED BY Zenon, <2>1, <2>2 DEF SameTables
<1> QED BY Zenon, <1>4, <1>5, <1>6, <1>7, <1>8 DEF Command

-----------------------------------------------------------------------------
(***************************************************************************)
(* Registration                                                            *)
(***************************************************************************)
\* What CFE_TBL_Register leaves: a record that was free belongs to application a,
\* with a descriptor that was free.
Registered(R2, H2, R, H, a, r, h) ==
    /\ R[r].HeadOfAccessList = END_OF_LIST /\ ~H[h].UsedFlag
    /\ RegistryOK(R2) /\ \A s \in Reg : s # r => R2[s] = R[s]
    /\ R2[r].HeadOfAccessList = h /\ R2[r].OwnerAppId = a
    /\ DescriptorsOK(H2) /\ \A x \in Handle : x # h => H2[x] = H[x]
    /\ H2[h].UsedFlag /\ H2[h].AppId = a /\ H2[h].RegIndex = r
    /\ H2[h].PrevLink = END_OF_LIST /\ H2[h].NextLink = END_OF_LIST

\* The new table has a list with one descriptor.
LEMMA RegisteredLists ==
  ASSUME NEW R, NEW H, NEW R2, NEW H2, NEW a, NEW r \in Reg, NEW h \in Handle,
         DescriptorsOK(H), ListInv(R, H), Registered(R2, H2, R, H, a, r, h)
  PROVE  ListInv(R2, H2)
<1>1. UsedFor(H, r) = {}
  BY Zenon, EmptyList DEF Registered
<1>2. ASSUME NEW x \in Handle, H2[x].UsedFlag, x # h
      PROVE  H2[x] = H[x] /\ H[x].UsedFlag /\ H[x].RegIndex \in Reg /\ H[x].RegIndex # r
  <2>1. H2[x] = H[x] /\ H[x].UsedFlag
    BY Zenon, <1>2 DEF Registered
  <2>2. H[x].RegIndex \in Reg
    BY Zenon, LinkTypes
  <2> QED BY Zenon, <1>1, <2>1, <2>2 DEF UsedFor
<1>3. ASSUME NEW y \in Handle, H[y].UsedFlag PROVE H2[y] = H[y]
  BY Zenon, <1>3 DEF Registered
<1>4. ASSUME NEW x \in Handle, H2[x].UsedFlag
      PROVE  NextBack(H2, x) /\ PrevBack(H2, x) /\ FirstBack(R2, H2, x)
  <2>1. CASE x = h
    BY Zenon, <2>1 DEF Registered, NextBack, PrevBack, FirstBack
  <2>2. CASE x # h
    <3>1. H2[x] = H[x] /\ H[x].UsedFlag /\ H[x].RegIndex \in Reg /\ H[x].RegIndex # r
      BY Zenon, <1>2, <1>4, <2>2
    <3>2. /\ H[x].NextLink # END_OF_LIST => H[x].NextLink \in Handle
          /\ H[x].PrevLink # END_OF_LIST => H[x].PrevLink \in Handle
      BY Zenon, LinkTypes
    <3>3. NextBack(H, x) /\ PrevBack(H, x) /\ FirstBack(R, H, x)
      BY Zenon, <3>1 DEF ListInv, Linking
    <3>4. NextBack(H2, x)
      BY Zenon, <1>3, <3>1, <3>2, <3>3 DEF NextBack
    <3>5. PrevBack(H2, x)
      BY Zenon, <1>3, <3>1, <3>2, <3>3 DEF PrevBack
    <3>6. FirstBack(R2, H2, x)
      BY Zenon, <3>1, <3>3 DEF FirstBack, Registered
    <3> QED BY Zenon, <3>4, <3>5, <3>6
  <2> QED BY Zenon, <2>1, <2>2
<1>5. ASSUME NEW s \in Reg PROVE HeadBack(R2, H2, s)
  <2>1. CASE s = r
    BY Zenon, <2>1 DEF Registered, HeadBack
  <2>2. CASE s # r
    <3>1. R2[s] = R[s] /\ HeadBack(R, H, s)
      BY Zenon, <2>2 DEF Registered, ListInv, Linking
    <3> QED BY Zenon, <1>3, <3>1 DEF HeadBack
  <2> QED BY Zenon, <2>1, <2>2
<1>6. Acyclic(H2)
  <2>1. PICK pos \in [Handle -> Nat] : Ordered(H, pos)
    BY Zenon DEF ListInv, Acyclic
  <2>2. Ordered(H2, pos)
    BY Zenon, <1>2, <2>1 DEF Ordered, Registered
  <2> QED BY Zenon, <2>2 DEF Acyclic
<1> QED BY Zenon, <1>4, <1>5, <1>6 DEF ListInv, Linking

\* ... and every owner a descriptor.
LEMMA RegisteredInv ==
  ASSUME NEW R, NEW H, NEW R2, NEW H2, NEW a, NEW r \in Reg, NEW h \in Handle,
         TableInv(R, H), Registered(R2, H2, R, H, a, r, h)
  PROVE  TableInv(R2, H2)
<1>1. DescriptorsOK(H) /\ ListInv(R, H) /\ \A s \in Reg : HasOwner(R, H, s)
  BY Zenon DEF TableInv
<1>2. ListInv(R2, H2)
  BY Zenon, <1>1, RegisteredLists
<1>3. ASSUME NEW s \in Reg PROVE HasOwner(R2, H2, s)
  <2>1. CASE s = r
    BY Zenon, <2>1 DEF HasOwner, Registered
  <2>2. CASE s # r
    <3> SUFFICES ASSUME R2[s].OwnerAppId # NoApp
                 PROVE  \E x \in Handle : /\ H2[x].UsedFlag /\ H2[x].RegIndex = s
                                          /\ H2[x].AppId = R2[s].OwnerAppId
      BY Zenon DEF HasOwner
    <3>1. R2[s] = R[s]
      BY Zenon, <2>2 DEF Registered
    <3>2. PICK x \in Handle : H[x].UsedFlag /\ H[x].RegIndex = s /\ H[x].AppId = R[s].OwnerAppId
      BY Zenon, <1>1, <3>1 DEF HasOwner
    <3>3. H2[x] = H[x]
      BY Zenon, <3>2 DEF Registered
    <3> QED BY Zenon, <3>1, <3>2, <3>3
  <2> QED BY Zenon, <2>1, <2>2
<1> QED BY Zenon, <1>2, <1>3 DEF TableInv, Registered

\* The first free descriptor, the first free record, and the record of a name.
LEMMA Found ==
  ASSUME NEW n
  PROVE  /\ FindFreeHandle # END_OF_LIST =>
              FindFreeHandle \in Handle /\ ~Handles[FindFreeHandle].UsedFlag
         /\ FindFreeRegistryEntry # NOT_FOUND =>
              /\ FindFreeRegistryEntry \in Reg
              /\ Registry[FindFreeRegistryEntry].OwnerAppId = NoApp
              /\ Registry[FindFreeRegistryEntry].HeadOfAccessList = END_OF_LIST
         /\ FindTableInRegistry(n) # NOT_FOUND =>
              /\ FindTableInRegistry(n) \in Reg
              /\ Registry[FindTableInRegistry(n)].OwnerAppId # NoApp
<1>1. Reg \subseteq Nat /\ Handle \subseteq Nat
  BY SizesAssumption DEF Reg, Handle
<1>2. {h \in Handle : ~Handles[h].UsedFlag} \in SUBSET Nat
  BY Zenon, <1>1
<1>3. {r \in Reg : /\ Registry[r].OwnerAppId = NoApp
                   /\ Registry[r].HeadOfAccessList = END_OF_LIST} \in SUBSET Nat
  BY Zenon, <1>1
<1>4. {r \in Reg : Registry[r].OwnerAppId # NoApp /\ Registry[r].Name = n} \in SUBSET Nat
  BY Zenon, <1>1
<1>5. FindFreeHandle # END_OF_LIST =>
        FindFreeHandle \in {h \in Handle : ~Handles[h].UsedFlag}
  BY Zenon, <1>2, FirstFound DEF FindFreeHandle, END_OF_LIST
<1>6. FindFreeRegistryEntry # NOT_FOUND =>
        FindFreeRegistryEntry \in {r \in Reg : /\ Registry[r].OwnerAppId = NoApp
                                               /\ Registry[r].HeadOfAccessList = END_OF_LIST}
  BY Zenon, <1>3, FirstFound DEF FindFreeRegistryEntry, NOT_FOUND
<1>7. FindTableInRegistry(n) # NOT_FOUND =>
        FindTableInRegistry(n) \in {r \in Reg : Registry[r].OwnerAppId # NoApp /\ Registry[r].Name = n}
  BY Zenon, <1>4, FirstFound DEF FindTableInRegistry, NOT_FOUND
<1> QED BY Zenon, <1>5, <1>6, <1>7

\* The fields of a record that CFE_TBL_InitRegistryRecord or CFE_TBL_Register
\* fills in.
LEMMA NewRecordFields ==
  ASSUME NEW a, NEW n, NEW h
  PROVE  /\ NewRecord(a, n, h).OwnerAppId = a /\ NewRecord(a, n, h).HeadOfAccessList = h
         /\ "OwnerAppId" \in DOMAIN NewRecord(a, n, h)
         /\ "HeadOfAccessList" \in DOMAIN NewRecord(a, n, h)
         /\ InitRegistryRecord.OwnerAppId = NoApp
         /\ InitRegistryRecord.HeadOfAccessList = END_OF_LIST
         /\ "OwnerAppId" \in DOMAIN InitRegistryRecord
         /\ "HeadOfAccessList" \in DOMAIN InitRegistryRecord
<1>1. /\ InitRegistryRecord.OwnerAppId = NoApp
      /\ InitRegistryRecord.HeadOfAccessList = END_OF_LIST
      /\ "OwnerAppId" \in DOMAIN InitRegistryRecord
      /\ "HeadOfAccessList" \in DOMAIN InitRegistryRecord
  BY DEF InitRegistryRecord
<1>2. /\ NewRecord(a, n, h).OwnerAppId = a /\ NewRecord(a, n, h).HeadOfAccessList = h
      /\ "OwnerAppId" \in DOMAIN NewRecord(a, n, h)
      /\ "HeadOfAccessList" \in DOMAIN NewRecord(a, n, h)
  BY Zenon, <1>1 DEF NewRecord
<1> QED BY Zenon, <1>1, <1>2

\* A registration that fails leaves a free record, one that succeeds a table with
\* one descriptor.
LEMMA RegisterInv ==
  ASSUME IInv, NEW a, NEW n, Register(a, n)
  PROVE  IInv'
<1> DEFINE r == FindFreeRegistryEntry
           h == FindFreeHandle
           rec == NewRecord(a, n, h)
           desc == NewHandle(a, r, FALSE, END_OF_LIST)
           Restored(d) == [rec EXCEPT !.Buffers[0].Data = d]
           Told == [desc EXCEPT !.Updated = TRUE]
           half == [InitRegistryRecord EXCEPT
                       !.Buffers = [b \in 0..1 |-> IF b = 0 THEN ZeroBuffer ELSE NoBuffer],
                       !.DoubleBuffered = TRUE]
<1>1. r # NOT_FOUND /\ h # END_OF_LIST
  BY Zenon DEF Register
<1>2. /\ h \in Handle /\ ~Handles[h].UsedFlag /\ r \in Reg
      /\ Registry[r].OwnerAppId = NoApp /\ Registry[r].HeadOfAccessList = END_OF_LIST
  BY Zenon, <1>1, Found
<1>3. RegistryOK(Registry) /\ DescriptorsOK(Handles)
  BY Zenon DEF IInv, TableInv
<1>4. \/ /\ \/ Registry' = [Registry EXCEPT ![r] = half]
            \/ Registry' = [Registry EXCEPT ![r] = InitRegistryRecord]
         /\ Handles' = Handles
      \/ /\ \/ \E d : Registry' = LoadDone([Registry EXCEPT ![r] = Restored(d)], r)
            \/ \E d : Registry' = [Registry EXCEPT ![r] = Restored(d)]
            \/ Registry' = [Registry EXCEPT ![r] = rec]
         /\ \/ Handles' = [Handles EXCEPT ![h] = Told]
            \/ Handles' = [Handles EXCEPT ![h] = desc]
  BY ZenonT(60) DEF Register, RegisterCritical, HalfAllocated
<1>5. /\ rec.OwnerAppId = a /\ rec.HeadOfAccessList = h
      /\ "OwnerAppId" \in DOMAIN rec /\ "HeadOfAccessList" \in DOMAIN rec
      /\ desc.UsedFlag = TRUE /\ desc.AppId = a /\ desc.RegIndex = r /\ desc.PrevLink = END_OF_LIST
      /\ desc.NextLink = END_OF_LIST /\ LinkFields \subseteq DOMAIN desc
  <2>1. /\ rec.OwnerAppId = a /\ rec.HeadOfAccessList = h
        /\ "OwnerAppId" \in DOMAIN rec /\ "HeadOfAccessList" \in DOMAIN rec
    BY NewRecordFields
  <2>2. /\ desc.UsedFlag = TRUE /\ desc.AppId = a /\ desc.RegIndex = r
        /\ desc.PrevLink = END_OF_LIST /\ desc.NextLink = END_OF_LIST
        /\ LinkFields \subseteq DOMAIN desc
    BY DEF NewHandle, FreeHandle, LinkFields
  <2> QED BY Zenon, <2>1, <2>2
<1>6. /\ SameRecord(half, Registry[r]) /\ SameRecord(InitRegistryRecord, Registry[r])
  <2>1. /\ InitRegistryRecord.OwnerAppId = NoApp
        /\ InitRegistryRecord.HeadOfAccessList = END_OF_LIST
        /\ "OwnerAppId" \in DOMAIN InitRegistryRecord
        /\ "HeadOfAccessList" \in DOMAIN InitRegistryRecord
    BY Zenon, NewRecordFields
  <2> QED BY <1>2, <2>1 DEF SameRecord
<1> HIDE DEF r, h, rec, desc, half
<1>7. CASE /\ \/ Registry' = [Registry EXCEPT ![r] = half]
              \/ Registry' = [Registry EXCEPT ![r] = InitRegistryRecord]
           /\ Handles' = Handles
  <2>1. SameTables(Registry', Registry)
    BY <1>2, <1>3, <1>6, <1>7 DEF SameTables, SameRecord, RegistryOK
  <2>2. SameLists(Handles', Handles)
    BY Zenon, <1>3, <1>7, NothingChanged
  <2> QED BY Zenon, <2>1, <2>2, ListsKept DEF IInv
<1>8. CASE /\ \/ \E d : Registry' = LoadDone([Registry EXCEPT ![r] = Restored(d)], r)
              \/ \E d : Registry' = [Registry EXCEPT ![r] = Restored(d)]
              \/ Registry' = [Registry EXCEPT ![r] = rec]
           /\ \/ Handles' = [Handles EXCEPT ![h] = Told]
              \/ Handles' = [Handles EXCEPT ![h] = desc]
  <2>1. /\ RegistryOK(Registry') /\ \A s \in Reg : s # r => Registry'[s] = Registry[s]
        /\ Registry'[r].HeadOfAccessList = h /\ Registry'[r].OwnerAppId = a
    <3> DEFINE Goal == /\ RegistryOK(Registry')
                       /\ \A s \in Reg : s # r => Registry'[s] = Registry[s]
                       /\ Registry'[r].HeadOfAccessList = h /\ Registry'[r].OwnerAppId = a
    <3>1. ASSUME NEW d, Registry' = LoadDone([Registry EXCEPT ![r] = Restored(d)], r)
          PROVE  Goal
      BY <1>2, <1>3, <1>5, <3>1 DEF RegistryOK, LoadDone
    <3>2. ASSUME NEW d, Registry' = [Registry EXCEPT ![r] = Restored(d)] PROVE Goal
      BY <1>2, <1>3, <1>5, <3>2 DEF RegistryOK
    <3>3. ASSUME Registry' = [Registry EXCEPT ![r] = rec] PROVE Goal
      BY <1>2, <1>3, <1>5, <3>3 DEF RegistryOK
    <3> HIDE DEF Goal, Restored
    <3>4. Goal
      BY Zenon, <1>8, <3>1, <3>2, <3>3
    <3> QED BY Zenon, <3>4 DEF Goal
  <2>2. Handles'[h] = Told \/ Handles'[h] = desc
    BY Zenon, <1>2, <1>3, <1>8 DEF DescriptorsOK
  <2>3. DOMAIN Handles' = Handle /\ \A x \in Handle : x # h => Handles'[x] = Handles[x]
    BY <1>3, <1>8 DEF DescriptorsOK
  <2>4. /\ Handles'[h].UsedFlag /\ Handles'[h].AppId = a /\ Handles'[h].RegIndex = r
        /\ Handles'[h].PrevLink = END_OF_LIST /\ Handles'[h].NextLink = END_OF_LIST
        /\ LinkFields \subseteq DOMAIN Handles'[h]
    BY <1>5, <2>2 DEF LinkFields
  <2>5. DescriptorsOK(Handles')
    BY Zenon, <1>2, <1>3, <2>3, <2>4 DEF DescriptorsOK, DescriptorTyped
  <2>6. Registered(Registry', Handles', Registry, Handles, a, r, h)
    BY Zenon, <1>2, <2>1, <2>3, <2>4, <2>5 DEF Registered
  <2> QED BY Zenon, <1>2, <2>6, RegisteredInv DEF IInv
<1> QED BY Zenon, <1>4, <1>7, <1>8
-----------------------------------------------------------------------------
(***************************************************************************)
(* Sharing                                                                 *)
(***************************************************************************)
\* What CFE_TBL_Share leaves: a new descriptor h in front of the list.
SharedWith(R2, H2, R, H, a, r, h) ==
    LET head == R[r].HeadOfAccessList IN
    /\ head # END_OF_LIST /\ ~H[h].UsedFlag
    /\ RegistryOK(R2) /\ \A s \in Reg : s # r => R2[s] = R[s]
    /\ R2[r].HeadOfAccessList = h /\ R2[r].OwnerAppId = R[r].OwnerAppId
    /\ DescriptorsOK(H2) /\ \A x \in Handle : x # h /\ x # head => H2[x] = H[x]
    /\ H2[h].UsedFlag /\ H2[h].RegIndex = r
    /\ H2[h].PrevLink = END_OF_LIST /\ H2[h].NextLink = head
    /\ H2[head].UsedFlag = H[head].UsedFlag /\ H2[head].AppId = H[head].AppId
    /\ H2[head].RegIndex = H[head].RegIndex
    /\ H2[head].PrevLink = h /\ H2[head].NextLink = H[head].NextLink

\* The list of the table has one descriptor more.
LEMMA SharedLists ==
  ASSUME NEW R, NEW H, NEW R2, NEW H2, NEW a, NEW r \in Reg, NEW h \in Handle,
         DescriptorsOK(H), ListInv(R, H), SharedWith(R2, H2, R, H, a, r, h)
  PROVE  ListInv(R2, H2)
<1> DEFINE head == R[r].HeadOfAccessList
<1>1. /\ head \in Handle /\ H[head].UsedFlag /\ H[head].RegIndex = r
      /\ H[head].PrevLink = END_OF_LIST /\ head # h /\ head # END_OF_LIST /\ h # END_OF_LIST
  BY Zenon, LinkTypes DEF SharedWith, ListInv, Linking, HeadBack
<1>2. /\ \A x \in Handle : x # h /\ x # head => H2[x] = H[x]
      /\ H2[h].UsedFlag /\ H2[h].RegIndex = r
      /\ H2[h].PrevLink = END_OF_LIST /\ H2[h].NextLink = head
      /\ H2[head].UsedFlag /\ H2[head].RegIndex = r
      /\ H2[head].PrevLink = h /\ H2[head].NextLink = H[head].NextLink
      /\ R2[r].HeadOfAccessList = h /\ ~H[h].UsedFlag
      /\ \A s \in Reg : s # r => R2[s] = R[s]
  BY Zenon, <1>1 DEF SharedWith
<1> HIDE DEF head
<1>3. ASSUME NEW x \in Handle, H2[x].UsedFlag, x # h
      PROVE  /\ H[x].UsedFlag /\ H2[x].RegIndex = H[x].RegIndex /\ H[x].RegIndex \in Reg
             /\ H2[x].NextLink = H[x].NextLink
             /\ x # head => H2[x].PrevLink = H[x].PrevLink
             /\ NextBack(H, x) /\ PrevBack(H, x) /\ FirstBack(R, H, x)
             /\ H[x].NextLink # END_OF_LIST => H[x].NextLink \in Handle
             /\ H[x].PrevLink # END_OF_LIST => H[x].PrevLink \in Handle
  <2>1. /\ H[x].UsedFlag /\ H2[x].RegIndex = H[x].RegIndex /\ H2[x].NextLink = H[x].NextLink
        /\ x # head => H2[x].PrevLink = H[x].PrevLink
    BY Zenon, <1>1, <1>2, <1>3
  <2>2. NextBack(H, x) /\ PrevBack(H, x) /\ FirstBack(R, H, x)
    BY Zenon, <2>1 DEF ListInv, Linking
  <2>3. /\ H[x].NextLink # END_OF_LIST => H[x].NextLink \in Handle
        /\ H[x].PrevLink # END_OF_LIST => H[x].PrevLink \in Handle
        /\ H[x].RegIndex \in Reg
    BY Zenon, LinkTypes
  <2> QED BY Zenon, <2>1, <2>2, <2>3
<1>4. ASSUME NEW y \in Handle, H[y].UsedFlag
      PROVE  /\ y # h /\ H2[y].UsedFlag /\ H2[y].RegIndex = H[y].RegIndex
             /\ H2[y].NextLink = H[y].NextLink
             /\ y # head => H2[y].PrevLink = H[y].PrevLink
  <2>1. CASE y = head
    BY Zenon, <1>1, <1>2, <1>4, <2>1 DEF SharedWith, head
  <2>2. CASE y # head
    BY Zenon, <1>1, <1>2, <1>4, <2>2
  <2> QED BY Zenon, <2>1, <2>2
<1>5. ASSUME NEW x \in Handle, H2[x].UsedFlag
      PROVE  NextBack(H2, x) /\ PrevBack(H2, x) /\ FirstBack(R2, H2, x)
  <2>1. CASE x = h
    BY Zenon, <1>1, <1>2, <2>1 DEF NextBack, PrevBack, FirstBack
  <2>2. CASE x # h
    <3>1. NextBack(H2, x)
      <4> SUFFICES ASSUME H2[x].NextLink # END_OF_LIST
                   PROVE  /\ H2[H2[x].NextLink].UsedFlag
                          /\ H2[H2[x].NextLink].RegIndex = H2[x].RegIndex
                          /\ H2[H2[x].NextLink].PrevLink = x
        BY Zenon DEF NextBack
      <4> DEFINE y == H[x].NextLink
      <4>1. /\ y \in Handle /\ H2[x].NextLink = y /\ H2[x].RegIndex = H[x].RegIndex
            /\ H[y].UsedFlag /\ H[y].RegIndex = H[x].RegIndex /\ H[y].PrevLink = x
        BY Zenon, <1>3, <1>5, <2>2 DEF NextBack
      <4>2. y # head
        BY Zenon, <1>1, <4>1, LinkTypes
      <4> QED BY Zenon, <1>4, <4>1, <4>2
    <3>2. PrevBack(H2, x)
      <4>1. CASE x = head
        BY Zenon, <1>1, <1>2, <4>1 DEF PrevBack
      <4>2. CASE x # head
        <5> SUFFICES ASSUME H2[x].PrevLink # END_OF_LIST
                     PROVE  /\ H2[H2[x].PrevLink].UsedFlag
                            /\ H2[H2[x].PrevLink].RegIndex = H2[x].RegIndex
                            /\ H2[H2[x].PrevLink].NextLink = x
          BY Zenon DEF PrevBack
        <5> DEFINE y == H[x].PrevLink
        <5>1. /\ y \in Handle /\ H2[x].PrevLink = y /\ H2[x].RegIndex = H[x].RegIndex
              /\ H[y].UsedFlag /\ H[y].RegIndex = H[x].RegIndex /\ H[y].NextLink = x
          BY Zenon, <1>3, <1>5, <2>2, <4>2 DEF PrevBack
        <5> QED BY Zenon, <1>4, <5>1
      <4> QED BY Zenon, <4>1, <4>2
    <3>3. FirstBack(R2, H2, x)
      <4> SUFFICES ASSUME H2[x].PrevLink = END_OF_LIST
                   PROVE  R2[H2[x].RegIndex].HeadOfAccessList = x
        BY Zenon DEF FirstBack
      <4>1. x # head
        BY Zenon, <1>1, <1>2
      <4>2. /\ H2[x].RegIndex = H[x].RegIndex /\ H[x].RegIndex \in Reg
            /\ R[H[x].RegIndex].HeadOfAccessList = x
        BY Zenon, <1>3, <1>5, <2>2, <4>1 DEF FirstBack
      <4>3. H[x].RegIndex # r
        BY Zenon, <4>1, <4>2 DEF head
      <4> QED BY Zenon, <1>2, <4>2, <4>3
    <3> QED BY Zenon, <3>1, <3>2, <3>3
  <2> QED BY Zenon, <2>1, <2>2
<1>6. ASSUME NEW s \in Reg PROVE HeadBack(R2, H2, s)
  <2>1. CASE s = r
    BY Zenon, <1>2, <2>1 DEF HeadBack
  <2>2. CASE s # r
    <3>1. R2[s] = R[s] /\ HeadBack(R, H, s)
      BY Zenon, <1>2, <2>2 DEF ListInv, Linking
    <3> SUFFICES ASSUME R[s].HeadOfAccessList # END_OF_LIST
                 PROVE  /\ R[s].HeadOfAccessList \in Handle
                        /\ H2[R[s].HeadOfAccessList].UsedFlag
                        /\ H2[R[s].HeadOfAccessList].RegIndex = s
                        /\ H2[R[s].HeadOfAccessList].PrevLink = END_OF_LIST
      BY Zenon, <3>1 DEF HeadBack
    <3> DEFINE g == R[s].HeadOfAccessList
    <3>2. g \in Handle /\ H[g].UsedFlag /\ H[g].RegIndex = s /\ H[g].PrevLink = END_OF_LIST
      BY Zenon, <3>1 DEF HeadBack
    <3>3. g # head
      BY Zenon, <1>1, <2>2, <3>2
    <3> QED BY Zenon, <1>4, <3>2, <3>3
  <2> QED BY Zenon, <2>1, <2>2
<1>7. Acyclic(H2)
  <2>1. PICK pos \in [Handle -> Nat] : Ordered(H, pos)
    BY Zenon DEF ListInv, Acyclic
  <2> DEFINE pos2 == [x \in Handle |-> IF x = h THEN 0 ELSE pos[x] + 1]
  <2>2. pos2 \in [Handle -> Nat]
    OBVIOUS
  <2>3. ASSUME NEW x \in Handle, H2[x].UsedFlag, H2[x].PrevLink # END_OF_LIST
        PROVE  pos2[H2[x].PrevLink] < pos2[x]
    <3>1. x # h
      BY Zenon, <1>2, <2>3
    <3>2. CASE x = head
      <4>1. H2[x].PrevLink = h /\ pos[x] \in Nat
        BY Zenon, <1>2, <3>2
      <4> QED BY <3>1, <4>1
    <3>3. CASE x # head
      <4> DEFINE y == H[x].PrevLink
      <4>1. H2[x].PrevLink = y /\ H[x].UsedFlag /\ y \in Handle /\ y # END_OF_LIST /\ H[y].UsedFlag
        BY Zenon, <1>3, <2>3, <3>1, <3>3 DEF PrevBack
      <4>2. y # h
        BY Zenon, <1>2, <4>1
      <4>3. pos[y] < pos[x] /\ pos[y] \in Nat /\ pos[x] \in Nat
        BY Zenon, <2>1, <4>1 DEF Ordered
      <4> HIDE DEF y
      <4> QED BY <3>1, <4>1, <4>2, <4>3
    <3> QED BY Zenon, <3>2, <3>3
  <2> HIDE DEF pos2
  <2> QED BY Zenon, <2>2, <2>3 DEF Acyclic, Ordered
<1> QED BY Zenon, <1>5, <1>6, <1>7 DEF ListInv, Linking

\* ... and every owner still has a descriptor.
LEMMA SharedInv ==
  ASSUME NEW R, NEW H, NEW R2, NEW H2, NEW a, NEW r \in Reg, NEW h \in Handle,
         TableInv(R, H), SharedWith(R2, H2, R, H, a, r, h)
  PROVE  TableInv(R2, H2)
<1>1. DescriptorsOK(H) /\ ListInv(R, H) /\ \A s \in Reg : HasOwner(R, H, s)
  BY Zenon DEF TableInv
<1>2. ListInv(R2, H2)
  BY Zenon, <1>1, SharedLists
<1>3. ASSUME NEW s \in Reg PROVE HasOwner(R2, H2, s)
  <2> SUFFICES ASSUME R2[s].OwnerAppId # NoApp
               PROVE  \E x \in Handle : /\ H2[x].UsedFlag /\ H2[x].RegIndex = s
                                        /\ H2[x].AppId = R2[s].OwnerAppId
    BY Zenon DEF HasOwner
  <2>1. R2[s].OwnerAppId = R[s].OwnerAppId
    BY Zenon DEF SharedWith
  <2>2. PICK x \in Handle : H[x].UsedFlag /\ H[x].RegIndex = s /\ H[x].AppId = R[s].OwnerAppId
    BY Zenon, <1>1, <2>1 DEF HasOwner
  <2>3. H2[x].UsedFlag /\ H2[x].RegIndex = s /\ H2[x].AppId = R[s].OwnerAppId
    BY Zenon, <2>2 DEF SharedWith
  <2> QED BY Zenon, <2>1, <2>3
<1> QED BY Zenon, <1>2, <1>3 DEF TableInv, SharedWith

\* CFE_TBL_Share finds a head, since the owner of the table has a descriptor.
LEMMA ShareInv ==
  ASSUME IInv, NEW a, NEW n, Share(a, n)
  PROVE  IInv'
<1> DEFINE r == FindTableInRegistry(n)
           h == FindFreeHandle
           head == Registry[r].HeadOfAccessList
           desc == NewHandle(a, r, Registry[r].TableLoadedOnce, head)
<1>1. /\ RegistryOK(Registry) /\ DescriptorsOK(Handles) /\ ListInv(Registry, Handles)
      /\ \A s \in Reg : HasOwner(Registry, Handles, s)
  BY Zenon DEF IInv, TableInv
<1>2. r # NOT_FOUND /\ h # END_OF_LIST
  BY Zenon DEF Share
<1>3. h \in Handle /\ ~Handles[h].UsedFlag /\ r \in Reg /\ Registry[r].OwnerAppId # NoApp
  BY Zenon, <1>2, Found
<1>4. Handles' = [Handles EXCEPT ![h] = desc, ![head].PrevLink = h]
  BY Zenon DEF Share
<1>5. Registry' = [Registry EXCEPT ![r].HeadOfAccessList = h]
  BY Zenon DEF Share
<1>6. /\ desc.UsedFlag = TRUE /\ desc.RegIndex = r /\ desc.PrevLink = END_OF_LIST
      /\ desc.NextLink = head /\ LinkFields \subseteq DOMAIN desc
  BY DEF NewHandle, FreeHandle, LinkFields
<1> HIDE DEF r, h, desc
<1>7. head # END_OF_LIST
  <2>1. UsedFor(Handles, r) # {}
    BY Zenon, <1>1, <1>3 DEF HasOwner, UsedFor
  <2> QED BY Zenon, <1>1, <1>3, <2>1, EmptyList
<1>8. head \in Handle /\ head # h
  BY Zenon, <1>1, <1>3, <1>7 DEF ListInv, Linking, HeadBack
<1> HIDE DEF head
<1>9. /\ RegistryOK(Registry') /\ \A s \in Reg : s # r => Registry'[s] = Registry[s]
      /\ Registry'[r].HeadOfAccessList = h /\ Registry'[r].OwnerAppId = Registry[r].OwnerAppId
  BY <1>1, <1>3, <1>5 DEF RegistryOK
<1>10. /\ DOMAIN Handles' = Handle /\ \A x \in Handle : x # h /\ x # head => Handles'[x] = Handles[x]
       /\ Handles'[h] = desc /\ Handles'[head] = [Handles[head] EXCEPT !.PrevLink = h]
  BY <1>1, <1>3, <1>4, <1>8 DEF DescriptorsOK
<1>11. DescriptorTyped(Handles[head])
  BY Zenon, <1>1, <1>8 DEF DescriptorsOK
<1>12. /\ Handles'[head].UsedFlag = Handles[head].UsedFlag
       /\ Handles'[head].AppId = Handles[head].AppId
       /\ Handles'[head].RegIndex = Handles[head].RegIndex
       /\ Handles'[head].PrevLink = h /\ Handles'[head].NextLink = Handles[head].NextLink
       /\ LinkFields \subseteq DOMAIN Handles'[head]
  BY <1>10, <1>11 DEF DescriptorTyped, LinkFields
<1>13. DescriptorsOK(Handles')
  <2>1. DescriptorTyped(Handles'[h])
    BY Zenon, <1>3, <1>6, <1>8, <1>10 DEF DescriptorTyped
  <2>2. DescriptorTyped(Handles'[head])
    BY Zenon, <1>3, <1>11, <1>12 DEF DescriptorTyped
  <2> QED BY Zenon, <1>1, <1>10, <2>1, <2>2 DEF DescriptorsOK
<1>14. SharedWith(Registry', Handles', Registry, Handles, a, r, h)
  BY Zenon, <1>3, <1>6, <1>7, <1>9, <1>10, <1>12, <1>13 DEF SharedWith, head
<1> QED BY Zenon, <1>3, <1>14, SharedInv DEF IInv

-----------------------------------------------------------------------------
(***************************************************************************)
(* Removal of descriptors                                                  *)
(***************************************************************************)

\* What CFE_TBL_RemoveAccessLink leaves of a descriptor other than h.
OtherLinks(d2, d, x, prev, next) ==
    /\ DescriptorTyped(d2)
    /\ d2.UsedFlag = d.UsedFlag /\ d2.AppId = d.AppId /\ d2.RegIndex = d.RegIndex
    /\ d2.PrevLink = (IF x = next THEN prev ELSE d.PrevLink)
    /\ d2.NextLink = (IF x = prev THEN next ELSE d.NextLink)
Unlinked(H2, H, h) ==
    /\ DOMAIN H2 = Handle /\ DescriptorTyped(H2[h]) /\ ~H2[h].UsedFlag
    /\ \A x \in Handle : x # h => OtherLinks(H2[x], H[x], x, H[h].PrevLink, H[h].NextLink)

\* The neighbours of a descriptor in its list are three different ones with it.
Between(H, h) ==
    /\ H[h].NextLink # END_OF_LIST =>
         /\ H[h].NextLink \in Handle /\ H[h].NextLink # h
         /\ H[H[h].NextLink].UsedFlag /\ H[H[h].NextLink].RegIndex = H[h].RegIndex
         /\ H[H[h].NextLink].PrevLink = h
    /\ H[h].PrevLink # END_OF_LIST =>
         /\ H[h].PrevLink \in Handle /\ H[h].PrevLink # h
         /\ H[H[h].PrevLink].UsedFlag /\ H[H[h].PrevLink].RegIndex = H[h].RegIndex
         /\ H[H[h].PrevLink].NextLink = h
    /\ H[h].NextLink = H[h].PrevLink => H[h].NextLink = END_OF_LIST

\* So it is in the lists CFE_TBL_RemoveAccessLink takes a descriptor from.
LEMMA Neighbours ==
  ASSUME NEW R, NEW H, NEW h \in Handle, DescriptorsOK(H), ListInv(R, H), H[h].UsedFlag
  PROVE  Between(H, h)
<1> DEFINE n == H[h].NextLink
           p == H[h].PrevLink
<1>1. PICK pos \in [Handle -> Nat] : Ordered(H, pos)
  BY Zenon DEF ListInv, Acyclic
<1>2. NextBack(H, h) /\ PrevBack(H, h)
  BY Zenon DEF ListInv, Linking
<1>3. /\ h # END_OF_LIST /\ n # END_OF_LIST => n \in Handle
      /\ p # END_OF_LIST => p \in Handle
  BY Zenon, LinkTypes
<1>4. n # END_OF_LIST => n \in Handle /\ H[n].UsedFlag /\ H[n].PrevLink = h /\ H[n].RegIndex = H[h].RegIndex
  BY Zenon, <1>2, <1>3, LinkTypes DEF NextBack
<1>5. p # END_OF_LIST => p \in Handle /\ H[p].UsedFlag /\ H[p].NextLink = h /\ H[p].RegIndex = H[h].RegIndex
  BY Zenon, <1>2, <1>3, LinkTypes DEF PrevBack
<1>6. n # END_OF_LIST => pos[h] < pos[n]
  BY Zenon, <1>1, <1>4, LinkTypes DEF Ordered
<1>7. p # END_OF_LIST => pos[p] < pos[h]
  BY Zenon, <1>1, <1>5 DEF Ordered
<1>8. \A x \in Handle : pos[x] \in Nat
  OBVIOUS
<1> HIDE DEF n, p
<1>9. n # END_OF_LIST => n # h
  BY <1>4, <1>6, <1>8
<1>10. p # END_OF_LIST => p # h
  BY <1>5, <1>7, <1>8
<1>11. n = p => n = END_OF_LIST
  BY <1>4, <1>5, <1>6, <1>7, <1>8
<1> QED BY Zenon, <1>4, <1>5, <1>9, <1>10, <1>11 DEF Between, n, p

\* A free descriptor.
LEMMA FreeHandleTyped ==
  DescriptorTyped(FreeHandle) /\ ~FreeHandle.UsedFlag
BY SizesAssumption DEF FreeHandle, DescriptorTyped, LinkFields, Reg

\* The descriptors without the one that is removed.
LEMMA UnlinkEffect ==
  ASSUME NEW R, NEW H, NEW h \in Handle, DescriptorsOK(H), ListInv(R, H), H[h].UsedFlag,
         NEW H2, H2 = Unlink(H, h)
  PROVE  Unlinked(H2, H, h)
<1> DEFINE n == H[h].NextLink
           p == H[h].PrevLink
<1>1. DescriptorTyped(FreeHandle)
  BY Zenon, FreeHandleTyped
<1>2. H2[h] = FreeHandle
  BY Zenon DEF Unlink
<1>3. p \in Handle \cup {END_OF_LIST} /\ n \in Handle \cup {END_OF_LIST}
  BY Zenon, LinkTypes DEF DescriptorTyped
<1>4. ASSUME NEW x \in Handle, x # h PROVE OtherLinks(H2[x], H[x], x, p, n)
  <2>1. DescriptorTyped(H[x]) /\ x # END_OF_LIST
    BY Zenon, LinkTypes DEF DescriptorsOK
  <2>2. x = n => x # p
    <3>1. Between(H, h)
      BY Zenon, Neighbours
    <3> QED BY Zenon, <2>1, <3>1 DEF Between
  <2>3. H2[x] = CASE x = h -> FreeHandle
                  [] x # h /\ x = n -> [H[x] EXCEPT !.PrevLink = p]
                  [] x # h /\ x = p -> [H[x] EXCEPT !.NextLink = n]
                  [] OTHER -> H[x]
    BY Zenon DEF Unlink
  <2> HIDE DEF n, p
  <2>4. CASE x = n
    <3>1. H2[x] = [H[x] EXCEPT !.PrevLink = p]
      BY Zenon, <1>4, <2>2, <2>3, <2>4
    <3>2. /\ LinkFields \subseteq DOMAIN H2[x]
          /\ H2[x].UsedFlag = H[x].UsedFlag /\ H2[x].AppId = H[x].AppId
          /\ H2[x].RegIndex = H[x].RegIndex
          /\ H2[x].PrevLink = p /\ H2[x].NextLink = H[x].NextLink
      BY <2>1, <3>1 DEF DescriptorTyped, LinkFields
    <3>3. DescriptorTyped(H2[x])
      BY Zenon, <1>3, <2>1, <3>2 DEF DescriptorTyped
    <3> QED BY Zenon, <2>2, <2>4, <3>2, <3>3 DEF OtherLinks
  <2>5. CASE x = p
    <3>1. H2[x] = [H[x] EXCEPT !.NextLink = n]
      BY Zenon, <1>4, <2>2, <2>3, <2>5
    <3>2. /\ LinkFields \subseteq DOMAIN H2[x]
          /\ H2[x].UsedFlag = H[x].UsedFlag /\ H2[x].AppId = H[x].AppId
          /\ H2[x].RegIndex = H[x].RegIndex
          /\ H2[x].PrevLink = H[x].PrevLink /\ H2[x].NextLink = n
      BY <2>1, <3>1 DEF DescriptorTyped, LinkFields
    <3>3. DescriptorTyped(H2[x])
      BY Zenon, <1>3, <2>1, <3>2 DEF DescriptorTyped
    <3> QED BY Zenon, <2>2, <2>5, <3>2, <3>3 DEF OtherLinks
  <2>6. CASE x # n /\ x # p
    <3>1. H2[x] = H[x]
      BY Zenon, <1>4, <2>3, <2>6
    <3> QED BY Zenon, <2>1, <2>6, <3>1 DEF OtherLinks
  <2> QED BY Zenon, <2>4, <2>5, <2>6
<1>5. DOMAIN H2 = Handle
  BY Zenon DEF Unlink
<1> QED BY Zenon, <1>1, <1>2, <1>4, <1>5, FreeHandleTyped DEF Unlinked

\* Where the list of a record begins without descriptor h.
NewHead(R2, R, H, h) ==
    LET r == H[h].RegIndex IN
    /\ \A s \in Reg : s # r => R2[s] = R[s]
    /\ R2[r].HeadOfAccessList = (IF H[h].PrevLink = END_OF_LIST THEN H[h].NextLink
                                 ELSE R[r].HeadOfAccessList)

\* The list without the descriptor.
LEMMA UnlinkedLists ==
  ASSUME NEW R, NEW H, NEW R2, NEW H2, NEW h \in Handle, DescriptorsOK(H), ListInv(R, H),
         H[h].UsedFlag, Unlinked(H2, H, h), NewHead(R2, R, H, h)
  PROVE  ListInv(R2, H2)
<1> DEFINE n == H[h].NextLink
           p == H[h].PrevLink
           r == H[h].RegIndex
<1>1. /\ n # END_OF_LIST => /\ n \in Handle /\ n # h /\ H[n].UsedFlag /\ H[n].RegIndex = r
                            /\ H[n].PrevLink = h
      /\ p # END_OF_LIST => /\ p \in Handle /\ p # h /\ H[p].UsedFlag /\ H[p].RegIndex = r
                            /\ H[p].NextLink = h
      /\ n = p => n = END_OF_LIST
  <2>1. Between(H, h)
    BY Zenon, Neighbours
  <2> QED BY Zenon, <2>1 DEF Between
<1>2. h # END_OF_LIST /\ r \in Reg
  BY Zenon, LinkTypes
<1>3. p = END_OF_LIST => R[r].HeadOfAccessList = h
  BY Zenon DEF ListInv, Linking, FirstBack
<1>4. /\ \A s \in Reg : s # r => R2[s] = R[s]
      /\ p = END_OF_LIST => R2[r].HeadOfAccessList = n
      /\ p # END_OF_LIST => R2[r].HeadOfAccessList = R[r].HeadOfAccessList
  BY Zenon DEF NewHead
<1>5. ASSUME NEW x \in Handle, x # h
      PROVE  /\ H2[x].UsedFlag = H[x].UsedFlag /\ H2[x].RegIndex = H[x].RegIndex
             /\ x = n => H2[x].PrevLink = p
             /\ x # n => H2[x].PrevLink = H[x].PrevLink
             /\ x = p => H2[x].NextLink = n
             /\ x # p => H2[x].NextLink = H[x].NextLink
  BY ZenonT(60), <1>5 DEF Unlinked, OtherLinks
<1>6. ASSUME NEW x \in Handle, H[x].UsedFlag
      PROVE  /\ NextBack(H, x) /\ PrevBack(H, x) /\ FirstBack(R, H, x)
             /\ H[x].NextLink # END_OF_LIST => H[x].NextLink \in Handle
             /\ H[x].PrevLink # END_OF_LIST => H[x].PrevLink \in Handle
             /\ H[x].RegIndex \in Reg /\ x # END_OF_LIST
  BY Zenon, <1>6, LinkTypes DEF DescriptorTyped, ListInv, Linking
<1>7. \A s \in Reg : HeadBack(R, H, s)
  BY Zenon DEF ListInv, Linking
<1>8. ~H2[h].UsedFlag
  BY Zenon DEF Unlinked
<1> HIDE DEF n, p, r
<1>9. ASSUME NEW x \in Handle, H2[x].UsedFlag
      PROVE  NextBack(H2, x) /\ PrevBack(H2, x) /\ FirstBack(R2, H2, x)
  <2>1. x # h /\ H[x].UsedFlag
    BY Zenon, <1>5, <1>8, <1>9
  <2>2. NextBack(H2, x)
    <3> SUFFICES ASSUME H2[x].NextLink # END_OF_LIST
                 PROVE  /\ H2[H2[x].NextLink].UsedFlag
                        /\ H2[H2[x].NextLink].RegIndex = H2[x].RegIndex
                        /\ H2[H2[x].NextLink].PrevLink = x
      BY Zenon DEF NextBack
    <3>1. CASE x = p
      <4>1. H2[x].NextLink = n /\ n # END_OF_LIST
        BY Zenon, <1>5, <2>1, <3>1
      <4>2. n \in Handle /\ n # h /\ H[n].UsedFlag /\ H[n].RegIndex = r
        BY Zenon, <1>1, <4>1
      <4>3. H2[n].UsedFlag /\ H2[n].RegIndex = r /\ H2[n].PrevLink = p
        BY Zenon, <1>5, <4>2
      <4>4. H2[x].RegIndex = r
        BY Zenon, <1>1, <1>5, <1>6, <2>1, <3>1
      <4> QED BY Zenon, <3>1, <4>1, <4>3, <4>4
    <3>2. CASE x # p
      <4> DEFINE y == H[x].NextLink
      <4>1. H2[x].NextLink = y /\ y # END_OF_LIST /\ H2[x].RegIndex = H[x].RegIndex
        BY Zenon, <1>5, <2>1, <3>2
      <4>2. y \in Handle /\ H[y].UsedFlag /\ H[y].RegIndex = H[x].RegIndex /\ H[y].PrevLink = x
        BY Zenon, <1>6, <2>1, <4>1 DEF NextBack
      <4>3. y # h
        BY Zenon, <3>2, <4>2 DEF p
      <4>4. y # n
        BY Zenon, <1>1, <2>1, <4>1, <4>2
      <4> HIDE DEF y
      <4> QED BY Zenon, <1>5, <4>1, <4>2, <4>3, <4>4
    <3> QED BY Zenon, <3>1, <3>2
  <2>3. PrevBack(H2, x)
    <3> SUFFICES ASSUME H2[x].PrevLink # END_OF_LIST
                 PROVE  /\ H2[H2[x].PrevLink].UsedFlag
                        /\ H2[H2[x].PrevLink].RegIndex = H2[x].RegIndex
                        /\ H2[H2[x].PrevLink].NextLink = x
      BY Zenon DEF PrevBack
    <3>1. CASE x = n
      <4>1. H2[x].PrevLink = p /\ p # END_OF_LIST
        BY Zenon, <1>5, <2>1, <3>1
      <4>2. p \in Handle /\ p # h /\ H[p].UsedFlag /\ H[p].RegIndex = r
        BY Zenon, <1>1, <4>1
      <4>3. H2[p].UsedFlag /\ H2[p].RegIndex = r /\ H2[p].NextLink = n
        BY Zenon, <1>5, <4>2
      <4>4. H2[x].RegIndex = r
        BY Zenon, <1>1, <1>5, <1>6, <2>1, <3>1
      <4> QED BY Zenon, <3>1, <4>1, <4>3, <4>4
    <3>2. CASE x # n
      <4> DEFINE y == H[x].PrevLink
      <4>1. H2[x].PrevLink = y /\ y # END_OF_LIST /\ H2[x].RegIndex = H[x].RegIndex
        BY Zenon, <1>5, <2>1, <3>2
      <4>2. y \in Handle /\ H[y].UsedFlag /\ H[y].RegIndex = H[x].RegIndex /\ H[y].NextLink = x
        BY Zenon, <1>6, <2>1, <4>1 DEF PrevBack
      <4>3. y # h
        BY Zenon, <3>2, <4>2 DEF n
      <4>4. y # p
        BY Zenon, <1>1, <2>1, <4>1, <4>2
      <4> HIDE DEF y
      <4> QED BY Zenon, <1>5, <4>1, <4>2, <4>3, <4>4
    <3> QED BY Zenon, <3>1, <3>2
  <2>4. FirstBack(R2, H2, x)
    <3> SUFFICES ASSUME H2[x].PrevLink = END_OF_LIST
                 PROVE  R2[H2[x].RegIndex].HeadOfAccessList = x
      BY Zenon DEF FirstBack
    <3>1. CASE x = n
      <4>1. p = END_OF_LIST /\ H2[x].RegIndex = r
        BY Zenon, <1>1, <1>5, <1>6, <2>1, <3>1
      <4> QED BY Zenon, <1>4, <3>1, <4>1
    <3>2. CASE x # n
      <4>1. H2[x].RegIndex = H[x].RegIndex /\ H[x].PrevLink = END_OF_LIST
        BY Zenon, <1>5, <2>1, <3>2
      <4>2. H[x].RegIndex \in Reg /\ R[H[x].RegIndex].HeadOfAccessList = x
        BY Zenon, <1>6, <2>1, <4>1 DEF FirstBack
      <4>3. H[x].RegIndex = r => p # END_OF_LIST
        BY Zenon, <1>3, <2>1, <4>2
      <4> QED BY Zenon, <1>4, <4>1, <4>2, <4>3
    <3> QED BY Zenon, <3>1, <3>2
  <2> QED BY Zenon, <2>2, <2>3, <2>4
<1>10. ASSUME NEW s \in Reg PROVE HeadBack(R2, H2, s)
  <2> SUFFICES ASSUME R2[s].HeadOfAccessList # END_OF_LIST
               PROVE  /\ R2[s].HeadOfAccessList \in Handle
                      /\ H2[R2[s].HeadOfAccessList].UsedFlag
                      /\ H2[R2[s].HeadOfAccessList].RegIndex = s
                      /\ H2[R2[s].HeadOfAccessList].PrevLink = END_OF_LIST
    BY Zenon DEF HeadBack
  <2> DEFINE g == R2[s].HeadOfAccessList
  <2>1. CASE s = r /\ p = END_OF_LIST
    <3>1. g = n /\ n # END_OF_LIST
      BY Zenon, <1>4, <2>1
    <3>2. n \in Handle /\ n # h /\ H[n].UsedFlag /\ H[n].RegIndex = r
      BY Zenon, <1>1, <3>1
    <3>3. H2[n].UsedFlag /\ H2[n].RegIndex = r /\ H2[n].PrevLink = END_OF_LIST
      BY Zenon, <1>5, <2>1, <3>2
    <3> QED BY Zenon, <2>1, <3>1, <3>2, <3>3
  <2>2. CASE ~(s = r /\ p = END_OF_LIST)
    <3>1. g = R[s].HeadOfAccessList
      BY Zenon, <1>4, <2>2
    <3>2. g \in Handle /\ H[g].UsedFlag /\ H[g].RegIndex = s /\ H[g].PrevLink = END_OF_LIST
      BY Zenon, <1>7, <3>1 DEF HeadBack
    <3> HIDE DEF g
    <3>3. g # h
      BY Zenon, <2>2, <3>2 DEF r, p
    <3>4. g # n
      BY Zenon, <1>1, <1>2, <1>6, <3>2
    <3>5. H2[g].UsedFlag /\ H2[g].RegIndex = s /\ H2[g].PrevLink = END_OF_LIST
      BY Zenon, <1>5, <3>2, <3>3, <3>4
    <3> QED BY Zenon, <3>2, <3>5 DEF g
  <2> QED BY Zenon, <2>1, <2>2
<1>11. Acyclic(H2)
  <2>1. PICK pos \in [Handle -> Nat] : Ordered(H, pos)
    BY Zenon DEF ListInv, Acyclic
  <2>2. ASSUME NEW x \in Handle, H2[x].UsedFlag, H2[x].PrevLink # END_OF_LIST
        PROVE  pos[H2[x].PrevLink] < pos[x]
    <3>1. x # h /\ H[x].UsedFlag
      BY Zenon, <1>5, <1>8, <2>2
    <3>2. CASE x = n
      <4>1. H2[x].PrevLink = p /\ p # END_OF_LIST /\ n # END_OF_LIST
        BY Zenon, <1>5, <1>6, <2>2, <3>1, <3>2
      <4>2. pos[p] < pos[h]
        BY Zenon, <2>1, <4>1 DEF Ordered, p
      <4>3. pos[h] < pos[n]
        BY Zenon, <1>1, <1>2, <2>1, <4>1 DEF Ordered
      <4>4. pos[p] \in Nat /\ pos[h] \in Nat /\ pos[n] \in Nat
        BY <1>1, <4>1
      <4> QED BY <3>2, <4>1, <4>2, <4>3, <4>4
    <3>3. CASE x # n
      BY Zenon, <1>5, <2>1, <2>2, <3>1, <3>3 DEF Ordered
    <3> QED BY Zenon, <3>2, <3>3
  <2> QED BY Zenon, <2>1, <2>2 DEF Acyclic, Ordered
<1> QED BY Zenon, <1>9, <1>10, <1>11 DEF ListInv, Linking

\* A state that CFE_TBL_CleanUpApp goes through.
Memory(S) == S = [R |-> S.R, H |-> S.H, L |-> S.L, P |-> S.P]
MemoryInv(S) == Memory(S) /\ TableInv(S.R, S.H)

\* What the removal of descriptor h of application a leaves of memory S: the list
\* is shorter, and application a does not own the table any more.
RemovedFrom(T, S, a, h) ==
    LET r == S.H[h].RegIndex IN
    /\ Memory(T) /\ RegistryOK(T.R)
    /\ Unlinked(T.H, S.H, h) /\ NewHead(T.R, S.R, S.H, h)
    /\ T.R[r].OwnerAppId # NoApp =>
         S.R[r].OwnerAppId # a /\ T.R[r].OwnerAppId = S.R[r].OwnerAppId

\* The owner gives up the table.
Disowned(rec, a) ==
    IF rec.OwnerAppId = a THEN [rec EXCEPT !.OwnerAppId = NoApp, !.Name = NULL] ELSE rec

GivenUp(D, S, a, r) ==
    /\ Memory(D) /\ D.H = S.H /\ DOMAIN D.R = Reg
    /\ \A s \in Reg : s # r => D.R[s] = S.R[s]
    /\ D.R[r] = Disowned(S.R[r], a)

\* What CFE_TBL_Unregister does before it removes the descriptor.
LEMMA DisownEffect ==
  ASSUME NEW S, Memory(S), DOMAIN S.R = Reg, NEW a, NEW h, S.H[h].RegIndex \in Reg, NEW D,
         D = Disown(S, a, h)
  PROVE  GivenUp(D, S, a, S.H[h].RegIndex)
<1> DEFINE r == S.H[h].RegIndex
           R2 == [S.R EXCEPT ![r].OwnerAppId = NoApp, ![r].Name = NULL]
<1>1. CASE S.R[r].OwnerAppId = a
  <2>1. D = [S EXCEPT !.R[r].OwnerAppId = NoApp, !.R[r].Name = NULL]
    BY Zenon, <1>1 DEF Disown
  <2>2. D = [R |-> R2, H |-> S.H, L |-> S.L, P |-> S.P]
    BY Zenon, <2>1 DEF Memory
  <2>3. /\ DOMAIN R2 = Reg /\ \A s \in Reg : s # r => R2[s] = S.R[s]
        /\ R2[r] = [S.R[r] EXCEPT !.OwnerAppId = NoApp, !.Name = NULL]
    BY Zenon
  <2> HIDE DEF R2
  <2>4. D.R = R2 /\ D.H = S.H /\ D.L = S.L /\ D.P = S.P
    BY <2>2
  <2> QED BY Zenon, <1>1, <2>2, <2>3, <2>4 DEF Memory, Disowned, GivenUp
<1>2. CASE S.R[r].OwnerAppId # a
  <2>1. D = S
    BY Zenon, <1>2 DEF Disown
  <2> QED BY Zenon, <1>2, <2>1 DEF Disowned, GivenUp
<1> QED BY Zenon, <1>1, <1>2

\* The record without the descriptor.
Without(rec, a, d) ==
    IF d.PrevLink = END_OF_LIST
    THEN [Disowned(rec, a) EXCEPT !.HeadOfAccessList = d.NextLink] ELSE Disowned(rec, a)
Lessened(rec2, rec, a, d) ==
    /\ "OwnerAppId" \in DOMAIN rec2 /\ "HeadOfAccessList" \in DOMAIN rec2
    /\ rec2.OwnerAppId # NoApp => rec.OwnerAppId # a /\ rec2.OwnerAppId = rec.OwnerAppId
    /\ rec2.HeadOfAccessList = (IF d.PrevLink = END_OF_LIST THEN d.NextLink
                                ELSE rec.HeadOfAccessList)

\* The record CFE_TBL_RemoveAccessLink leaves has the next descriptor as its head
\* when the first one goes, and no longer the owner that gave it up.
LEMMA WithoutEffect ==
  ASSUME NEW rec, "OwnerAppId" \in DOMAIN rec, "HeadOfAccessList" \in DOMAIN rec, NEW a, NEW d,
         NEW rec2, rec2 = Without(rec, a, d)
  PROVE  Lessened(rec2, rec, a, d)
<1> DEFINE rec1 == Disowned(rec, a)
<1>1. /\ "OwnerAppId" \in DOMAIN rec1 /\ "HeadOfAccessList" \in DOMAIN rec1
      /\ rec1.HeadOfAccessList = rec.HeadOfAccessList
      /\ rec1.OwnerAppId # NoApp => rec.OwnerAppId # a /\ rec1.OwnerAppId = rec.OwnerAppId
  BY DEF Disowned
<1>2. rec2 = IF d.PrevLink = END_OF_LIST THEN [rec1 EXCEPT !.HeadOfAccessList = d.NextLink] ELSE rec1
  BY Zenon DEF Without
<1> HIDE DEF rec1
<1> QED BY <1>1, <1>2 DEF Lessened

\* The removal of a descriptor.
Dropped(S, a, h) == RemoveAccessLink(Disown(S, a, h), h)

\* CFE_TBL_RemoveAccessLink makes the list shorter by one, and clears the record
\* when it was the last.
LEMMA DroppedEffect ==
  ASSUME NEW S, MemoryInv(S), NEW a, NEW h \in Handle, S.H[h].UsedFlag, NEW T,
         T = Dropped(S, a, h)
  PROVE  RemovedFrom(T, S, a, h)
<1> DEFINE D == Disown(S, a, h)
           d == S.H[h]
           r == S.H[h].RegIndex
           rec == S.R[r]
           rec2 == Without(rec, a, d)
           H2 == Unlink(S.H, h)
           i == rec2.LoadInProgress
           frees == ~rec2.UserDefAddr /\ ~rec2.DoubleBuffered /\ i # NONE
           gone == [InitRegistryRecord EXCEPT !.LoadInProgress = IF rec2.UserDefAddr THEN i ELSE NONE]
<1>1. /\ Memory(S) /\ RegistryOK(S.R) /\ DescriptorsOK(S.H) /\ ListInv(S.R, S.H)
      /\ DOMAIN S.R = Reg
  BY Zenon DEF MemoryInv, TableInv, RegistryOK
<1>2. r \in Reg /\ "OwnerAppId" \in DOMAIN rec /\ "HeadOfAccessList" \in DOMAIN rec
  BY Zenon, <1>1, LinkTypes DEF RegistryOK
<1>3. /\ Memory(D) /\ D.H = S.H /\ DOMAIN D.R = Reg
      /\ \A s \in Reg : s # r => D.R[s] = S.R[s]
      /\ D.R[r] = Disowned(rec, a)
  <2>1. GivenUp(D, S, a, r)
    BY Zenon, <1>1, <1>2, DisownEffect
  <2> QED BY Zenon, <2>1 DEF GivenUp
<1>4. /\ "OwnerAppId" \in DOMAIN rec2 /\ "HeadOfAccessList" \in DOMAIN rec2
      /\ rec2.OwnerAppId # NoApp => rec.OwnerAppId # a /\ rec2.OwnerAppId = rec.OwnerAppId
      /\ rec2.HeadOfAccessList = (IF d.PrevLink = END_OF_LIST THEN d.NextLink
                                  ELSE rec.HeadOfAccessList)
  <2>1. Lessened(rec2, rec, a, d)
    BY Zenon, <1>2, WithoutEffect
  <2> HIDE DEF rec2, rec, d
  <2> QED BY Zenon, <2>1 DEF Lessened
<1>5. Unlinked(H2, S.H, h)
  BY Zenon, <1>1, UnlinkEffect
<1>6. T = IF Kept(rec2) THEN [D EXCEPT !.R[r] = rec2, !.H = H2]
          ELSE [R |-> [D.R EXCEPT ![r] = gone], H |-> H2,
                L |-> IF frees THEN [D.L EXCEPT ![i].Taken = FALSE] ELSE D.L,
                P |-> D.P + Returned(rec2)]
  <2> HIDE DEF D
  <2>1. T = RemoveAccessLink(D, h)
    BY Zenon DEF Dropped, D
  <2> QED BY Zenon, <1>3, <2>1 DEF RemoveAccessLink, Without
<1>7. /\ "OwnerAppId" \in DOMAIN gone /\ "HeadOfAccessList" \in DOMAIN gone
      /\ gone.OwnerAppId = NoApp /\ gone.HeadOfAccessList = END_OF_LIST
  BY DEF InitRegistryRecord
<1> HIDE DEF D, rec2, H2, d, i, frees, gone
<1>8. ASSUME NEW new, T.R = [D.R EXCEPT ![r] = new], T.H = H2, Memory(T),
             "OwnerAppId" \in DOMAIN new, "HeadOfAccessList" \in DOMAIN new,
             new.HeadOfAccessList = rec2.HeadOfAccessList,
             new.OwnerAppId # NoApp => new.OwnerAppId = rec2.OwnerAppId
      PROVE  RemovedFrom(T, S, a, h)
  <2>1. DOMAIN T.R = Reg /\ T.R[r] = new /\ \A s \in Reg : s # r => T.R[s] = S.R[s]
    BY <1>2, <1>3, <1>8
  <2>2. RegistryOK(T.R)
    BY Zenon, <1>1, <1>8, <2>1 DEF RegistryOK
  <2>3. NewHead(T.R, S.R, S.H, h)
    BY Zenon, <1>4, <1>8, <2>1 DEF NewHead, d
  <2> QED BY Zenon, <1>4, <1>5, <1>8, <2>1, <2>2, <2>3 DEF RemovedFrom
<1>9. CASE Kept(rec2)
  <2>1. T = [D EXCEPT !.R[r] = rec2, !.H = H2]
    BY Zenon, <1>6, <1>9
  <2>2. T = [R |-> [D.R EXCEPT ![r] = rec2], H |-> H2, L |-> D.L, P |-> D.P]
    BY Zenon, <1>3, <2>1 DEF Memory
  <2>3. Memory(T) /\ T.R = [D.R EXCEPT ![r] = rec2] /\ T.H = H2
    BY <2>2 DEF Memory
  <2> QED BY Zenon, <1>4, <1>8, <2>3
<1>10. CASE ~Kept(rec2)
  <2>1. T = [R |-> [D.R EXCEPT ![r] = gone], H |-> H2,
             L |-> IF frees THEN [D.L EXCEPT ![i].Taken = FALSE] ELSE D.L,
             P |-> D.P + Returned(rec2)]
    BY Zenon, <1>6, <1>10
  <2>2. Memory(T) /\ T.R = [D.R EXCEPT ![r] = gone] /\ T.H = H2
    BY <2>1 DEF Memory
  <2>3. gone.HeadOfAccessList = rec2.HeadOfAccessList
    BY Zenon, <1>7, <1>10 DEF Kept
  <2> QED BY Zenon, <1>7, <1>8, <2>2, <2>3
<1> QED BY Zenon, <1>9, <1>10

\* The removal of a descriptor keeps the invariant: a table that still has an
\* owner was of another application, whose descriptor stays.
LEMMA RemovedStep ==
  ASSUME NEW S, NEW T, NEW a, NEW h \in Handle, MemoryInv(S), S.H[h].UsedFlag, S.H[h].AppId = a,
         RemovedFrom(T, S, a, h)
  PROVE  MemoryInv(T)
<1> DEFINE r == S.H[h].RegIndex
<1>1. /\ RegistryOK(S.R) /\ DescriptorsOK(S.H) /\ ListInv(S.R, S.H)
      /\ \A s \in Reg : HasOwner(S.R, S.H, s)
  BY Zenon DEF MemoryInv, TableInv
<1>2. /\ Memory(T) /\ RegistryOK(T.R) /\ Unlinked(T.H, S.H, h) /\ NewHead(T.R, S.R, S.H, h)
      /\ T.R[r].OwnerAppId # NoApp =>
           S.R[r].OwnerAppId # a /\ T.R[r].OwnerAppId = S.R[r].OwnerAppId
  BY Zenon DEF RemovedFrom
<1>3. DescriptorsOK(T.H)
  BY Zenon, <1>2 DEF DescriptorsOK, Unlinked, OtherLinks
<1>4. ListInv(T.R, T.H)
  BY Zenon, <1>1, <1>2, UnlinkedLists
<1>5. ASSUME NEW x \in Handle, x # h
      PROVE  /\ T.H[x].UsedFlag = S.H[x].UsedFlag /\ T.H[x].AppId = S.H[x].AppId
             /\ T.H[x].RegIndex = S.H[x].RegIndex
  BY Zenon, <1>2, <1>5 DEF Unlinked, OtherLinks
<1>6. ASSUME NEW s \in Reg, T.R[s].OwnerAppId # NoApp
      PROVE  \E x \in Handle : /\ T.H[x].UsedFlag /\ T.H[x].RegIndex = s
                               /\ T.H[x].AppId = T.R[s].OwnerAppId
  <2>1. T.R[s].OwnerAppId = S.R[s].OwnerAppId /\ (s = r => S.R[s].OwnerAppId # a)
    BY Zenon, <1>2, <1>6 DEF NewHead
  <2>2. PICK x \in Handle : /\ S.H[x].UsedFlag /\ S.H[x].RegIndex = s
                            /\ S.H[x].AppId = S.R[s].OwnerAppId
    BY Zenon, <1>1, <1>6, <2>1 DEF HasOwner
  <2>3. x # h
    BY Zenon, <2>1, <2>2
  <2> QED BY Zenon, <1>5, <2>1, <2>2, <2>3
<1> QED BY Zenon, <1>2, <1>3, <1>4, <1>6 DEF MemoryInv, TableInv, HasOwner

\* What holds after the descriptors of application a up to k are removed.
CleanedUpTo(S, a, k) ==
    /\ MemoryInv(S)
    /\ \A x \in DescriptorsOf(a) : IF x <= k THEN ~S.H[x].UsedFlag
                                   ELSE S.H[x].UsedFlag /\ S.H[x].AppId = a

\* Nothing is removed yet.
LEMMA CleanUpStarts ==
  ASSUME IInv, NEW a
  PROVE  CleanedUpTo(Now, a, -1)
<1>1. Now.R = Registry /\ Now.H = Handles /\ Memory(Now)
  BY DEF Now, Memory
<1>2. MemoryInv(Now)
  BY Zenon, <1>1 DEF MemoryInv, IInv
<1>4. ASSUME NEW x \in DescriptorsOf(a)
      PROVE  IF x <= -1 THEN ~Now.H[x].UsedFlag ELSE Now.H[x].UsedFlag /\ Now.H[x].AppId = a
  <2>1. x \in Handle /\ Handles[x].UsedFlag /\ Handles[x].AppId = a
    BY Zenon DEF DescriptorsOf, ValidateAccess
  <2>2. ~(x <= -1)
    BY <2>1, SizesAssumption DEF Handle
  <2> QED BY Zenon, <1>1, <2>1, <2>2
<1> QED BY Zenon, <1>1, <1>2, <1>4 DEF CleanedUpTo

\* One descriptor more.
CleanedOf(S, a, h) == IF h \in DescriptorsOf(a) THEN Dropped(S, a, h) ELSE S

\* A turn of the loop in CFE_TBL_CleanUpApp keeps what the turns before it left.
LEMMA CleanUpGoesOn ==
  ASSUME NEW a, NEW h \in Handle, NEW S, CleanedUpTo(S, a, h - 1)
  PROVE  CleanedUpTo(CleanedOf(S, a, h), a, h)
<1>1. \A x \in Handle : (x <= h <=> x <= h - 1 \/ x = h) /\ ~(h <= h - 1)
  BY SizesAssumption DEF Handle
<1>2. \A x \in DescriptorsOf(a) : x \in Handle
  BY Zenon DEF DescriptorsOf
<1>3. CASE h \notin DescriptorsOf(a)
  <2>1. CleanedOf(S, a, h) = S
    BY Zenon, <1>3 DEF CleanedOf
  <2>2. \A x \in DescriptorsOf(a) : x <= h <=> x <= h - 1
    BY Zenon, <1>1, <1>2, <1>3
  <2> QED BY Zenon, <2>1, <2>2 DEF CleanedUpTo
<1>4. CASE h \in DescriptorsOf(a)
  <2> DEFINE T == Dropped(S, a, h)
  <2>1. CleanedOf(S, a, h) = T
    BY Zenon, <1>4 DEF CleanedOf
  <2>2. MemoryInv(S) /\ S.H[h].UsedFlag /\ S.H[h].AppId = a
    BY Zenon, <1>1, <1>4 DEF CleanedUpTo
  <2>3. RemovedFrom(T, S, a, h)
    BY Zenon, <2>2, DroppedEffect
  <2> HIDE DEF T
  <2>4. MemoryInv(T)
    BY Zenon, <2>2, <2>3, RemovedStep
  <2>7. ASSUME NEW x \in DescriptorsOf(a)
        PROVE  IF x <= h THEN ~T.H[x].UsedFlag ELSE T.H[x].UsedFlag /\ T.H[x].AppId = a
    <3>1. x \in Handle /\ (IF x <= h - 1 THEN ~S.H[x].UsedFlag
                           ELSE S.H[x].UsedFlag /\ S.H[x].AppId = a)
      BY Zenon, <1>2 DEF CleanedUpTo
    <3>2. ~T.H[h].UsedFlag
      BY Zenon, <2>3 DEF RemovedFrom, Unlinked
    <3>3. x # h => T.H[x].UsedFlag = S.H[x].UsedFlag /\ T.H[x].AppId = S.H[x].AppId
      BY Zenon, <2>3, <3>1 DEF RemovedFrom, Unlinked, OtherLinks
    <3> QED BY Zenon, <1>1, <3>1, <3>2, <3>3
  <2> QED BY Zenon, <2>1, <2>4, <2>7 DEF CleanedUpTo
<1> QED BY Zenon, <1>3, <1>4

\* The run of the loop in CFE_TBL_CleanUpApp over the descriptors up to k.
RunTo(f, a, k) == f = [h \in -1 .. k |-> IF h = -1 THEN Now ELSE CleanedOf(f[h-1], a, h)]

\* There is such a run, however many descriptors there are.
LEMMA RunExists ==
  ASSUME NEW a
  PROVE  \A k \in Nat : \E f : RunTo(f, a, k - 1)
<1> DEFINE Stuck == {k \in Nat : ~\E f : RunTo(f, a, k - 1)}
<1> SUFFICES ASSUME Stuck # {} PROVE FALSE
  BY Zenon
<1>1. PICK k \in Stuck : \A j \in Stuck : k <= j
  <2>1. Stuck \in SUBSET Nat
    BY Zenon
  <2> HIDE DEF Stuck
  <2> QED BY Zenon, <2>1, LeastExists
<1>2. k \in Nat /\ ~\E f : RunTo(f, a, k - 1)
  BY Zenon
<1>3. CASE k = 0
  <2> DEFINE f == [h \in -1 .. -1 |-> Now]
  <2>1. f = [h \in -1 .. -1 |-> IF h = -1 THEN Now ELSE CleanedOf(f[h-1], a, h)]
    OBVIOUS
  <2>2. k - 1 = -1
    BY <1>3
  <2>3. RunTo(f, a, k - 1)
    BY Zenon, <2>1, <2>2 DEF RunTo
  <2> QED BY Zenon, <1>2, <2>3
<1>4. CASE k # 0
  <2>1. k - 1 \in Nat /\ ~(k <= k - 1)
    BY <1>2, <1>4
  <2>2. k - 1 \notin Stuck
    BY Zenon, <1>1, <2>1
  <2>3. PICK g : RunTo(g, a, k - 1 - 1)
    BY Zenon, <2>1, <2>2
  <2> DEFINE m == k - 1
             last == CleanedOf(g[m - 1], a, m)
             f == [h \in -1 .. m |-> IF h = m THEN last ELSE g[h]]
  <2>4. m \in Nat
    BY <2>1
  <2>5. \A h \in -1 .. m - 1 : g[h] = IF h = -1 THEN Now ELSE CleanedOf(g[h-1], a, h)
    BY Zenon, <2>3 DEF RunTo
  <2>6. ASSUME NEW h \in -1 .. m
        PROVE  f[h] = IF h = -1 THEN Now ELSE CleanedOf(f[h-1], a, h)
    <3>1. CASE h = -1
      <4>1. h # m /\ h \in -1 .. m - 1
        BY <2>4, <3>1
      <4>2. f[h] = g[h]
        BY Zenon, <4>1
      <4> QED BY Zenon, <2>5, <3>1, <4>1, <4>2
    <3>2. CASE h = m
      <4>1. h # -1 /\ h - 1 \in -1 .. m /\ h - 1 # m
        BY <2>4, <3>2
      <4>2. f[h - 1] = g[h - 1] /\ f[h] = last
        BY Zenon, <3>2, <4>1
      <4> QED BY Zenon, <3>2, <4>1, <4>2
    <3>3. CASE h # -1 /\ h # m
      <4>1. h \in -1 .. m - 1 /\ h - 1 \in -1 .. m /\ h - 1 # m
        BY <2>4, <3>3
      <4>2. f[h] = g[h] /\ f[h - 1] = g[h - 1]
        BY Zenon, <3>3, <4>1
      <4> QED BY Zenon, <2>5, <3>3, <4>1, <4>2
    <3> QED BY Zenon, <3>1, <3>2, <3>3
  <2>7. f = [h \in -1 .. m |-> f[h]]
    OBVIOUS
  <2> HIDE DEF f
  <2>8. f = [h \in -1 .. m |-> IF h = -1 THEN Now ELSE CleanedOf(f[h-1], a, h)]
    BY Zenon, <2>6, <2>7
  <2>9. RunTo(f, a, k - 1)
    BY Zenon, <2>8 DEF RunTo
  <2> QED BY Zenon, <1>2, <2>9
<1> QED BY Zenon, <1>3, <1>4

\* CFE_TBL_CleanUpApp runs that loop.
LEMMA CleanUpRun ==
  ASSUME NEW a
  PROVE  RunTo(RemovedUpTo(a), a, NumHandles - 1)
<1>1. NumHandles \in Nat
  BY SizesAssumption
<1>2. \E f : RunTo(f, a, NumHandles - 1)
  BY Zenon, <1>1, RunExists
<1>3. \E f : f = [h \in -1 .. NumHandles - 1 |->
                    IF h = -1 THEN Now
                    ELSE IF h \in DescriptorsOf(a) THEN RemoveAccessLink(Disown(f[h-1], a, h), h)
                    ELSE f[h-1]]
  BY Zenon, <1>2 DEF RunTo, CleanedOf, Dropped
<1> QED BY Zenon, <1>3 DEF RunTo, CleanedOf, Dropped, RemovedUpTo

\* What CFE_TBL_CleanUpApp leaves.
LEMMA CleanUpEffect ==
  ASSUME IInv, NEW a
  PROVE  CleanedUpTo(RemovedUpTo(a)[NumHandles - 1], a, NumHandles - 1)
<1> DEFINE f == RemovedUpTo(a)
           Wrong == {k \in Nat : k <= NumHandles /\ ~CleanedUpTo(f[k - 1], a, k - 1)}
<1>1. NumHandles \in Nat
  BY SizesAssumption
<1>2. \A h \in -1 .. NumHandles - 1 : f[h] = IF h = -1 THEN Now ELSE CleanedOf(f[h-1], a, h)
  BY Zenon, CleanUpRun DEF RunTo
<1> HIDE DEF f
<1>3. ASSUME Wrong # {} PROVE FALSE
  <2>1. PICK k \in Wrong : \A j \in Wrong : k <= j
    <3>1. Wrong \in SUBSET Nat
      BY Zenon
    <3> HIDE DEF Wrong
    <3> QED BY Zenon, <1>3, <3>1, LeastExists
  <2>2. k \in Nat /\ k <= NumHandles /\ ~CleanedUpTo(f[k - 1], a, k - 1)
    BY Zenon
  <2>3. CASE k = 0
    <3>1. k - 1 = -1 /\ -1 \in -1 .. NumHandles - 1
      BY <1>1, <2>3
    <3>2. f[-1] = Now
      BY Zenon, <1>2, <3>1
    <3> QED BY Zenon, <2>2, <3>1, <3>2, CleanUpStarts
  <2>4. CASE k # 0
    <3>1. /\ k - 1 \in Nat /\ k - 1 <= NumHandles /\ ~(k <= k - 1)
          /\ k - 1 \in Handle /\ k - 1 \in -1 .. NumHandles - 1 /\ k - 1 # -1
      BY <1>1, <2>2, <2>4 DEF Handle
    <3>2. CleanedUpTo(f[k - 1 - 1], a, k - 1 - 1)
      BY Zenon, <2>1, <3>1
    <3>3. f[k - 1] = CleanedOf(f[k - 1 - 1], a, k - 1)
      BY Zenon, <1>2, <3>1
    <3> QED BY Zenon, <2>2, <3>1, <3>2, <3>3, CleanUpGoesOn
  <2> QED BY Zenon, <2>3, <2>4
<1>4. NumHandles \in Nat /\ NumHandles <= NumHandles
  BY <1>1
<1> QED BY Zenon, <1>3, <1>4 DEF f

\* CFE_TBL_Unregister keeps the invariant, whoever owns the table.
LEMMA UnregisterInv ==
  ASSUME IInv, NEW a, NEW h \in Handle, Unregister(a, h)
  PROVE  IInv'
<1> DEFINE T == Dropped(Now, a, h)
<1>1. Now.R = Registry /\ Now.H = Handles /\ Memory(Now)
  BY DEF Now, Memory
<1>2. MemoryInv(Now)
  BY Zenon, <1>1 DEF MemoryInv, IInv
<1>3. Now.H[h].UsedFlag /\ Now.H[h].AppId = a
  BY Zenon, <1>1 DEF Unregister, ValidateAccess
<1>4. Registry' = T.R /\ Handles' = T.H
  BY Zenon DEF Unregister, Removed, Dropped
<1>5. RemovedFrom(T, Now, a, h)
  BY Zenon, <1>2, <1>3, DroppedEffect
<1> HIDE DEF T
<1>6. MemoryInv(T)
  BY Zenon, <1>2, <1>3, <1>5, RemovedStep
<1> QED BY Zenon, <1>4, <1>6 DEF MemoryInv, IInv

\* CFE_TBL_CleanUpApp keeps it, with all the descriptors it removes.
LEMMA CleanUpAppInv ==
  ASSUME IInv, NEW a, CleanUpApp(a)
  PROVE  IInv'
<1> DEFINE T == RemovedUpTo(a)[NumHandles - 1]
<1>1. Registry' = T.R /\ Handles' = T.H
  BY Zenon DEF CleanUpApp, Removed
<1>2. CleanedUpTo(T, a, NumHandles - 1)
  BY Zenon, CleanUpEffect
<1> HIDE DEF T
<1> QED BY Zenon, <1>1, <1>2 DEF CleanedUpTo, MemoryInv, IInv
-----------------------------------------------------------------------------
(***************************************************************************)
(* The theorem                                                             *)
(***************************************************************************)
\* What CFE_TBL_EarlyInit builds, at start up and after a processor reset.
LEMMA EmptyTables ==
  ASSUME NEW R, NEW H, R = EarlyInitMemory.Registry, H = EarlyInitMemory.Handles
  PROVE  TableInv(R, H)
<1>1. R = [r \in Reg |-> InitRegistryRecord] /\ H = [h \in Handle |-> FreeHandle]
  BY DEF EarlyInitMemory
<1>2. /\ InitRegistryRecord.OwnerAppId = NoApp
      /\ InitRegistryRecord.HeadOfAccessList = END_OF_LIST
      /\ "OwnerAppId" \in DOMAIN InitRegistryRecord
      /\ "HeadOfAccessList" \in DOMAIN InitRegistryRecord
  BY Zenon, NewRecordFields
<1>3. /\ DOMAIN R = Reg /\ \A r \in Reg : R[r] = InitRegistryRecord
      /\ DOMAIN H = Handle /\ \A h \in Handle : H[h] = FreeHandle
  BY Zenon, <1>1
<1>4. RegistryOK(R) /\ DescriptorsOK(H)
  BY Zenon, <1>2, <1>3, FreeHandleTyped DEF RegistryOK, DescriptorsOK
<1>5. \A h \in Handle : ~H[h].UsedFlag
  BY Zenon, <1>3, FreeHandleTyped
<1>6. Linking(R, H)
  BY Zenon, <1>2, <1>3, <1>5 DEF Linking, HeadBack
<1>7. Acyclic(H)
  <2> DEFINE pos == [h \in Handle |-> 0]
  <2>1. pos \in [Handle -> Nat]
    OBVIOUS
  <2>2. Ordered(H, pos)
    BY Zenon, <1>5 DEF Ordered
  <2> QED BY Zenon, <2>1, <2>2 DEF Acyclic
<1>8. \A r \in Reg : HasOwner(R, H, r)
  BY Zenon, <1>2, <1>3 DEF HasOwner
<1> QED BY Zenon, <1>4, <1>6, <1>7, <1>8 DEF TableInv, ListInv

\* A call of an application keeps the invariant.
LEMMA CallInv ==
  ASSUME IInv, NEW a, Call(a)
  PROVE  IInv'
<1>1. RegistryOK(Registry) /\ DescriptorsOK(Handles)
  BY Zenon DEF IInv, TableInv
<1>2. ASSUME Quiet PROVE IInv'
  BY Zenon, <1>2, ListsKept DEF Quiet, IInv
<1>3. ASSUME NEW n, Register(a, n) \/ Share(a, n) PROVE IInv'
  BY Zenon, <1>3, RegisterInv, ShareInv
<1>4. ASSUME NEW h \in Handle,
             \/ Unregister(a, h) \/ GetAddress(a, h) \/ ReleaseAddress(a, h)
             \/ LoadAddress(a, h) \/ Update(a, h)
             \/ ValidateInactive(a, h) \/ ValidateActive(a, h) \/ DumpToBuffer(a, h)
             \/ \E img, ok : Load(a, h, img, ok)
             \/ \E img : Modified(a, h, img)
      PROVE  IInv'
  <2>1. CASE Unregister(a, h)
    BY Zenon, <2>1, UnregisterInv
  <2>2. CASE GetAddress(a, h) \/ ReleaseAddress(a, h) \/ LoadAddress(a, h) \/ Update(a, h)
    BY Zenon, <1>1, <1>2, <2>2, CallQuiet
  <2>3. CASE \/ ValidateInactive(a, h) \/ ValidateActive(a, h) \/ DumpToBuffer(a, h)
             \/ \E img : Modified(a, h, img)
    BY Zenon, <1>1, <1>2, <2>3, CallQuiet
  <2>4. CASE \E img, ok : Load(a, h, img, ok)
    BY Zenon, <1>1, <1>2, <2>4, LoadQuiet
  <2> QED BY Zenon, <1>4, <2>1, <2>2, <2>3, <2>4
<1> QED BY Zenon, <1>3, <1>4 DEF Call

\* The descriptors of every record stay linked in one list, in which an owner of
\* the table has one, through every call, command, deletion of an application
\* and processor reset: CFE_TBL_NotifyTblUsersOfUpdate reaches every user of a
\* table, and CFE_TBL_Share always finds a head to put its descriptor before.
THEOREM ListsAreExact ==
  Spec => []AccessListExact
<1>1. Init => IInv
  BY Zenon, EmptyTables DEF Init, IInv
<1>2. ASSUME IInv, [Next]_vars PROVE IInv'
  <2>1. RegistryOK(Registry) /\ DescriptorsOK(Handles)
    BY Zenon, <1>2 DEF IInv, TableInv
  <2>2. CASE Command
    <3>1. Quiet
      BY Zenon, <2>1, <2>2, CommandQuiet
    <3> QED BY Zenon, <1>2, <3>1, ListsKept DEF Quiet, IInv
  <2>3. CASE Reset
    <3>1. /\ Registry' = EarlyInitMemory.Registry
          /\ Handles' = EarlyInitMemory.Handles
      BY Zenon, <2>3 DEF Reset, ProcessorReset, ResetInCriticalUpdate, Restart
    <3> QED BY Zenon, <3>1, EmptyTables DEF IInv
  <2>4. CASE \E a \in App : Call(a) \/ CleanUpApp(a)
    BY Zenon, <1>2, <2>4, CallInv, CleanUpAppInv
  <2>5. CASE UNCHANGED vars
    <3>1. Registry' = Registry /\ Handles' = Handles
      BY Zenon, <2>5 DEF vars
    <3> QED BY Zenon, <1>2, <3>1 DEF IInv
  <2> QED BY Zenon, <1>2, <2>2, <2>3, <2>4, <2>5 DEF Next
<1>3. IInv => AccessListExact
  BY Zenon, IInvLists
<1> QED BY <1>1, <1>2, <1>3, PTL DEF Spec
=============================================================================
