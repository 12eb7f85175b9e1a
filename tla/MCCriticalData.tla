--------------------------- MODULE MCCriticalData --------------------------
\* Instances of CriticalData for TLC.
EXTENDS CriticalData, TLC

CONSTANTS x, y, z

\* Applications are interchangeable.
Names == Permutations(Name)

\* The blocks whose contents a later state may be judged by: no guard reads
\* the contents of a block, and the properties only those of a block that an
\* entry names whose application has stored something, which begins with
\* writing both header and data.
Live ==
    {reg[i].offset : <<reg, i>> \in {<<reg, i>> \in {Registry, SavedRegistry} \X Index :
                        reg[i].name \in Name /\ Stored[reg[i].name] # NONE}}
        \cup (IF call.pc = "data" THEN {Registry[ToIndex(call.id)].offset} ELSE {})

\* States that differ in contents nobody will look at are one.
LiveView ==
    <<Signature, RegSize, SavedRegistry, Desc, memory, Stored, lost,
      [o \in Offset |-> IF o \in Live THEN <<Crc[o], Data[o]>> ELSE Data[o] = JUNK]>>
=============================================================================
