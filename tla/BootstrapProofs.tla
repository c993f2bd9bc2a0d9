-------------------------- MODULE BootstrapProofs --------------------------
(***************************************************************************)
(* Proofs about Bootstrap, for any set of hub processes.                   *)
(***************************************************************************)
EXTENDS Bootstrap, TLAPS

\* BootInv is kept by every step of Open, by starts and by crashes.
LEMMA BootNext == ASSUME BootInv, [Next]_vars PROVE BootInv'
<1> USE BootstrapAssumption
    DEF BootInv, TypeOK, FileKeyWorks, MetaKeys, PCs, Identified, Goes, disk
<1>1. CASE UNCHANGED vars BY <1>1 DEF vars
<1>2. ASSUME NEW h \in Hubs, Start(h) PROVE BootInv'
      BY <1>2 DEF Start
<1>3. ASSUME NEW h \in Hubs, Dies(h), UNCHANGED <<disk, shown>> PROVE BootInv'
      BY <1>3 DEF Dies
<1>4. ASSUME NEW h \in Hubs, NEW k \in MetaKeys, ReadMeta(h, k) PROVE BootInv'
      BY <1>4 DEF ReadMeta, Reading, Storing, After
<1>5. ASSUME NEW h \in Hubs, NEW k \in MetaKeys, NEW v \in Values, StoreMeta(h, k, v)
      PROVE  BootInv'
      BY <1>5 DEF StoreMeta, Storing, After
<1>6. ASSUME NEW h \in Hubs, CountKeys(h) PROVE BootInv'
      BY <1>6 DEF CountKeys
<1>7. ASSUME NEW h \in Hubs, NEW key \in Keys, StoreKey(h, key) PROVE BootInv'
      BY <1>7 DEF StoreKey
<1>8. ASSUME NEW h \in Hubs, TruncateFile(h) \/ WriteFile(h) PROVE BootInv'
      BY <1>8 DEF TruncateFile, WriteFile
<1>9. ASSUME NEW h \in Hubs, Show(h) PROVE BootInv'
      BY <1>9 DEF Show
<1> QED BY <1>1, <1>2, <1>3, <1>4, <1>5, <1>6, <1>7, <1>8, <1>9
        DEF Next, Opens, StoreMetaConflicts, Crash

\* BootInv always holds, however many processes start, race and die.
THEOREM BootInvariant == Spec => []BootInv
<1>1. Init => BootInv
      BY BootstrapAssumption DEF Init, BootInv, TypeOK, FileKeyWorks, MetaKeys, PCs, Identified
<1> QED BY <1>1, BootNext, PTL DEF Spec

\* All processes that get through ensureMeta have the identity the state holds.
THEOREM IdentityIsShared == Spec => []OneIdentity
<1>1. BootInv => OneIdentity
      BY BootstrapAssumption DEF BootInv, TypeOK, OneIdentity, MetaKeys
<1> QED BY <1>1, BootInvariant, PTL

\* The stored identity never changes.
THEOREM IdentityIsStable == Spec => IdentityStable
<1>1. BootInv /\ [Next]_vars
        => [\A k \in MetaKeys : meta[k] # None => meta'[k] = meta[k]]_vars
      BY DEF BootInv, TypeOK, Next, vars, Opens, Start, Crash, ReadMeta, StoreMeta,
         StoreMetaConflicts, CountKeys, StoreKey, TruncateFile, WriteFile, Show, disk
<1> QED BY <1>1, BootInvariant, PTL DEF Spec, IdentityStable

\* The key in initial-api-key always has an active row.
THEOREM FileKeyAlwaysWorks == Spec => []FileKeyWorks
<1>1. BootInv => FileKeyWorks BY DEF BootInv
<1> QED BY <1>1, BootInvariant, PTL
=============================================================================
