------------------------ MODULE PersistLibraryProofs ------------------------
(***************************************************************************)
(* Theorems of PersistLibrary, for every value of its constants.           *)
(***************************************************************************)
EXTENDS PersistLibrary, TLAPS

-----------------------------------------------------------------------------
(* The operators the model is built from.                                  *)

\* The length of a payload file is a natural number.
LEMMA BytesType == ASSUME NEW f \in Component PROVE Bytes(f) \in Nat
BY PersistLibraryAssumption DEF Bytes, Component, Payload

\* The size of an entry is an integer.
LEMMA EntrySizeType == ASSUME NEW e \in Entry PROVE EntrySize(e) \in Nat
BY BytesType DEF EntrySize, Entry, Component

\* A saved target or draft state is a payload of its prompt.
LEMMA PayloadType ==
    ASSUME NEW p \in Prompts, NEW d \in Drafters, TypeOK
    PROVE  /\ TargetPayload(p) \in Payload
           /\ DraftPayload(p, d) \in Component
BY PersistLibraryAssumption DEF TargetPayload, DraftPayload, Payload, Component

\* The sidecar of an entry is well formed.
LEMMA MetaType == ASSUME NEW e \in Entry, TypeOK PROVE MetaOf(e) \in Meta
BY PersistLibraryAssumption DEF MetaOf, Meta, Entry, TypeOK, Config

\* What a failing removal leaves is still a directory.
LEMMA LeftoversType ==
    ASSUME NEW d \in Directory, NEW left \in Leftovers(d) PROVE left \in Directory
BY DEF Leftovers, Directory, Component

\* Usage bookkeeping keeps an entry an entry.
LEMMA TouchedType ==
    ASSUME NEW e \in Entry, TypeOK
    PROVE  Touched(e) \in Entry
<1>1. e.hits + 1 \in Nat /\ clock \in Nat
  BY DEF Entry, TypeOK
<1>2. [[e EXCEPT !.hits = e.hits + 1] EXCEPT !.lastUsed = clock] \in Entry
  BY <1>1 DEF Entry
<1>3. QED
  BY <1>2 DEF Touched

\* The constants that stand for "nothing" are not data.
LEMMA Nothing ==
    /\ NoFile \notin Payload /\ NoFile \notin Meta
    /\ NoDir \notin Directory /\ NoEntry \notin Entry
    /\ NoJob \notin Job /\ NoRestore \notin Restore /\ NoMirror \notin Mirror
BY PersistLibraryAssumption

\* The bounds of the instance are natural numbers.
LEMMA Bounds ==
    MaxId \in Nat /\ Limit \in Nat /\ MirrorLimit \in Nat
BY PersistLibraryAssumption

-----------------------------------------------------------------------------
(* The inductive invariant.                                                *)

SaveSteps == {"touch", "write", "rename", "renameDraft", "meta", "sync",
              "supersede", "obsolete", "reclaim"}
Uncommitted == {"write", "rename", "renameDraft", "meta", "sync"}
BootSteps == {"scan", "evict", "gc"}

\* A listed entry, a directory the scan has still to reach and an orphan each
\* have a directory of their own.
OnDisk ==
    /\ \A id \in Live : disk[id] # NoDir
    /\ \A id \in unscanned : disk[id] # NoDir /\ id \notin Live
    /\ \A o \in orphans : /\ disk[o.id] # NoDir
                          /\ o.id \notin Live \cup unscanned
    /\ \A o, q \in orphans : o.id = q.id => o = q
    /\ pc # "scan" => unscanned = {}
    /\ pc \notin BootSteps => orphans = {}

\* A save in progress owns a job, and from its allocation to its commit an
\* entry directory that is not listed; a restore in progress has its entry.
InHand ==
    /\ pc \in SaveSteps => job # NoJob
    /\ pc \in SaveSteps \ {"touch"} => job.id \in Ids /\ job.id < nextId
    /\ pc \in Uncommitted => disk[job.id] # NoDir /\ index[job.id] = NoEntry
    /\ pc = "touch" => nextId <= MaxId
    /\ pc = "restored" => restore # NoRestore /\ restore.id \in Live

\* Ids are handed out in increasing order, beyond everything the boot listed.
Numbered ==
    /\ pc \in Operating => \A id \in Live : id < nextId
    /\ pc \in BootSteps => \A id \in Live : id <= maxScanned
    /\ pc \in {"down", "inert"} => Live = {}

IInv == TypeOK /\ OnDisk /\ InHand /\ Numbered

\* The first state satisfies the invariant.
LEMMA InitInv == ASSUME Init PROVE IInv
<1>1. TypeOK
  <2>1. disk \in [Ids -> Directory \cup {NoDir}] /\ index \in [Ids -> Entry \cup {NoEntry}]
    BY DEF Init
  <2>2. nextId \in 1..(MaxId + 1) /\ maxScanned \in 0..MaxId
    BY Bounds DEF Init
  <2>3. pc \in Locations /\ result \in {"none", "pending", "saved", "skipped"}
    BY DEF Init, Locations
  <2>4. disabled \in BOOLEAN
    BY DEF Init
  <2>5. /\ conf \in Configs /\ unscanned = {} /\ orphans = {}
        /\ total = 0 /\ orphanBytes = 0 /\ clock = 0
        /\ job = NoJob /\ restore = NoRestore /\ mirror = NoMirror
        /\ crashes = 0 /\ faults = 0 /\ damage = 0
    BY DEF Init
  <2>6. QED
    BY <2>1, <2>2, <2>3, <2>4, <2>5 DEF TypeOK
<1>2. Live = {}
  BY DEF Init, Live
<1>3. OnDisk /\ InHand /\ Numbered
  BY <1>2 DEF Init, OnDisk, InHand, Numbered, SaveSteps, BootSteps,
       Uncommitted, Operating
<1>4. QED
  BY <1>1, <1>3 DEF IInv

\* Erasing a listed entry touches that entry alone, and leaves it listed only
\* with a directory.
LEMMA Erased ==
    ASSUME IInv, NEW id \in Live, EraseOk(id) \/ EraseFail(id)
    PROVE  /\ disk' \in [Ids -> Directory \cup {NoDir}]
           /\ index' \in [Ids -> Entry \cup {NoEntry}]
           /\ total' \in Int /\ disabled' \in BOOLEAN
           /\ crashes' \in Nat /\ faults' \in Nat /\ damage' \in Nat
           /\ \A j \in Ids \ {id} : disk'[j] = disk[j] /\ index'[j] = index[j]
           /\ index'[id] # NoEntry => disk'[id] # NoDir
           /\ disk'[id] # NoDir => disk[id] # NoDir
<1>1. id \in Ids /\ index[id] \in Entry /\ disk[id] \in Directory
  BY DEF IInv, TypeOK, OnDisk, Live
<1>2. EntrySize(index[id]) \in Nat
  BY <1>1, EntrySizeType
<1>3. [index[id] EXCEPT !.usable = FALSE] \in Entry
  BY <1>1 DEF Entry
<1>4. CASE EraseOk(id)
  BY <1>1, <1>2, <1>4, Nothing DEF EraseOk, NoFault, budgets, IInv, TypeOK
<1>5. CASE EraseFail(id)
  <2>1. PICK left \in Leftovers(disk[id]) : disk' = [disk EXCEPT ![id] = left]
    BY <1>5 DEF EraseFail
  <2>2. left \in Directory
    BY <1>1, <2>1, LeftoversType
  <2>3. index' = [index EXCEPT ![id] = [index[id] EXCEPT !.usable = FALSE]]
    BY <1>5 DEF EraseFail
  <2>4. QED
    BY <1>1, <1>3, <1>5, <2>1, <2>2, <2>3, Nothing
       DEF EraseFail, Fault, IInv, TypeOK
<1>6. QED
  BY <1>4, <1>5

\* Dropping the mirror leaves a mirror or none.
LEMMA DroppedType ==
    ASSUME TypeOK, NEW id, DropMirror(id)
    PROVE  mirror' \in Mirror \cup {NoMirror}
BY DEF TypeOK, DropMirror

\* A server that starts has an empty library and keeps the budgets' type.
LEMMA FreshType ==
    ASSUME TypeOK, NEW c \in Configs, Fresh(c), unscanned' = {} \/ unscanned' = Existing
    PROVE  /\ conf' \in Configs
           /\ index' \in [Ids -> Entry \cup {NoEntry}] /\ Live' = {}
           /\ total' \in Int /\ nextId' \in 1..(MaxId + 1) /\ disabled' \in BOOLEAN
           /\ unscanned' \in SUBSET Ids /\ maxScanned' \in 0..MaxId
           /\ orphans' = {} /\ orphanBytes' \in Int
           /\ job' = NoJob /\ result' = "none" /\ restore' = NoRestore
           /\ mirror' = NoMirror
<1>1. index' \in [Ids -> Entry \cup {NoEntry}] /\ Live' = {}
  BY DEF Fresh, Live
<1>2. nextId' \in 1..(MaxId + 1) /\ maxScanned' \in 0..MaxId
  BY Bounds DEF Fresh
<1>3. unscanned' \in SUBSET Ids
  BY DEF Existing
<1>4. disabled' \in BOOLEAN
  BY DEF Fresh
<1>5. /\ conf' = c /\ total' = 0 /\ orphans' = {} /\ orphanBytes' = 0
      /\ job' = NoJob /\ result' = "none" /\ restore' = NoRestore
      /\ mirror' = NoMirror
  BY DEF Fresh
<1>6. QED
  BY <1>1, <1>2, <1>3, <1>4, <1>5

\* A step without a fault leaves the budgets; a fault spends one.
LEMMA BudgetType ==
    ASSUME TypeOK, NoFault \/ Fault
    PROVE  crashes' \in Nat /\ faults' \in Nat /\ damage' \in Nat
BY DEF TypeOK, NoFault, Fault, budgets

-----------------------------------------------------------------------------
(* Boot.                                                                   *)

LEMMA BootInv == ASSUME IInv, NEW c \in Configs, Boot(c) \/ BootInert(c) PROVE IInv'
<1>1. TypeOK'
  <2>1. unscanned' = {} \/ unscanned' = Existing
    BY DEF Boot, BootInert
  <2>2. Fresh(c) /\ (NoFault \/ Fault) /\ pc' \in {"scan", "inert"} /\ UNCHANGED <<disk, clock>>
    BY DEF Boot, BootInert
  <2>3. QED
    BY <2>1, <2>2, FreshType, BudgetType DEF IInv, TypeOK, Locations
<1>2. OnDisk' /\ InHand' /\ Numbered'
  BY Bounds DEF Boot, BootInert, Fresh, Live, Existing, OnDisk, InHand,
       Numbered, SaveSteps, BootSteps, Uncommitted, Operating, IInv, TypeOK
<1>3. QED
  BY <1>1, <1>2 DEF IInv

\* A directory scanned away, or what is left of it.
LEMMA RemovedType ==
    ASSUME TypeOK, NEW id \in Ids, disk[id] # NoDir,
           \/ disk' = [disk EXCEPT ![id] = NoDir]
           \/ \E left \in Leftovers(disk[id]) : disk' = [disk EXCEPT ![id] = left]
    PROVE  /\ disk' \in [Ids -> Directory \cup {NoDir}]
           /\ \A j \in Ids \ {id} : disk'[j] = disk[j]
<1>1. disk[id] \in Directory
  BY DEF TypeOK
<1>2. \A left \in Leftovers(disk[id]) : left \in Directory
  BY <1>1, LeftoversType
<1>3. QED
  BY <1>2 DEF TypeOK

\* Scanning a directory raises max_scanned_id to its id at least.
LEMMA ScannedType ==
    ASSUME IInv, NEW id \in Ids, Scanned(id)
    PROVE  /\ unscanned' = unscanned \ {id} /\ maxScanned' \in 0..MaxId
           /\ maxScanned <= maxScanned' /\ id <= maxScanned'
           /\ pc = "scan" /\ disk[id] \in Directory /\ index[id] = NoEntry
           /\ \A o \in orphans : o.id # id
           /\ id \in Nat /\ maxScanned \in Nat /\ maxScanned' \in Nat
BY Bounds DEF Scanned, Larger, IInv, TypeOK, OnDisk, Live, Ids

LEMMA ScanDiscardInv == ASSUME IInv, NEW id \in Ids, ScanDiscard(id) PROVE IInv'
<1>1. /\ disk' \in [Ids -> Directory \cup {NoDir}]
      /\ \A j \in Ids \ {id} : disk'[j] = disk[j]
  <2>1. disk[id] # NoDir
    BY ScannedType, Nothing DEF ScanDiscard
  <2>2. QED
    BY <2>1, RemovedType DEF ScanDiscard, IInv
<1>2. crashes' \in Nat /\ faults' \in Nat /\ damage' \in Nat
  BY BudgetType DEF ScanDiscard, IInv
<1>3. TypeOK'
  BY <1>1, <1>2, ScannedType DEF ScanDiscard, IInv, TypeOK
<1>4. Live' = Live /\ pc' = pc /\ orphans' = orphans /\ pc = "scan"
  BY ScannedType DEF ScanDiscard, Live
<1>5. OnDisk'
  <2>1. \A j \in Live : disk'[j] # NoDir
    BY <1>1, ScannedType DEF ScanDiscard, Live, IInv, OnDisk
  <2>2. \A j \in unscanned' : disk'[j] # NoDir /\ j \notin Live
    BY <1>1, ScannedType DEF ScanDiscard, IInv, OnDisk, TypeOK
  <2>3. \A o \in orphans : disk'[o.id] # NoDir /\ o.id \notin Live \cup unscanned'
    BY <1>1, ScannedType DEF ScanDiscard, IInv, OnDisk, TypeOK
  <2>4. QED
    BY <1>4, <2>1, <2>2, <2>3 DEF IInv, OnDisk, BootSteps
<1>6. InHand'
  BY <1>4 DEF InHand, SaveSteps, Uncommitted
<1>7. Numbered'
  BY <1>4, ScannedType DEF ScanDiscard, IInv, Numbered, BootSteps, Operating, Live, Ids
<1>8. QED
  BY <1>3, <1>5, <1>6, <1>7 DEF IInv

LEMMA ScanOrphanInv == ASSUME IInv, NEW id \in Ids, ScanOrphan(id) PROVE IInv'
<1> DEFINE m == disk[id].meta
           size == Bytes(m.main) + Bytes(m.drft)
           orphan == [id |-> id, lastUsed |-> m.lastUsed, bytes |-> size]
<1>1. m \in Meta
  BY ScannedType DEF ScanOrphan, NotOurs, Directory
<1>2. size \in Nat
  BY <1>1, BytesType DEF Meta, Component
<1>3. orphan \in [id : Ids, lastUsed : Nat, bytes : Nat]
  BY <1>1, <1>2 DEF Meta
<1>4. orphans' = orphans \cup {orphan} /\ orphanBytes' = orphanBytes + size
  BY DEF ScanOrphan
<1>5. TypeOK'
  BY <1>2, <1>3, <1>4, ScannedType DEF ScanOrphan, NoFault, budgets, IInv, TypeOK
<1>6. orphan.id = id
  OBVIOUS
<1>7. OnDisk'
  BY <1>4, <1>6, ScannedType, Nothing
     DEF ScanOrphan, IInv, TypeOK, OnDisk, Live, BootSteps
<1>8. InHand' /\ Numbered'
  BY ScannedType
     DEF ScanOrphan, IInv, TypeOK, InHand, Numbered, Live, Ids,
         SaveSteps, BootSteps, Uncommitted, Operating
<1>9. QED
  BY <1>5, <1>7, <1>8 DEF IInv

LEMMA ScanAdoptInv == ASSUME IInv, NEW id \in Ids, ScanAdopt(id) PROVE IInv'
<1> DEFINE m == disk[id].meta
           e == [tokens |-> m.tokens, drafter |-> m.drafter, spec |-> m.spec,
                 main |-> m.main, drft |-> m.drft, usable |-> TRUE,
                 hits |-> m.hits, lastUsed |-> m.lastUsed]
<1>1. m \in Meta
  BY ScannedType DEF ScanAdopt, Complete, Directory
<1>2. e \in Entry
  BY <1>1 DEF Meta, Entry
<1>3. EntrySize(e) \in Nat
  BY <1>2, EntrySizeType
<1>4. index' = [index EXCEPT ![id] = e] /\ total' = total + EntrySize(e)
  BY DEF ScanAdopt
<1> HIDE DEF e
<1>5. index' \in [Ids -> Entry \cup {NoEntry}] /\ total' \in Int
  BY <1>2, <1>3, <1>4 DEF IInv, TypeOK
<1>6. TypeOK'
  BY <1>5, ScannedType DEF ScanAdopt, NoFault, budgets, IInv, TypeOK
<1>7. Live' = Live \cup {id}
  BY <1>2, <1>4, Nothing DEF Live, IInv, TypeOK
<1>8. OnDisk'
  <2>1. /\ disk' = disk /\ orphans' = orphans /\ pc' = "scan" /\ unscanned' = unscanned \ {id}
        /\ disk[id] \in Directory /\ \A o \in orphans : o.id # id
    BY ScannedType DEF ScanAdopt
  <2>2. disk[id] # NoDir
    BY <2>1, Nothing
  <2>3. OnDisk
    BY DEF IInv
  <2>4. \A j \in Live' : disk'[j] # NoDir
    BY <1>7, <2>1, <2>2, <2>3 DEF OnDisk
  <2>5. \A j \in unscanned' : disk'[j] # NoDir /\ j \notin Live'
    BY <1>7, <2>1, <2>3 DEF OnDisk
  <2>6. \A o \in orphans' : disk'[o.id] # NoDir /\ o.id \notin Live' \cup unscanned'
    BY <1>7, <2>1, <2>3 DEF OnDisk
  <2>7. \A o, q \in orphans' : o.id = q.id => o = q
    BY <2>1, <2>3 DEF OnDisk
  <2>8. pc' = "scan" /\ pc' \in BootSteps
    BY <2>1 DEF BootSteps
  <2>9. QED
    BY <2>4, <2>5, <2>6, <2>7, <2>8 DEF OnDisk
<1>9. InHand'
  BY ScannedType DEF ScanAdopt, InHand, SaveSteps, Uncommitted
<1>10. Numbered'
  <2>1. pc = "scan" /\ pc' = "scan"
    BY ScannedType DEF ScanAdopt
  <2>2. ASSUME NEW j \in Live' PROVE j <= maxScanned'
    <3>1. j \in Live => j <= maxScanned /\ j \in Nat
      BY <2>1 DEF IInv, Numbered, BootSteps, Live, Ids
    <3>2. j = id \/ j \in Live
      BY <1>7
    <3>3. QED
      BY <3>1, <3>2, ScannedType DEF ScanAdopt
  <2>3. QED
    BY <2>1, <2>2 DEF Numbered, Operating
<1>11. QED
  BY <1>6, <1>8, <1>9, <1>10 DEF IInv

LEMMA ScanDoneInv == ASSUME IInv, ScanDone PROVE IInv'
BY DEF ScanDone, NoFault, budgets, disposable, IInv, TypeOK, OnDisk, InHand, Numbered, Live,
       Locations, SaveSteps, BootSteps, Uncommitted, Operating

LEMMA BootEvictDoneInv == ASSUME IInv, BootEvictDone PROVE IInv'
BY DEF BootEvictDone, NoFault, budgets, disposable, IInv, TypeOK, OnDisk, InHand, Numbered, Live,
       Locations, SaveSteps, BootSteps, Uncommitted, Operating

LEMMA BootDoneInv == ASSUME IInv, BootDone PROVE IInv'
<1>1. TypeOK'
  BY Bounds DEF BootDone, NoFault, budgets, IInv, TypeOK, Locations, Operating
<1>2. OnDisk' /\ InHand' /\ Numbered'
  BY Bounds DEF BootDone, IInv, TypeOK, OnDisk, InHand, Numbered, Live, Ids,
         SaveSteps, BootSteps, Uncommitted, Operating
<1>3. QED
  BY <1>1, <1>2 DEF IInv

\* An erase disturbs no other directory: what was on disk for the scan, an
\* orphan or another entry still is.
LEMMA ErasedOnDisk ==
    ASSUME IInv, NEW id \in Live, EraseOk(id) \/ EraseFail(id),
           UNCHANGED <<unscanned, orphans>>,
           pc' = pc \/ (pc \notin BootSteps /\ pc' \notin BootSteps)
    PROVE  OnDisk' /\ Live' \subseteq Live
<1>1. id \in Ids
  BY DEF Live
<1>2. Live' \subseteq Live
  BY <1>1, Erased DEF Live
<1>3. \A j \in Live' : disk'[j] # NoDir
  BY <1>1, Erased DEF Live, IInv, OnDisk
<1>4. \A j \in unscanned : disk'[j] # NoDir /\ j \notin Live'
  BY <1>1, <1>2, Erased DEF IInv, OnDisk, TypeOK
<1>5. \A o \in orphans : disk'[o.id] # NoDir /\ o.id \notin Live' \cup unscanned
  BY <1>1, <1>2, Erased DEF IInv, OnDisk, TypeOK
<1>6. QED
  BY <1>2, <1>3, <1>4, <1>5 DEF IInv, OnDisk, BootSteps

LEMMA BootEvictInv == ASSUME IInv, NEW id \in Ids, BootEvict(id) PROVE IInv'
<1>1. id \in Live /\ pc = "evict" /\ unscanned' = unscanned /\ orphans' = orphans
  BY DEF BootEvict, IsVictim, bootVars
<1>2. CASE EraseOk(id) /\ pc' = pc
  <2>1. TypeOK'
    BY <1>1, <1>2, Erased DEF BootEvict, bootVars, IInv, TypeOK
  <2>2. OnDisk' /\ Live' \subseteq Live
    BY <1>1, <1>2, ErasedOnDisk
  <2>3. InHand' /\ Numbered'
    BY <1>1, <1>2, <2>2
       DEF BootEvict, bootVars, IInv, InHand, Numbered, SaveSteps, Uncommitted,
           Operating, BootSteps
  <2>4. QED
    BY <2>1, <2>2, <2>3 DEF IInv
<1>3. CASE /\ \E left \in Leftovers(disk[id]) : disk' = [disk EXCEPT ![id] = left]
           /\ pc' = "gc" /\ Fault /\ UNCHANGED <<index, total, disabled>>
  <2>1. id \in Ids /\ disk[id] # NoDir
    BY <1>1 DEF IInv, OnDisk, Live
  <2>2. /\ disk' \in [Ids -> Directory \cup {NoDir}]
        /\ \A j \in Ids \ {id} : disk'[j] = disk[j]
    BY <1>3, <2>1, RemovedType DEF IInv
  <2>3. disk'[id] # NoDir
    <3>1. disk[id] \in Directory
      BY <2>1 DEF IInv, TypeOK
    <3>2. PICK left \in Leftovers(disk[id]) : disk' = [disk EXCEPT ![id] = left]
      BY <1>3
    <3>3. left \in Directory
      BY <3>1, LeftoversType
    <3>4. QED
      BY <2>1, <3>2, <3>3, Nothing DEF IInv, TypeOK
  <2>4. crashes' \in Nat /\ faults' \in Nat /\ damage' \in Nat
    BY <1>3, BudgetType DEF IInv
  <2>5. TypeOK'
    BY <1>3, <2>2, <2>4 DEF BootEvict, bootVars, IInv, TypeOK, Locations
  <2>6. Live' = Live
    BY <1>3 DEF Live
  <2>7. OnDisk'
    BY <1>1, <1>3, <2>1, <2>2, <2>3, <2>6 DEF IInv, OnDisk, TypeOK, BootSteps, Live
  <2>8. InHand' /\ Numbered'
    BY <1>1, <1>3, <2>6
       DEF BootEvict, bootVars, IInv, InHand, Numbered, SaveSteps, Uncommitted,
           Operating, BootSteps
  <2>9. QED
    BY <2>5, <2>7, <2>8 DEF IInv
<1>4. QED
  BY <1>2, <1>3 DEF BootEvict

LEMMA BootGcInv == ASSUME IInv, NEW o \in orphans, BootGc(o) PROVE IInv'
<1>1. /\ o.id \in Ids /\ o.bytes \in Nat /\ disk[o.id] # NoDir
      /\ o.id \notin Live \cup unscanned
      /\ \A q \in orphans \ {o} : q.id # o.id /\ q.id \in Ids
  BY DEF IInv, TypeOK, OnDisk
<1>2. /\ disk' \in [Ids -> Directory \cup {NoDir}]
      /\ \A j \in Ids \ {o.id} : disk'[j] = disk[j]
  BY <1>1, RemovedType DEF BootGc, IInv
<1>3. orphanBytes' \in Int
  BY <1>1 DEF BootGc, IInv, TypeOK
<1>4. crashes' \in Nat /\ faults' \in Nat /\ damage' \in Nat
  BY BudgetType DEF BootGc, IInv
<1>5. TypeOK'
  BY <1>2, <1>3, <1>4 DEF BootGc, IInv, TypeOK
<1>6. Live' = Live
  BY DEF BootGc, Live
<1>7. OnDisk'
  <2>1. \A j \in Live : disk'[j] # NoDir
    BY <1>1, <1>2 DEF IInv, OnDisk, Live
  <2>2. \A j \in unscanned : disk'[j] # NoDir
    BY <1>1, <1>2 DEF IInv, OnDisk, TypeOK
  <2>3. \A q \in orphans' : disk'[q.id] # NoDir
    BY <1>1, <1>2 DEF IInv, OnDisk, TypeOK, BootGc
  <2>4. QED
    BY <1>6, <2>1, <2>2, <2>3 DEF BootGc, IInv, OnDisk
<1>8. InHand' /\ Numbered'
  BY <1>6 DEF BootGc, IInv, InHand, Numbered, SaveSteps, Uncommitted, Operating, BootSteps
<1>9. QED
  BY <1>5, <1>7, <1>8 DEF IInv

-----------------------------------------------------------------------------
(* Save, load and update.                                                  *)

\* Outside the boot, an erase and the fate of the mirror are all a step
\* needs to show.
LEMMA ErasedInv ==
    ASSUME IInv, NEW id \in Live, EraseOk(id) \/ EraseFail(id), DropMirror(id),
           pc \notin BootSteps, pc' \in Operating, pc' \notin Uncommitted,
           pc \in Operating,
           UNCHANGED <<conf, nextId, bootVars, result, clock>>,
           job' \in Job \cup {NoJob}, restore' \in Restore \cup {NoRestore},
           InHand'
    PROVE  IInv'
<1>1. mirror' \in Mirror \cup {NoMirror}
  BY DroppedType DEF IInv
<1>2. TypeOK'
  BY <1>1, Erased DEF bootVars, IInv, TypeOK, Locations
<1>3. OnDisk' /\ Live' \subseteq Live
  BY ErasedOnDisk DEF bootVars, Operating, BootSteps
<1>4. Numbered'
  BY <1>3 DEF IInv, Numbered, Operating, BootSteps
<1>5. QED
  BY <1>2, <1>3, <1>4 DEF IInv

LEMMA SaveBeginInv ==
    ASSUME IInv, NEW p \in Prompts, NEW d \in Drafters, SaveBegin(p, d)
    PROVE  IInv'
<1> DEFINE new == [tokens |-> p, drafter |-> d, id |-> 0, before |-> EmptyDir,
                   mirror |-> FALSE, reclaim |-> TRUE]
<1>1. EmptyDir \in Directory
  BY DEF EmptyDir, Directory, Component
<1>2. new \in Job
  BY <1>1 DEF Job
<1>3. job' = new
  BY DEF SaveBegin
<1> HIDE DEF new
<1>4. TypeOK'
  BY <1>2, <1>3 DEF SaveBegin, NoFault, budgets, bootVars, IInv, TypeOK, Locations, Operating
<1>5. OnDisk'
  BY DEF SaveBegin, bootVars, IInv, OnDisk, Live, BootSteps
<1>6. InHand'
  BY <1>2, <1>3, Nothing DEF SaveBegin, InHand, SaveSteps, Uncommitted
<1>7. Numbered'
  BY DEF SaveBegin, IInv, Numbered, Operating, Live, BootSteps
<1>8. QED
  BY <1>4, <1>5, <1>6, <1>7 DEF IInv

LEMMA TouchRejectInv == ASSUME IInv, NEW id \in Ids, TouchReject(id) PROVE IInv'
<1>1. id \in Live /\ pc = "touch" /\ pc' = "touch"
  BY DEF TouchReject, CanTouch, Usable
<1>2. InHand'
  BY <1>1 DEF TouchReject, IInv, InHand, SaveSteps, Uncommitted
<1>3. job' \in Job \cup {NoJob} /\ restore' \in Restore \cup {NoRestore}
  BY DEF TouchReject, IInv, TypeOK
<1>4. QED
  BY <1>1, <1>2, <1>3, ErasedInv DEF TouchReject, BootSteps, Operating, Uncommitted

\* Rewriting the sidecar of a listed entry, or failing to.
LEMMA RewriteType ==
    ASSUME IInv, NEW id \in Live, NEW e \in Entry, RewriteMeta(id, e)
    PROVE  /\ disk' \in [Ids -> Directory \cup {NoDir}]
           /\ \A j \in Ids : disk[j] # NoDir => disk'[j] # NoDir
           /\ \A j \in Ids : disk'[j] # NoDir => disk[j] # NoDir
           /\ crashes' \in Nat /\ faults' \in Nat /\ damage' \in Nat
<1>1. id \in Ids /\ disk[id] \in Directory
  BY DEF IInv, TypeOK, OnDisk, Live
<1>2. MetaOf(e) \in Meta
  BY MetaType DEF IInv
<1>3. [disk[id] EXCEPT !.meta = MetaOf(e)] \in Directory
  BY <1>1, <1>2 DEF Directory
<1>4. crashes' \in Nat /\ faults' \in Nat /\ damage' \in Nat
  BY BudgetType DEF RewriteMeta, IInv
<1>5. CASE UNCHANGED disk
  BY <1>4, <1>5 DEF IInv, TypeOK
<1>6. CASE disk' = [disk EXCEPT ![id].meta = MetaOf(e)]
  BY <1>1, <1>3, <1>4, <1>6, Nothing DEF IInv, TypeOK
<1>7. QED
  BY <1>5, <1>6 DEF RewriteMeta

\* Counting a hit of a listed entry keeps the entry, its size included.
LEMMA TouchedIndex ==
    ASSUME IInv, NEW id \in Live, index' = [index EXCEPT ![id] = Touched(@)]
    PROVE  /\ index' \in [Ids -> Entry \cup {NoEntry}] /\ Live' = Live
           /\ Touched(index[id]) \in Entry
<1>1. id \in Ids /\ index[id] \in Entry
  BY DEF IInv, TypeOK, Live
<1>2. Touched(index[id]) \in Entry
  BY <1>1, TouchedType DEF IInv
<1>3. QED
  BY <1>1, <1>2, Nothing DEF IInv, TypeOK, Live

LEMMA TouchHitInv == ASSUME IInv, NEW id \in Ids, TouchHit(id) PROVE IInv'
<1>1. id \in Live
  BY DEF TouchHit, CanTouch, Usable
<1>2. /\ index' \in [Ids -> Entry \cup {NoEntry}] /\ Live' = Live
      /\ Touched(index[id]) \in Entry
  BY <1>1, TouchedIndex DEF TouchHit
<1>3. /\ disk' \in [Ids -> Directory \cup {NoDir}]
      /\ \A j \in Ids : disk[j] # NoDir => disk'[j] # NoDir
      /\ crashes' \in Nat /\ faults' \in Nat /\ damage' \in Nat
  BY <1>1, <1>2, RewriteType DEF TouchHit
<1>4. TypeOK'
  BY <1>2, <1>3 DEF TouchHit, bootVars, IInv, TypeOK, Locations, Operating
<1>5. OnDisk'
  BY <1>2, <1>3 DEF TouchHit, bootVars, IInv, TypeOK, OnDisk, Live, BootSteps
<1>6. InHand' /\ Numbered'
  BY <1>2 DEF TouchHit, IInv, InHand, Numbered, SaveSteps, Uncommitted,
       Operating, BootSteps
<1>7. QED
  BY <1>4, <1>5, <1>6 DEF IInv

LEMMA SaveSkipInv == ASSUME IInv, SaveSkip PROVE IInv'
BY DEF SaveSkip, NoFault, budgets, bootVars, IInv, TypeOK, OnDisk, InHand, Numbered, Live,
       Locations, SaveSteps, BootSteps, Uncommitted, Operating

\* A step of a save that lists and delists nothing shows only what it does to
\* the entry directory it fills, to its job and to the id counter.
LEMMA SaveStepInv ==
    ASSUME IInv, pc \in SaveSteps,
           disk' \in [Ids -> Directory \cup {NoDir}],
           \A j \in Live : disk'[j] = disk[j],
           nextId' \in 1..(MaxId + 1), nextId <= nextId',
           \/ /\ \E next \in SaveSteps : SaveStep(next)
              /\ job' \in Job
           \/ SaveFail,
           InHand'
    PROVE  IInv'
<1>1. crashes' \in Nat /\ faults' \in Nat /\ damage' \in Nat
  BY BudgetType DEF SaveStep, SaveFail, IInv
<1>2. disabled' \in BOOLEAN
  BY DEF SaveStep, SaveFail, IInv, TypeOK
<1>3. pc' \in SaveSteps \cup {"idle"}
  BY DEF SaveStep, SaveFail
<1>4. /\ UNCHANGED <<conf, index, total, restore, mirror, clock, bootVars>>
      /\ job' \in Job \cup {NoJob}
      /\ result' \in {"none", "pending", "saved", "skipped"}
  BY DEF SaveStep, SaveFail, IInv, TypeOK
<1>5. TypeOK'
  BY <1>1, <1>2, <1>3, <1>4
     DEF bootVars, IInv, TypeOK, Locations, SaveSteps, Operating
<1>6. Live' = Live
  BY <1>4 DEF Live
<1>7. OnDisk'
  BY <1>3, <1>4, <1>6 DEF bootVars, IInv, OnDisk, SaveSteps, BootSteps
<1>8. Numbered'
  BY <1>3, <1>4, <1>6, Bounds
     DEF IInv, TypeOK, Numbered, SaveSteps, BootSteps, Operating, Live, Ids
<1>9. QED
  BY <1>5, <1>7, <1>8 DEF IInv

\* A save that gives up has nothing in hand.
LEMMA SaveFailInHand == ASSUME SaveFail PROVE InHand'
BY DEF SaveFail, InHand, SaveSteps, Uncommitted

LEMMA SaveAllocInv == ASSUME IInv, SaveAlloc PROVE IInv'
<1> DEFINE dir == IF disk[nextId] = NoDir THEN EmptyDir ELSE disk[nextId]
           new == [job EXCEPT !.id = nextId, !.before = dir]
<1>1. /\ pc = "touch" /\ job \in Job
      /\ nextId \in Ids /\ index[nextId] = NoEntry
      /\ nextId' = nextId + 1 /\ nextId' \in 1..(MaxId + 1) /\ nextId <= nextId'
  BY Bounds DEF SaveAlloc, IInv, TypeOK, InHand, Numbered, SaveSteps, Operating, Live, Ids
<1>2. EmptyDir \in Directory
  BY DEF EmptyDir, Directory, Component
<1>3. dir \in Directory
  BY <1>1, <1>2 DEF IInv, TypeOK
<1> HIDE DEF dir
<1>4. new \in Job /\ new.id = nextId
  BY <1>1, <1>3 DEF Job
<1> HIDE DEF new
<1>5. CASE disk' = [disk EXCEPT ![nextId] = dir] /\ job' = new /\ SaveStep("write")
  <2>1. disk' \in [Ids -> Directory \cup {NoDir}] /\ disk'[nextId] # NoDir
    BY <1>1, <1>3, <1>5, Nothing DEF IInv, TypeOK
  <2>2. \A j \in Live : disk'[j] = disk[j]
    BY <1>1, <1>5 DEF IInv, TypeOK, Live
  <2>3. InHand'
    BY <1>1, <1>4, <1>5, <2>1, Nothing
       DEF SaveStep, InHand, SaveSteps, Uncommitted, Ids
  <2>4. QED
    BY <1>1, <1>4, <1>5, <2>1, <2>2, <2>3, SaveStepInv DEF SaveSteps
<1>6. CASE UNCHANGED disk /\ SaveFail
  BY <1>1, <1>6, SaveFailInHand, SaveStepInv DEF SaveSteps, IInv, TypeOK
<1>7. QED
  BY <1>5, <1>6 DEF SaveAlloc, dir, new

\* The entry directory a save is filling is a directory and is not listed.
LEMMA HeldType ==
    ASSUME IInv, pc \in Uncommitted
    PROVE  /\ job \in Job /\ job.id \in Ids /\ job.id \notin Live
           /\ disk[job.id] \in Directory
           /\ job.before \in Directory
           /\ TargetPayload(job.tokens) \in Payload
           /\ DraftPayload(job.tokens, job.drafter) \in Component
<1>1. job \in Job /\ job.id \in Ids /\ job.id \notin Live /\ disk[job.id] \in Directory
  BY DEF IInv, TypeOK, InHand, SaveSteps, Uncommitted, Live
<1>2. job.tokens \in Prompts /\ job.drafter \in Drafters /\ job.before \in Directory
  BY <1>1 DEF Job
<1>3. QED
  BY <1>1, <1>2, PayloadType DEF IInv

LEMMA SaveWriteInv == ASSUME IInv, SaveWrite PROVE IInv'
<1>1. /\ pc = "write" /\ pc \in SaveSteps /\ UNCHANGED <<disk, nextId>>
      /\ nextId' \in 1..(MaxId + 1) /\ nextId <= nextId'
      /\ disk' \in [Ids -> Directory \cup {NoDir}]
  BY Bounds DEF SaveWrite, SaveSteps, IInv, TypeOK
<1>2. ASSUME NEW m \in {FALSE, MayMirror}, job' = [job EXCEPT !.mirror = m],
             SaveStep("rename")
      PROVE  IInv'
  <2>1. m \in BOOLEAN
    BY Bounds DEF MayMirror
  <2>2. job' \in Job /\ job'.id = job.id
    BY <1>1, <1>2, <2>1, HeldType DEF Job, Uncommitted
  <2>3. InHand'
    BY <1>1, <1>2, <2>2, Nothing DEF SaveStep, IInv, InHand, SaveSteps, Uncommitted
  <2>4. QED
    BY <1>1, <1>2, <2>2, <2>3, SaveStepInv DEF SaveSteps
<1>3. CASE SaveFail
  BY <1>1, <1>3, SaveFailInHand, SaveStepInv
<1>4. QED
  BY <1>2, <1>3 DEF SaveWrite

\* A step that fills the directory of the job, or gives it up.
LEMMA FillInv ==
    ASSUME IInv, pc \in Uncommitted, NEW dir \in Directory \cup {NoDir},
           disk' = [disk EXCEPT ![job.id] = dir], UNCHANGED nextId,
           \/ /\ \E next \in Uncommitted : SaveStep(next)
              /\ UNCHANGED job /\ dir # NoDir
           \/ SaveFail
    PROVE  IInv'
<1>1. /\ job \in Job /\ job.id \in Ids /\ job.id \notin Live
      /\ nextId' \in 1..(MaxId + 1) /\ nextId <= nextId'
      /\ pc \in SaveSteps
  BY HeldType, Bounds DEF IInv, TypeOK, SaveSteps, Uncommitted
<1>2. disk' \in [Ids -> Directory \cup {NoDir}] /\ disk'[job.id] = dir
  BY <1>1 DEF IInv, TypeOK
<1>3. \A j \in Live : disk'[j] = disk[j]
  BY <1>1 DEF IInv, TypeOK, Live
<1>4. CASE (\E next \in Uncommitted : SaveStep(next)) /\ UNCHANGED job /\ dir # NoDir
  <2>1. job.id < nextId
    BY DEF IInv, InHand, SaveSteps, Uncommitted
  <2>2. InHand'
    BY <1>1, <1>2, <1>4, <2>1, Nothing DEF SaveStep, InHand, SaveSteps, Uncommitted, Live
  <2>3. QED
    BY <1>1, <1>2, <1>3, <1>4, <2>2, SaveStepInv DEF SaveSteps, Uncommitted
<1>5. CASE SaveFail
  BY <1>1, <1>2, <1>3, <1>5, SaveFailInHand, SaveStepInv
<1>6. QED
  BY <1>4, <1>5

LEMMA RenameTargetInv == ASSUME IInv, RenameTarget PROVE IInv'
<1> DEFINE dir == [disk[job.id] EXCEPT !.target = TargetPayload(job.tokens)]
<1>1. pc \in Uncommitted
  BY DEF RenameTarget, Uncommitted
<1>2. dir \in Directory /\ disk[job.id] \in Directory /\ job.id \in Ids
  BY <1>1, HeldType DEF Directory, Component
<1>3. CASE /\ disk' = [disk EXCEPT ![job.id].target = TargetPayload(job.tokens)]
           /\ SaveStep(IF job.drafter \in conf.drafting THEN "renameDraft" ELSE "meta")
           /\ UNCHANGED job
  <2>1. disk' = [disk EXCEPT ![job.id] = dir]
    BY <1>3
  <2>2. \E next \in Uncommitted : SaveStep(next)
    BY <1>3 DEF Uncommitted
  <2>3. UNCHANGED nextId /\ dir # NoDir
    BY <1>2, Nothing DEF RenameTarget
  <2> HIDE DEF dir
  <2>4. QED
    BY <1>1, <1>2, <1>3, <2>1, <2>2, <2>3, FillInv
<1>4. CASE UNCHANGED disk /\ SaveFail
  <2>1. disk' = [disk EXCEPT ![job.id] = disk[job.id]]
    BY <1>2, <1>4 DEF IInv, TypeOK
  <2>2. QED
    BY <1>1, <1>2, <1>4, <2>1, FillInv DEF RenameTarget
<1>5. QED
  BY <1>3, <1>4 DEF RenameTarget

LEMMA RenameDraftInv == ASSUME IInv, RenameDraft PROVE IInv'
<1> DEFINE dir == [disk[job.id] EXCEPT !.draft =
                        DraftPayload(job.tokens, job.drafter)]
<1>1. pc \in Uncommitted
  BY DEF RenameDraft, Uncommitted
<1>2. dir \in Directory /\ disk[job.id] \in Directory /\ job.id \in Ids
  BY <1>1, HeldType DEF Directory
<1>3. CASE /\ disk' = [disk EXCEPT ![job.id].draft =
                            DraftPayload(job.tokens, job.drafter)]
           /\ SaveStep("meta") /\ UNCHANGED job
  <2>1. disk' = [disk EXCEPT ![job.id] = dir]
    BY <1>3
  <2>2. \E next \in Uncommitted : SaveStep(next)
    BY <1>3 DEF Uncommitted
  <2>3. UNCHANGED nextId /\ dir # NoDir
    BY <1>2, Nothing DEF RenameDraft
  <2> HIDE DEF dir
  <2>4. QED
    BY <1>1, <1>2, <1>3, <2>1, <2>2, <2>3, FillInv
<1>4. ASSUME NEW left \in {NoFile, disk[job.id].target},
             disk' = [disk EXCEPT ![job.id].target = left], SaveFail
      PROVE  IInv'
  <2>1. [disk[job.id] EXCEPT !.target = left] \in Directory
    BY <1>2 DEF Directory, Component
  <2>2. QED
    BY <1>1, <1>4, <2>1, FillInv DEF RenameDraft
<1>5. QED
  BY <1>3, <1>4 DEF RenameDraft

\* Giving up after a failed commit removes the directory, wholly or in part.
LEMMA DropUncommittedInv ==
    ASSUME IInv, pc \in Uncommitted, DropUncommitted, UNCHANGED nextId PROVE IInv'
<1>1. disk[job.id] \in Directory
  BY HeldType
<1>2. PICK left \in Leftovers(disk[job.id]) \cup {NoDir} :
            disk' = [disk EXCEPT ![job.id] = left]
  BY DEF DropUncommitted
<1>3. left \in Directory \cup {NoDir}
  BY <1>1, <1>2, LeftoversType
<1>4. QED
  BY <1>2, <1>3, FillInv DEF DropUncommitted

\* The entry a save is about to list is well formed.
LEMMA NewEntryType == ASSUME IInv, pc \in Uncommitted PROVE NewEntry \in Entry
<1>1. job.tokens \in Prompts /\ job.drafter \in Drafters /\ clock \in Nat
  BY HeldType DEF Job, IInv, TypeOK
<1>2. conf.stateful \in BOOLEAN
  BY PersistLibraryAssumption DEF IInv, TypeOK, Config
<1>3. QED
  BY <1>1, <1>2, HeldType DEF NewEntry, Entry

LEMMA CommitMetaInv == ASSUME IInv, CommitMeta PROVE IInv'
<1> DEFINE dir == [disk[job.id] EXCEPT !.meta = MetaOf(NewEntry)]
<1>1. pc \in Uncommitted
  BY DEF CommitMeta, Uncommitted
<1>2. MetaOf(NewEntry) \in Meta
  BY <1>1, NewEntryType, MetaType DEF IInv
<1>3. dir \in Directory
  BY <1>1, <1>2, HeldType DEF Directory
<1>4. CASE /\ disk' = [disk EXCEPT ![job.id].meta = MetaOf(NewEntry)]
           /\ SaveStep("sync") /\ UNCHANGED job
  <2>1. disk' = [disk EXCEPT ![job.id] = dir]
    BY <1>4
  <2>2. \E next \in Uncommitted : SaveStep(next)
    BY <1>4 DEF Uncommitted
  <2>3. UNCHANGED nextId /\ dir # NoDir
    BY <1>3, Nothing DEF CommitMeta
  <2> HIDE DEF dir
  <2>4. QED
    BY <1>1, <1>3, <1>4, <2>1, <2>2, <2>3, FillInv
<1>5. CASE DropUncommitted
  BY <1>1, <1>5, DropUncommittedInv DEF CommitMeta
<1>6. QED
  BY <1>4, <1>5 DEF CommitMeta

LEMMA SyncDirInv == ASSUME IInv, SyncDir PROVE IInv'
<1>1. pc = "sync" /\ pc \in Uncommitted /\ nextId' = nextId
  BY DEF SyncDir, Uncommitted
<1>2. CASE DropUncommitted
  BY <1>1, <1>2, DropUncommittedInv
<1>3. CASE ~DropUncommitted
  <2>1. /\ index' = [index EXCEPT ![job.id] = NewEntry]
        /\ total' = total + EntrySize(NewEntry)
        /\ pc' \in {"supersede", "obsolete"}
        /\ NoFault
        /\ UNCHANGED <<disk, conf, disabled, bootVars, job, result, restore,
                       mirror, clock>>
    BY <1>3 DEF SyncDir
  <2>2. NewEntry \in Entry /\ EntrySize(NewEntry) \in Nat /\ job.id \in Ids
    BY <1>1, NewEntryType, EntrySizeType, HeldType
  <2>3. index' \in [Ids -> Entry \cup {NoEntry}] /\ total' \in Int
    BY <2>1, <2>2 DEF IInv, TypeOK
  <2>4. crashes' \in Nat /\ faults' \in Nat /\ damage' \in Nat
    BY <2>1, BudgetType DEF IInv
  <2>5. TypeOK'
    BY <1>1, <2>1, <2>3, <2>4 DEF bootVars, IInv, TypeOK, Locations, Operating
  <2>6. Live' = Live \cup {job.id}
    BY <2>1, <2>2, Nothing DEF Live, IInv, TypeOK
  <2>7. OnDisk'
    BY <1>1, <2>1, <2>6 DEF bootVars, IInv, OnDisk, InHand, BootSteps
  <2>8. InHand'
    BY <1>1, <2>1 DEF IInv, InHand, SaveSteps, Uncommitted
  <2>9. Numbered'
    BY <1>1, <2>1, <2>6 
       DEF IInv, InHand, Numbered, BootSteps, Operating, SaveSteps
  <2>10. QED
    BY <2>5, <2>7, <2>8, <2>9 DEF IInv
<1>4. QED
  BY <1>2, <1>3

\* One erase of a sweep after the commit.
LEMMA SweepInv ==
    ASSUME IInv, NEW id \in Live, pc \in {"supersede", "obsolete", "reclaim"},
           NEW next \in {"obsolete", "reclaim"}, Sweep(id, next)
    PROVE  IInv'
<1>1. /\ EraseOk(id) \/ EraseFail(id)
      /\ DropMirror(id)
      /\ UNCHANGED <<conf, nextId, bootVars, result, restore, clock>>
      /\ pc' \in {"supersede", "obsolete", "reclaim"}
  BY DEF Sweep
<1>2. job \in Job /\ job.id \in Ids /\ job.id < nextId
  BY DEF IInv, TypeOK, InHand, SaveSteps
<1>3. job' \in Job /\ job'.id = job.id
  <2>1. [job EXCEPT !.reclaim = FALSE] \in Job
    BY <1>2 DEF Job
  <2>2. CASE UNCHANGED job
    BY <1>2, <2>2
  <2>3. CASE job' = [job EXCEPT !.reclaim = FALSE]
    BY <1>2, <2>1, <2>3 DEF Job
  <2>4. QED
    BY <2>2, <2>3 DEF Sweep
<1>4. InHand'
  BY <1>1, <1>2, <1>3, Nothing DEF InHand, SaveSteps, Uncommitted
<1>5. restore' \in Restore \cup {NoRestore}
  BY <1>1 DEF IInv, TypeOK
<1>6. QED
  BY <1>1, <1>3, <1>4, <1>5, ErasedInv DEF BootSteps, Operating, Uncommitted

LEMMA SweepsInv ==
    ASSUME IInv, NEW id \in Ids, Supersede(id) \/ Obsolete(id) \/ Reclaim(id)
    PROVE  IInv'
<1>1. CASE Supersede(id)
  BY <1>1, SweepInv DEF Supersede
<1>2. CASE Obsolete(id)
  BY <1>2, SweepInv DEF Obsolete, IsObsolete
<1>3. CASE Reclaim(id)
  BY <1>3, SweepInv DEF Reclaim, IsVictim
<1>4. QED
  BY <1>1, <1>2, <1>3

\* Steps between two phases that change nothing but the phase.
LEMMA SweepDoneInv ==
    ASSUME IInv,
           SupersedeDone \/ ObsoleteDone \/ UpdateBegin \/ UpdateDone
    PROVE  IInv'
<1>1. /\ UNCHANGED <<disk, disposable, clock>> /\ NoFault
      /\ \/ pc \in {"supersede", "obsolete"} /\ pc' \in {"obsolete", "reclaim"}
         \/ pc \in {"idle", "update"} /\ pc' \in {"idle", "update"}
  BY DEF SupersedeDone, ObsoleteDone, UpdateBegin, UpdateDone, SweepDone
<1>2. TypeOK'
  BY <1>1 DEF NoFault, budgets, disposable, IInv, TypeOK, Locations, Operating
<1>3. Live' = Live
  BY <1>1 DEF disposable, Live
<1>4. OnDisk' /\ InHand' /\ Numbered'
  BY <1>1, <1>3 DEF disposable, IInv, OnDisk, InHand, Numbered, SaveSteps,
       BootSteps, Uncommitted, Operating
<1>5. QED
  BY <1>2, <1>4 DEF IInv

LEMMA SaveDoneInv == ASSUME IInv, SaveDone PROVE IInv'
<1>1. job \in Job /\ job.id \in Ids
  BY DEF SaveDone, IInv, TypeOK, InHand, SaveSteps
<1>2. /\ TargetPayload(job.tokens) \in Payload
      /\ DraftPayload(job.tokens, job.drafter) \in Component
  BY <1>1, PayloadType DEF IInv, Job
<1>3. mirror' \in Mirror \cup {NoMirror}
  BY <1>1, <1>2 DEF SaveDone, IInv, TypeOK, Mirror
<1>4. TypeOK'
  BY <1>3 DEF SaveDone, NoFault, budgets, bootVars, IInv, TypeOK, Locations, Operating
<1>5. Live' = Live
  BY DEF SaveDone, Live
<1>6. OnDisk' /\ InHand' /\ Numbered'
  BY <1>5 DEF SaveDone, bootVars, IInv, OnDisk, InHand, Numbered, SaveSteps,
       BootSteps, Uncommitted, Operating
<1>7. QED
  BY <1>4, <1>6 DEF IInv

LEMMA LoadOkInv ==
    ASSUME IInv, NEW id \in Ids, NEW d \in Drafters, LoadOk(id, d) PROVE IInv'
<1>1. id \in Live /\ pc = "idle" /\ pc' = "restored"
  BY DEF LoadOk, Candidate, Usable
<1>2. disk[id] \in Directory
  BY <1>1 DEF IInv, TypeOK, OnDisk
<1>3. disk[id].target \in Component /\ disk[id].draft \in Component
  BY <1>2 DEF Directory
<1>4. MirrorHit(id, d) => mirror.main \in Component /\ mirror.drft \in Component
  BY DEF MirrorHit, IInv, TypeOK, Mirror, Component
<1>5. PICK main \in Component, drft \in Component :
            restore' = [id |-> id, main |-> main, active |-> d, drft |-> drft]
  <2>1. NoFile \in Component
    BY DEF Component
  <2>2. QED
    BY <1>3, <1>4, <2>1 DEF LoadOk
<1>6. restore' \in Restore /\ restore'.id = id
  BY <1>5 DEF Restore
<1>7. TypeOK'
  BY <1>1, <1>6 DEF LoadOk, NoFault, budgets, bootVars, IInv, TypeOK, Locations, Operating
<1>8. Live' = Live
  BY DEF LoadOk, Live
<1>9. OnDisk' /\ Numbered'
  BY <1>1, <1>8 DEF LoadOk, bootVars, IInv, OnDisk, Numbered, BootSteps, Operating
<1>10. InHand'
  BY <1>1, <1>6, <1>8, Nothing DEF InHand, SaveSteps, Uncommitted
<1>11. QED
  BY <1>7, <1>9, <1>10 DEF IInv

LEMMA LoadRejectInv ==
    ASSUME IInv, NEW id \in Ids, NEW d \in Drafters, LoadReject(id, d) PROVE IInv'
<1>1. id \in Live /\ pc = "idle" /\ pc' = "idle"
  BY DEF LoadReject, Candidate, Usable
<1>2. InHand'
  BY <1>1 DEF InHand, SaveSteps, Uncommitted
<1>3. job' \in Job \cup {NoJob} /\ restore' \in Restore \cup {NoRestore}
  BY DEF LoadReject, IInv, TypeOK
<1>4. QED
  BY <1>1, <1>2, <1>3, ErasedInv DEF LoadReject, BootSteps, Operating, Uncommitted

LEMMA AcceptLoadInv == ASSUME IInv, AcceptLoad PROVE IInv'
<1> DEFINE id == restore.id
<1>1. id \in Live
  BY DEF AcceptLoad, IInv, InHand
<1>2. /\ index' \in [Ids -> Entry \cup {NoEntry}] /\ Live' = Live
      /\ Touched(index[id]) \in Entry
  BY <1>1, TouchedIndex DEF AcceptLoad
<1>3. /\ disk' \in [Ids -> Directory \cup {NoDir}]
      /\ \A j \in Ids : disk[j] # NoDir => disk'[j] # NoDir
      /\ crashes' \in Nat /\ faults' \in Nat /\ damage' \in Nat
  BY <1>1, <1>2, RewriteType DEF AcceptLoad
<1>4. TypeOK'
  BY <1>2, <1>3 DEF AcceptLoad, bootVars, IInv, TypeOK, Locations, Operating
<1>5. OnDisk'
  BY <1>2, <1>3 DEF AcceptLoad, bootVars, IInv, TypeOK, OnDisk, Live, BootSteps
<1>6. InHand' /\ Numbered'
  BY <1>2 DEF AcceptLoad, IInv, InHand, Numbered, SaveSteps, Uncommitted,
       Operating, BootSteps
<1>7. QED
  BY <1>4, <1>5, <1>6 DEF IInv

LEMMA RejectLoadInv == ASSUME IInv, RejectLoad PROVE IInv'
<1>1. restore.id \in Live /\ pc = "restored" /\ pc' = "idle"
  BY DEF RejectLoad, IInv, InHand
<1>2. InHand'
  BY <1>1 DEF InHand, SaveSteps, Uncommitted
<1>3. job' \in Job \cup {NoJob} /\ restore' \in Restore \cup {NoRestore}
  BY DEF RejectLoad, IInv, TypeOK
<1>4. QED
  BY <1>1, <1>2, <1>3, ErasedInv DEF RejectLoad, BootSteps, Operating, Uncommitted

LEMMA UpdateEvictInv == ASSUME IInv, NEW id \in Ids, UpdateEvict(id) PROVE IInv'
<1>1. id \in Live /\ pc = "update" /\ pc' \in {"update", "idle"}
  BY DEF UpdateEvict, IsVictim
<1>2. InHand'
  BY <1>1 DEF InHand, SaveSteps, Uncommitted
<1>3. job' \in Job \cup {NoJob} /\ restore' \in Restore \cup {NoRestore}
  BY DEF UpdateEvict, IInv, TypeOK
<1>4. QED
  BY <1>1, <1>2, <1>3, ErasedInv DEF UpdateEvict, BootSteps, Operating, Uncommitted

-----------------------------------------------------------------------------
(* The environment.                                                        *)

LEMMA CrashInv == ASSUME IInv, Crash PROVE IInv'
<1>1. conf \in Configs /\ Fresh(conf) /\ unscanned' = {} /\ pc' = "down"
  BY DEF Crash, IInv, TypeOK
<1>2. disk' \in [Ids -> Directory \cup {NoDir}]
  <2>1. CASE UNCHANGED disk
    BY <2>1 DEF IInv, TypeOK
  <2>2. CASE pc \in {"renameDraft", "meta", "sync"}
    <3>1. disk[job.id] \in Directory /\ job.before \in Directory /\ job.id \in Ids
      BY <2>2, HeldType DEF Uncommitted
    <3>2. ASSUME NEW t \in {disk[job.id].target, job.before.target},
                 NEW r \in {disk[job.id].draft, job.before.draft},
                 NEW m \in {disk[job.id].meta, job.before.meta}
          PROVE  [target |-> t, draft |-> r, meta |-> m] \in Directory
      BY <3>1 DEF Directory
    <3>3. CASE UNCHANGED disk
      BY <3>3 DEF IInv, TypeOK
    <3>4. CASE ~UNCHANGED disk
      <4>1. PICK t \in {disk[job.id].target, job.before.target},
                 r \in {disk[job.id].draft, job.before.draft},
                 m \in {disk[job.id].meta, job.before.meta} :
                 disk' = [disk EXCEPT ![job.id] =
                            [target |-> t, draft |-> r, meta |-> m]]
        BY <3>4 DEF Crash
      <4>2. QED
        BY <3>1, <3>2, <4>1 DEF IInv, TypeOK
    <3>5. QED
      BY <3>3, <3>4
  <2>3. QED
    BY <2>1, <2>2 DEF Crash
<1>3. crashes' \in Nat /\ UNCHANGED <<clock, faults, damage>>
  BY DEF Crash, IInv, TypeOK
<1>4. TypeOK'
  BY <1>1, <1>2, <1>3, FreshType DEF IInv, TypeOK, Locations
<1>5. OnDisk' /\ InHand' /\ Numbered'
  BY <1>1, FreshType DEF IInv, OnDisk, InHand, Numbered, SaveSteps,
       BootSteps, Uncommitted, Operating
<1>6. QED
  BY <1>4, <1>5 DEF IInv

LEMMA DamageInv ==
    ASSUME IInv, NEW id \in Ids, NEW part \in {"target", "draft", "meta"},
           Damage(id, part)
    PROVE  IInv'
<1>1. disk[id] \in Directory
  BY DEF Damage, IInv, TypeOK
<1>2. [disk[id] EXCEPT ![part] = NoFile] \in Directory
  BY <1>1 DEF Directory, Component
<1>3. ASSUME part # "meta", disk[id][part] # NoFile
      PROVE  [disk[id] EXCEPT ![part] = [disk[id][part] EXCEPT !.intact = FALSE]]
                \in Directory
  <2>1. disk[id][part] \in Payload
    BY <1>1, <1>3 DEF Directory, Component
  <2>2. [disk[id][part] EXCEPT !.intact = FALSE] \in Component
    BY <2>1 DEF Payload, Component
  <2>3. QED
    BY <1>1, <1>3, <2>2 DEF Directory
<1>4. \E dir \in Directory : disk' = [disk EXCEPT ![id] = dir]
  BY <1>2, <1>3 DEF Damage
<1>5. /\ disk' \in [Ids -> Directory \cup {NoDir}]
      /\ \A j \in Ids : disk[j] # NoDir => disk'[j] # NoDir
  BY <1>4, Nothing DEF IInv, TypeOK
<1>6. damage' \in Nat /\ UNCHANGED <<pc, disposable, clock, crashes, faults>>
  BY DEF Damage, IInv, TypeOK
<1>7. TypeOK'
  BY <1>5, <1>6 DEF disposable, IInv, TypeOK
<1>8. Live' = Live
  BY <1>6 DEF disposable, Live
<1>9. OnDisk'
  BY <1>5, <1>6, <1>8 DEF disposable, IInv, TypeOK, OnDisk, Live
<1>10. InHand' /\ Numbered'
  BY <1>5, <1>6, <1>8 DEF disposable, IInv, InHand, Numbered, SaveSteps, Uncommitted
<1>11. QED
  BY <1>7, <1>9, <1>10 DEF IInv

LEMMA TickInv == ASSUME IInv, Tick PROVE IInv'
BY DEF Tick, disposable, budgets, IInv, TypeOK, OnDisk, InHand, Numbered, Live

LEMMA StutterInv == ASSUME IInv, UNCHANGED vars PROVE IInv'
BY DEF vars, disposable, budgets, IInv, TypeOK, OnDisk, InHand, Numbered, Live

-----------------------------------------------------------------------------
LEMMA NextInv == ASSUME IInv, [Next]_vars PROVE IInv'
<1>1. CASE BootStep
  BY <1>1, ScanDiscardInv, ScanOrphanInv, ScanAdoptInv, ScanDoneInv,
     BootEvictInv, BootEvictDoneInv, BootGcInv, BootDoneInv DEF BootStep
<1>2. CASE SaveProgress
  BY <1>2, TouchRejectInv, TouchHitInv, SaveSkipInv, SaveAllocInv,
     SaveWriteInv, RenameTargetInv, RenameDraftInv, CommitMetaInv, SyncDirInv,
     SweepsInv, SweepDoneInv, SaveDoneInv DEF SaveProgress
<1>3. CASE UpdateStep \/ AcceptLoad \/ RejectLoad
  BY <1>3, UpdateEvictInv, SweepDoneInv, AcceptLoadInv, RejectLoadInv
     DEF UpdateStep
<1>4. CASE Arrival
  BY <1>4, BootInv, SaveBeginInv, LoadOkInv, LoadRejectInv, SweepDoneInv,
     CrashInv, DamageInv, TickInv DEF Arrival
<1>5. CASE UNCHANGED vars
  BY <1>5, StutterInv
<1>6. QED
  BY <1>1, <1>2, <1>3, <1>4, <1>5 DEF Next, InProgress

\* The inductive invariant holds in every reachable state.
THEOREM Inductive == Spec => []IInv
<1>1. Init => IInv
  BY InitInv
<1>2. IInv /\ [Next]_vars => IInv'
  BY NextInv
<1>3. QED
  BY <1>1, <1>2, PTL DEF Spec

\* Every variable of the library always holds a value of its kind, for every
\* set of prompts, drafters, configurations and every budget of crashes,
\* faults and damage: a failed removal never touches a directory that is not
\* there, and every step of a save finds the job and the directory it fills.
THEOREM TypeCorrect == Spec => []TypeOK
<1>1. IInv => TypeOK
  BY DEF IInv
<1>2. QED
  BY <1>1, Inductive, PTL
-----------------------------------------------------------------------------
(* The RAM mirror of the park answers only for a listed entry and with its *)
(* bytes.                                                                  *)

Sweeping == {"supersede", "obsolete", "reclaim"}

\* After its commit, and through the sweeps, the save's own entry is listed
\* with the bytes the save captured: it is what SaveDone mirrors.
Committed ==
    pc \in Sweeping =>
        /\ job.id \in Live
        /\ index[job.id].main = TargetPayload(job.tokens)
        /\ index[job.id].drft = DraftPayload(job.tokens, job.drafter)

\* Boot evictions do not look at the mirror: there is none yet.
NotYetMirrored == pc \in BootSteps \cup {"down", "inert"} => mirror = NoMirror

MInv == MirrorCoherent /\ Committed /\ NotYetMirrored

\* The entry listed under an id, its usage bookkeeping and its quarantine
\* aside, survives a step.
Kept(id) ==
    /\ id \in Live'
    /\ index'[id].main = index[id].main
    /\ index'[id].drft = index[id].drft

\* The first state has no mirror and no save.
LEMMA InitMirror == ASSUME Init PROVE MInv
BY DEF Init, MInv, MirrorCoherent, Committed, NotYetMirrored, Sweeping

\* A step that keeps every listed entry keeps the mirror true.
LEMMA KeptMirror ==
    ASSUME MirrorCoherent, mirror' = mirror, \A id \in Live : Kept(id)
    PROVE  MirrorCoherent'
BY DEF MirrorCoherent, Kept

\* A step that leaves the list alone keeps every entry.
LEMMA SameIndex == ASSUME UNCHANGED index PROVE \A id \in Live : Kept(id)
BY DEF Kept, Live

\* Counting a hit keeps the bytes of every entry.
LEMMA TouchKeeps ==
    ASSUME IInv, NEW id \in Live, index' = [index EXCEPT ![id] = Touched(@)]
    PROVE  \A j \in Live : Kept(j)
<1>1. id \in Ids /\ index[id] \in Entry /\ Live' = Live
  BY TouchedIndex DEF IInv, TypeOK, Live
<1>2. /\ Touched(index[id]).main = index[id].main
      /\ Touched(index[id]).drft = index[id].drft
  BY <1>1 DEF Touched, Entry
<1>3. \A j \in Ids : index'[j] = IF j = id THEN Touched(index[id]) ELSE index[j]
  BY <1>1 DEF IInv, TypeOK
<1>4. QED
  BY <1>1, <1>2, <1>3 DEF Kept, Live

\* An erase keeps every other entry, and the mirror of the erased one goes
\* with it.
LEMMA EraseKeeps ==
    ASSUME IInv, NEW id \in Live, EraseOk(id) \/ EraseFail(id)
    PROVE  \A j \in Live \ {id} : Kept(j)
BY Erased DEF Kept, Live

LEMMA EraseMirror ==
    ASSUME IInv, MirrorCoherent, NEW id \in Live,
           EraseOk(id) \/ EraseFail(id), DropMirror(id)
    PROVE  MirrorCoherent'
<1>1. CASE mirror # NoMirror /\ mirror.id # id
  <2>1. mirror' = mirror /\ mirror.id \in Live \ {id}
    BY <1>1 DEF DropMirror, MirrorCoherent
  <2>2. Kept(mirror.id)
    BY <2>1, EraseKeeps
  <2>3. QED
    BY <2>1, <2>2 DEF MirrorCoherent, Kept
<1>2. CASE mirror = NoMirror \/ mirror.id = id
  BY <1>2 DEF DropMirror, MirrorCoherent
<1>3. QED
  BY <1>1, <1>2

-----------------------------------------------------------------------------
(* One lemma per group of actions.                                         *)

\* A server that starts or dies has no mirror.
LEMMA FreshMirror ==
    ASSUME NEW c \in Configs, Boot(c) \/ BootInert(c) \/ Crash PROVE MInv'
BY DEF Boot, BootInert, Crash, Fresh, MInv, MirrorCoherent, Committed,
       NotYetMirrored, Sweeping

\* The boot works without a mirror to the end.
LEMMA BootMirror == ASSUME MInv, BootStep PROVE MInv'
<1>1. pc \in BootSteps /\ mirror' = mirror /\ pc' \in BootSteps \cup {"idle"}
  BY DEF BootStep, Scanned, ScanDiscard, ScanOrphan, ScanAdopt, ScanDone,
         BootEvict, BootEvictDone, BootGc, BootDone, BootSteps, disposable
<1>2. mirror' = NoMirror
  BY <1>1 DEF MInv, NotYetMirrored
<1>3. QED
  BY <1>1, <1>2 DEF MInv, MirrorCoherent, Committed, NotYetMirrored, Sweeping, BootSteps

\* Steps that neither list nor delist and are not between a commit and the
\* end of its save.
LEMMA QuietMirror ==
    ASSUME IInv, MInv, mirror' = mirror, UNCHANGED index,
           pc \in Operating, pc' \in Operating \ Sweeping
    PROVE  MInv'
<1>1. MirrorCoherent'
  BY KeptMirror, SameIndex DEF MInv
<1>2. QED
  BY <1>1 DEF MInv, Committed, NotYetMirrored, Operating, BootSteps

LEMMA SaveFailMirror ==
    ASSUME IInv, MInv, pc \in Operating, SaveFail PROVE MInv'
BY QuietMirror DEF SaveFail, Operating, Sweeping

LEMMA SaveStepMirror ==
    ASSUME IInv, MInv, pc \in Operating, NEW next \in Uncommitted, SaveStep(next)
    PROVE  MInv'
BY QuietMirror DEF SaveStep, Operating, Sweeping, Uncommitted

LEMMA TouchMirror ==
    ASSUME IInv, MInv, NEW id \in Ids, TouchReject(id) \/ TouchHit(id) PROVE MInv'
<1>1. id \in Live /\ pc = "touch" /\ pc' \in {"touch", "idle"}
  BY DEF TouchReject, TouchHit, CanTouch, Usable
<1>2. CASE TouchReject(id)
  BY <1>1, <1>2, EraseMirror
     DEF TouchReject, MInv, Committed, NotYetMirrored, Sweeping, BootSteps
<1>3. CASE TouchHit(id)
  <2>1. index' = [index EXCEPT ![id] = Touched(@)] /\ mirror' = mirror
    BY <1>3 DEF TouchHit
  <2>2. \A j \in Live : Kept(j)
    BY <1>1, <2>1, TouchKeeps
  <2>3. MirrorCoherent'
    BY <2>1, <2>2, KeptMirror DEF MInv
  <2>4. QED
    BY <1>1, <2>3 DEF MInv, Committed, NotYetMirrored, Sweeping, BootSteps
<1>4. QED
  BY <1>2, <1>3

\* Filling the new entry directory leaves the list alone.
LEMMA FillMirror ==
    ASSUME IInv, MInv,
           \/ SaveSkip \/ SaveAlloc \/ SaveWrite \/ RenameTarget
           \/ RenameDraft \/ CommitMeta
    PROVE  MInv'
<1>1. pc \in Operating
  BY DEF SaveSkip, SaveAlloc, SaveWrite, RenameTarget, RenameDraft, CommitMeta,
         Operating
<1>2. CASE SaveSkip
  BY <1>1, <1>2, QuietMirror DEF SaveSkip, Operating, Sweeping
<1>3. CASE SaveFail \/ \E next \in Uncommitted : SaveStep(next)
  BY <1>1, <1>3, SaveFailMirror, SaveStepMirror
<1>4. CASE ~SaveSkip
  <2>1. SaveFail \/ \E next \in Uncommitted : SaveStep(next)
    BY <1>4 DEF SaveAlloc, SaveWrite, RenameTarget, RenameDraft, CommitMeta,
                DropUncommitted, Uncommitted
  <2>2. QED
    BY <2>1, <1>3
<1>5. QED
  BY <1>2, <1>4

\* The commit lists an id that nothing listed before.
LEMMA SyncMirror == ASSUME IInv, MInv, SyncDir PROVE MInv'
<1>1. pc = "sync" /\ pc \in Uncommitted /\ pc \in Operating
  BY DEF SyncDir, Uncommitted, Operating
<1>2. CASE DropUncommitted
  BY <1>1, <1>2, SaveFailMirror DEF DropUncommitted
<1>3. CASE ~DropUncommitted
  <2>1. /\ index' = [index EXCEPT ![job.id] = NewEntry]
        /\ pc' \in {"supersede", "obsolete"}
        /\ UNCHANGED <<conf, job, mirror>>
    BY <1>3 DEF SyncDir
  <2>2. NewEntry \in Entry /\ job.id \in Ids /\ index[job.id] = NoEntry
    BY <1>1, NewEntryType, HeldType DEF IInv, InHand
  <2>3. index'[job.id] = NewEntry /\ \A j \in Ids \ {job.id} : index'[j] = index[j]
    BY <2>1, <2>2 DEF IInv, TypeOK
  <2>4. \A j \in Live : Kept(j)
    BY <2>2, <2>3 DEF Kept, Live
  <2>5. MirrorCoherent'
    BY <2>1, <2>4, KeptMirror DEF MInv
  <2>6. Committed'
    <3>1. job'.id \in Live'
      BY <2>1, <2>2, <2>3, Nothing DEF Live
    <3>2. /\ NewEntry.main = TargetPayload(job.tokens)
          /\ NewEntry.drft = DraftPayload(job.tokens, job.drafter)
      BY DEF NewEntry
    <3>3. /\ TargetPayload(job.tokens)' = TargetPayload(job.tokens)
          /\ DraftPayload(job.tokens, job.drafter)' = DraftPayload(job.tokens, job.drafter)
      BY <2>1 DEF TargetPayload, DraftPayload
    <3>4. QED
      BY <2>1, <2>3, <3>1, <3>2, <3>3 DEF Committed
  <2>7. QED
    BY <2>1, <2>5, <2>6 DEF MInv, NotYetMirrored, BootSteps
<1>4. QED
  BY <1>2, <1>3

\* While the sweeps run, the new entry and the captured payload agree.
LEMMA CommittedKept ==
    ASSUME Committed, pc \in Sweeping, Kept(job.id), conf' = conf,
           job'.id = job.id, job'.tokens = job.tokens, job'.drafter = job.drafter
    PROVE  Committed'
<1>1. /\ TargetPayload(job.tokens)' = TargetPayload(job.tokens)
      /\ DraftPayload(job.tokens, job.drafter)' = DraftPayload(job.tokens, job.drafter)
  BY DEF TargetPayload, DraftPayload
<1>2. QED
  BY <1>1 DEF Committed, Kept

\* No sweep takes the entry it works for.
LEMMA SweepMirror ==
    ASSUME IInv, MInv, pc \in Sweeping, NEW id \in Live \ {job.id},
           NEW next \in Sweeping, Sweep(id, next)
    PROVE  MInv'
<1>1. /\ EraseOk(id) \/ EraseFail(id)
      /\ DropMirror(id) /\ conf' = conf /\ pc' \in Sweeping
  BY DEF Sweep
<1>2. MirrorCoherent'
  BY <1>1, EraseMirror DEF MInv
<1>3. job \in Job /\ job.id \in Live
  BY DEF MInv, Committed, IInv, TypeOK, InHand, SaveSteps, Sweeping
<1>4. Kept(job.id)
  BY <1>1, <1>3, EraseKeeps
<1>5. job'.id = job.id /\ job'.tokens = job.tokens /\ job'.drafter = job.drafter
  BY <1>3 DEF Sweep, Job
<1>6. Committed'
  BY <1>1, <1>4, <1>5, CommittedKept DEF MInv
<1>7. QED
  BY <1>1, <1>2, <1>6 DEF MInv, NotYetMirrored, BootSteps, Sweeping

LEMMA SweepsMirror ==
    ASSUME IInv, MInv, NEW id \in Ids, Supersede(id) \/ Obsolete(id) \/ Reclaim(id)
    PROVE  MInv'
<1>1. CASE Supersede(id)
  BY <1>1, SweepMirror DEF Supersede, Sweeping
<1>2. CASE Obsolete(id)
  BY <1>2, SweepMirror DEF Obsolete, IsObsolete, Sweeping
<1>3. CASE Reclaim(id)
  BY <1>3, SweepMirror DEF Reclaim, IsVictim, Sweeping
<1>4. QED
  BY <1>1, <1>2, <1>3

LEMMA SweepDoneMirror ==
    ASSUME IInv, MInv, SupersedeDone \/ ObsoleteDone PROVE MInv'
<1>1. /\ UNCHANGED <<index, conf, job, mirror>>
      /\ pc \in Sweeping /\ pc' \in Sweeping
  BY DEF SupersedeDone, ObsoleteDone, SweepDone, disposable, Sweeping
<1>2. \A j \in Live : Kept(j)
  BY <1>1, SameIndex
<1>3. MirrorCoherent'
  BY <1>1, <1>2, KeptMirror DEF MInv
<1>4. job.id \in Live
  BY <1>1 DEF MInv, Committed
<1>5. Committed'
  BY <1>1, <1>2, <1>4, CommittedKept DEF MInv
<1>6. QED
  BY <1>1, <1>3, <1>5 DEF MInv, NotYetMirrored, BootSteps, Sweeping

\* The save installs as mirror what it listed.
LEMMA SaveDoneMirror == ASSUME IInv, MInv, SaveDone PROVE MInv'
<1>1. /\ job.id \in Live /\ pc' = "idle" /\ index' = index
      /\ index[job.id].main = TargetPayload(job.tokens)
      /\ index[job.id].drft = DraftPayload(job.tokens, job.drafter)
  BY DEF SaveDone, MInv, Committed, Sweeping
<1>2. Live' = Live
  BY <1>1 DEF Live
<1>3. MirrorCoherent'
  <2>1. CASE mirror' = mirror
    BY <1>1, <1>2, <2>1 DEF MInv, MirrorCoherent
  <2>2. CASE mirror' = [id |-> job.id, main |-> TargetPayload(job.tokens),
                        drft |-> DraftPayload(job.tokens, job.drafter)]
    BY <1>1, <1>2, <2>2 DEF MirrorCoherent
  <2>3. QED
    BY <2>1, <2>2 DEF SaveDone
<1>4. QED
  BY <1>1, <1>3 DEF MInv, Committed, NotYetMirrored, Sweeping, BootSteps

\* Loading, refusing and evicting between saves.
LEMMA LoadMirror ==
    ASSUME IInv, MInv, NEW id \in Ids, NEW d \in Drafters,
           LoadOk(id, d) \/ LoadReject(id, d)
    PROVE  MInv'
<1>1. CASE LoadOk(id, d)
  BY <1>1, QuietMirror DEF LoadOk, Candidate, Operating, Sweeping
<1>2. CASE LoadReject(id, d)
  <2>1. id \in Live /\ pc = "idle" /\ pc' = "idle"
    BY <1>2 DEF LoadReject, Candidate, Usable
  <2>2. MirrorCoherent'
    BY <1>2, <2>1, EraseMirror DEF LoadReject, MInv
  <2>3. QED
    BY <2>1, <2>2 DEF MInv, Committed, NotYetMirrored, Sweeping, BootSteps
<1>3. QED
  BY <1>1, <1>2

LEMMA RestoreMirror == ASSUME IInv, MInv, AcceptLoad \/ RejectLoad PROVE MInv'
<1>1. restore.id \in Live /\ pc' = "idle"
  BY DEF AcceptLoad, RejectLoad, IInv, InHand
<1>2. MirrorCoherent'
  <2>1. CASE AcceptLoad
    BY <1>1, <2>1, TouchKeeps, KeptMirror DEF AcceptLoad, MInv
  <2>2. CASE RejectLoad
    BY <1>1, <2>2, EraseMirror DEF RejectLoad, MInv
  <2>3. QED
    BY <2>1, <2>2
<1>3. QED
  BY <1>1, <1>2 DEF MInv, Committed, NotYetMirrored, Sweeping, BootSteps

LEMMA UpdateMirror ==
    ASSUME IInv, MInv, UpdateBegin \/ UpdateStep PROVE MInv'
<1>1. CASE UpdateBegin \/ UpdateDone
  BY <1>1, QuietMirror DEF UpdateBegin, UpdateDone, SweepDone, disposable,
       Operating, Sweeping
<1>2. ASSUME NEW id \in Ids, UpdateEvict(id) PROVE MInv'
  <2>1. id \in Live /\ pc = "update" /\ pc' \in {"update", "idle"}
    BY <1>2 DEF UpdateEvict, IsVictim
  <2>2. MirrorCoherent'
    BY <1>2, <2>1, EraseMirror DEF UpdateEvict, MInv
  <2>3. QED
    BY <2>1, <2>2 DEF MInv, Committed, NotYetMirrored, Sweeping, BootSteps
<1>3. QED
  BY <1>1, <1>2 DEF UpdateStep

LEMMA SaveBeginMirror ==
    ASSUME IInv, MInv, NEW p \in Prompts, NEW d \in Drafters, SaveBegin(p, d)
    PROVE  MInv'
BY QuietMirror DEF SaveBegin, Operating, Sweeping

\* Neither time nor damage on the disk reaches the list or the mirror.
LEMMA IdleMirror ==
    ASSUME IInv, MInv,
           \/ Tick \/ UNCHANGED vars
           \/ \E id \in Ids, part \in {"target", "draft", "meta"} : Damage(id, part)
    PROVE  MInv'
<1>1. pc' = pc /\ UNCHANGED <<index, conf, job, mirror>>
  BY DEF Tick, Damage, vars, disposable
<1>2. \A j \in Live : Kept(j)
  BY <1>1, SameIndex
<1>3. MirrorCoherent'
  BY <1>1, <1>2, KeptMirror DEF MInv
<1>4. Committed'
  <2>1. CASE pc \in Sweeping
    <3>1. job.id \in Live
      BY <2>1 DEF MInv, Committed
    <3>2. QED
      BY <1>1, <1>2, <2>1, <3>1, CommittedKept DEF MInv
  <2>2. CASE pc \notin Sweeping
    BY <1>1, <2>2 DEF Committed
  <2>3. QED
    BY <2>1, <2>2
<1>5. QED
  BY <1>1, <1>3, <1>4 DEF MInv, NotYetMirrored

-----------------------------------------------------------------------------
LEMMA NextMirror == ASSUME IInv, MInv, [Next]_vars PROVE MInv'
<1>1. CASE BootStep
  BY <1>1, BootMirror
<1>2. CASE SaveProgress
  BY <1>2, TouchMirror, FillMirror, SyncMirror, SweepsMirror, SweepDoneMirror,
     SaveDoneMirror DEF SaveProgress
<1>3. CASE UpdateStep \/ AcceptLoad \/ RejectLoad
  BY <1>3, UpdateMirror, RestoreMirror
<1>4. CASE Arrival
  <2>1. conf \in Configs
    BY DEF IInv, TypeOK
  <2>2. QED
    BY <1>4, <2>1, FreshMirror, SaveBeginMirror, LoadMirror, UpdateMirror,
       IdleMirror DEF Arrival
<1>5. CASE UNCHANGED vars
  BY <1>5, IdleMirror
<1>6. QED
  BY <1>1, <1>2, <1>3, <1>4, <1>5 DEF Next, InProgress

\* The park's RAM mirror, whenever there is one, answers for an entry that is
\* still listed and with that entry's bytes: no erase on any path, eviction,
\* sweep, refused restore or failed touch, leaves a mirror behind
\* (park_ram_mirror, erase_disk_state).
THEOREM MirrorHolds == Spec => []MirrorCoherent
<1>1. Init => MInv
  BY InitMirror
<1>2. IInv /\ MInv /\ [Next]_vars => MInv'
  BY NextMirror
<1>3. MInv => MirrorCoherent
  BY DEF MInv
<1>4. QED
  BY <1>1, <1>2, <1>3, Inductive, PTL DEF Spec
-----------------------------------------------------------------------------
(* The library implements EntryStore and leaks no complete directory, for  *)
(* every value of the constants that lets a boot read its directory.      *)

(* The invariant of the directories.                                       *)

\* The sidecar m describes the listed entry e.
Describes(m, e) ==
    /\ m.fp = conf.fp /\ m.tokens = e.tokens /\ m.drafter = e.drafter
    /\ m.spec = e.spec /\ m.main = e.main /\ m.drft = e.drft
    /\ m.hits <= e.hits

\* A directory whose sidecar has no draft has no draft file.
Tidy(d) == d.meta # NoFile /\ d.meta.drft = NoFile => d.draft = NoFile

\* What is true of one directory and of the entry that lists it.
Sidecar(id) ==
    /\ disk[id] # NoDir /\ disk[id].meta # NoFile =>
          /\ disk[id].meta.lastUsed <= clock
          /\ Tidy(disk[id])
          /\ id \in Live => Describes(disk[id].meta, index[id])
    /\ id \in Live /\ index[id].drft = NoFile => disk[id].draft = NoFile

\* Until the scan is over some directories lie ahead of it; after it every
\* id in use is below the next one to be given out.
Counted ==
    /\ pc \in Operating => \A id \in Ids : disk[id] # NoDir => id < nextId
    /\ pc = "scan" => \A id \in Ids :
          disk[id] # NoDir => id \in unscanned \/ id <= maxScanned
    /\ pc \in {"evict", "gc"} => \A id \in Ids :
          disk[id] # NoDir => id <= maxScanned

\* The directory a save fills was not there before, and has no sidecar until
\* the commit.
Filled ==
    /\ pc \in Uncommitted => job.before = EmptyDir
    /\ pc \in Uncommitted \ {"sync"} => disk[job.id].meta = NoFile
    /\ pc = "sync" => disk[job.id].meta \in {NoFile, MetaOf(NewEntry)}
    /\ pc \in Uncommitted /\ disk[job.id].draft # NoFile =>
          job.drafter \in conf.drafting

\* What a boot would adopt is listed, ahead of the scan or about to be listed.
Listed ==
    /\ pc \in Operating /\ ~disabled => \A id \in Ids :
          Adoptable(id) => id \in Live \/ (pc = "sync" /\ id = job.id)
    /\ pc = "scan" => \A id \in Ids : Adoptable(id) => id \in Live \cup unscanned
    /\ pc \in {"evict", "gc"} => \A id \in Ids : Adoptable(id) => id \in Live

SInv == (\A id \in Ids : Sidecar(id)) /\ Counted /\ Filled /\ Listed

-----------------------------------------------------------------------------
(* What a step may do to a directory.                                      *)

\* e is what is left of d: files are gone or rotten, nothing is new.
Fewer(d, e) ==
    /\ e.target # NoFile => d.target # NoFile /\ Bytes(e.target) = Bytes(d.target)
    /\ e.draft # NoFile => d.draft # NoFile /\ Bytes(e.draft) = Bytes(d.draft)
    /\ e.meta \in {d.meta, NoFile}

\* Directory id alone changes, and is removed or loses files.
Shrinks(id) ==
    /\ \A j \in Ids \ {id} : disk'[j] = disk[j]
    /\ \/ disk'[id] = NoDir
       \/ disk[id] # NoDir /\ disk'[id] # NoDir /\ Fewer(disk[id], disk'[id])

LEMMA LeftoversFewer ==
    ASSUME NEW d, NEW e \in Leftovers(d) PROVE Fewer(d, e)
BY DEF Fewer, Leftovers

\* What is left of a directory is complete only if the directory was.
LEMMA FewerComplete ==
    ASSUME NEW d \in Directory, NEW e \in Directory, Fewer(d, e), Tidy(d), Complete(e)
    PROVE  Complete(d) /\ e.meta = d.meta
<1>1. e.meta \in Meta /\ e.meta = d.meta /\ d.meta \in Meta
  BY DEF Complete, Fewer, Directory
<1>2. d.meta.main \in Payload /\ d.meta.main # NoFile
  BY <1>1, Nothing DEF Meta
<1>3. SizeExact(d.target, d.meta.main)
  BY <1>1, <1>2 DEF Complete, SizeExact, Fewer
<1>4. SizeExact(d.draft, d.meta.drft)
  <2>1. CASE d.meta.drft = NoFile
    BY <1>1, <2>1, Nothing DEF Tidy, SizeExact
  <2>2. CASE d.meta.drft # NoFile
    BY <1>1, <2>2 DEF Complete, SizeExact, Fewer
  <2>3. QED
    BY <2>1, <2>2
<1>5. d # NoDir /\ d.meta # NoFile
  BY <1>1, Nothing
<1>6. QED
  BY <1>1, <1>3, <1>4, <1>5 DEF Complete

LEMMA FewerTidy ==
    ASSUME NEW d, NEW e, Fewer(d, e), Tidy(d) PROVE Tidy(e)
BY DEF Fewer, Tidy

\* No directory becomes adoptable by shrinking.
LEMMA ShrinkAdopts ==
    ASSUME IInv, IInv', \A j \in Ids : Sidecar(j), NEW id \in Ids, Shrinks(id),
           conf' = conf, NEW j \in Ids, Adoptable(j)'
    PROVE  Adoptable(j)
<1>1. CASE j # id
  BY <1>1 DEF Shrinks, Adoptable, Complete
<1>2. CASE j = id
  <2>1. /\ disk'[id] # NoDir /\ disk'[id] \in Directory
        /\ disk[id] # NoDir /\ disk[id] \in Directory
        /\ Fewer(disk[id], disk'[id]) /\ Complete(disk'[id])
    BY <1>2 DEF Shrinks, Adoptable, Complete, IInv, TypeOK
  <2>2. Tidy(disk[id])
    BY <2>1 DEF Sidecar, Tidy
  <2>3. QED
    BY <1>2, <2>1, <2>2, FewerComplete DEF Adoptable
<1>3. QED
  BY <1>1, <1>2

\* A failing or a succeeding removal shrinks.
LEMMA RemovalShrinks ==
    ASSUME IInv, NEW id \in Ids, disk[id] # NoDir,
           \/ disk' = [disk EXCEPT ![id] = NoDir]
           \/ \E left \in Leftovers(disk[id]) : disk' = [disk EXCEPT ![id] = left]
    PROVE  Shrinks(id)
<1>1. disk \in [Ids -> Directory \cup {NoDir}] /\ disk[id] \in Directory
  BY DEF IInv, TypeOK
<1>2. ASSUME NEW left \in Leftovers(disk[id]), disk' = [disk EXCEPT ![id] = left]
      PROVE  Shrinks(id)
  <2>1. left \in Directory /\ Fewer(disk[id], left)
    BY <1>1, LeftoversType, LeftoversFewer
  <2>2. left # NoDir
    BY <2>1, Nothing
  <2>3. QED
    BY <1>1, <1>2, <2>1, <2>2 DEF Shrinks
<1>3. CASE disk' = [disk EXCEPT ![id] = NoDir]
  BY <1>1, <1>3 DEF Shrinks
<1>4. QED
  BY <1>2, <1>3

LEMMA EraseShrinks ==
    ASSUME IInv, NEW id \in Live, EraseOk(id) \/ EraseFail(id)
    PROVE  /\ id \in Ids /\ Shrinks(id)
           /\ \A j \in Ids \ {id} : index'[j] = index[j]
           /\ \/ index'[id] = NoEntry /\ disk'[id] = NoDir
              \/ index'[id] = [index[id] EXCEPT !.usable = FALSE] /\ disabled'
           /\ disabled => disabled'
<1>1. id \in Ids /\ disk[id] # NoDir /\ disabled \in BOOLEAN
  BY DEF IInv, TypeOK, OnDisk, Live
<1>2. Shrinks(id)
  BY <1>1, RemovalShrinks DEF EraseOk, EraseFail
<1>3. disk \in [Ids -> Directory \cup {NoDir}] /\ index \in [Ids -> Entry \cup {NoEntry}]
  BY DEF IInv, TypeOK
<1>4. CASE EraseOk(id)
  <2>1. /\ disk' = [disk EXCEPT ![id] = NoDir] /\ index' = [index EXCEPT ![id] = NoEntry]
        /\ disabled' = disabled
    BY <1>4 DEF EraseOk
  <2>2. /\ disk'[id] = NoDir /\ index'[id] = NoEntry
        /\ \A j \in Ids \ {id} : index'[j] = index[j]
    BY <1>1, <1>3, <2>1
  <2>3. QED
    BY <1>1, <1>2, <2>1, <2>2
<1>5. CASE EraseFail(id)
  <2>1. index' = [index EXCEPT ![id] = [index[id] EXCEPT !.usable = FALSE]] /\ disabled'
    BY <1>5 DEF EraseFail
  <2>2. QED
    BY <1>1, <1>2, <1>3, <2>1
<1>6. QED
  BY <1>4, <1>5

-----------------------------------------------------------------------------
(* The sidecars.                                                           *)

\* Where neither the directory nor the bytes of its entry change, the sidecar
\* still describes the entry.
LEMMA SidecarKept ==
    ASSUME IInv, NEW id \in Ids, Sidecar(id), conf' = conf, clock <= clock', clock' \in Nat,
           disk'[id] = disk[id],
           index'[id] # NoEntry =>
                /\ index[id] # NoEntry
                /\ index'[id].tokens = index[id].tokens
                /\ index'[id].drafter = index[id].drafter
                /\ index'[id].spec = index[id].spec
                /\ index'[id].main = index[id].main
                /\ index'[id].drft = index[id].drft
                /\ index'[id].hits = index[id].hits
    PROVE  Sidecar(id)'
<1>1. CASE disk[id] = NoDir \/ disk[id].meta = NoFile
  BY <1>1 DEF Sidecar, Live
<1>2. CASE disk[id] # NoDir /\ disk[id].meta # NoFile
  <2>1. disk[id].meta.lastUsed \in Nat /\ clock \in Nat
    BY <1>2 DEF IInv, TypeOK, Directory, Meta
  <2>2. disk'[id].meta.lastUsed <= clock'
    BY <1>2, <2>1 DEF Sidecar
  <2>3. Tidy(disk[id])'
    BY <1>2 DEF Sidecar, Tidy
  <2>4. id \in Live' => Describes(disk[id].meta, index[id])'
    BY <1>2 DEF Sidecar, Describes, Live
  <2>5. QED
    BY <2>2, <2>3, <2>4 DEF Sidecar, Live
<1>3. QED
  BY <1>1, <1>2

\* A directory that shrinks keeps its sidecar or loses it.
LEMMA SidecarShrunk ==
    ASSUME IInv, IInv', NEW id \in Ids, Sidecar(id), conf' = conf,
           clock <= clock', clock' \in Nat, Shrinks(id),
           index'[id] \in {index[id], NoEntry, [index[id] EXCEPT !.usable = FALSE]},
           index'[id] # NoEntry => index[id] # NoEntry
    PROVE  Sidecar(id)'
<1>0. (id \in Live /\ index[id].drft = NoFile => disk[id].draft = NoFile)'
  <2>1. SUFFICES ASSUME id \in Live', index'[id].drft = NoFile
                 PROVE  disk'[id].draft = NoFile
    OBVIOUS
  <2>2. id \in Live /\ index[id] \in Entry /\ disk'[id] # NoDir
    BY <2>1 DEF Live, IInv, TypeOK, OnDisk
  <2>3. index[id].drft = NoFile
    BY <2>1, <2>2 DEF Live, Entry
  <2>4. QED
    BY <2>2, <2>3 DEF Sidecar, Shrinks, Fewer
<1>1. CASE disk'[id] = NoDir \/ disk'[id].meta = NoFile
  BY <1>0, <1>1 DEF Sidecar
<1>2. CASE disk'[id] # NoDir /\ disk'[id].meta # NoFile
  <2>1. /\ disk[id] # NoDir /\ disk'[id].meta = disk[id].meta
        /\ Fewer(disk[id], disk'[id])
    BY <1>2 DEF Shrinks, Fewer
  <2>2. disk[id].meta.lastUsed \in Nat /\ clock \in Nat
    BY <1>2, <2>1 DEF IInv, TypeOK, Directory, Meta
  <2>3. disk'[id].meta.lastUsed <= clock'
    BY <1>2, <2>1, <2>2 DEF Sidecar
  <2>4. Tidy(disk[id])'
    BY <1>2, <2>1, FewerTidy DEF Sidecar
  <2>5. ASSUME id \in Live' PROVE Describes(disk[id].meta, index[id])'
    <3>1. id \in Live /\ index[id] \in Entry
      BY <2>5 DEF Live, IInv, TypeOK
    <3>2. Describes(disk[id].meta, index[id])
      BY <1>2, <2>1, <3>1 DEF Sidecar
    <3>3. /\ index'[id].tokens = index[id].tokens
          /\ index'[id].drafter = index[id].drafter
          /\ index'[id].spec = index[id].spec
          /\ index'[id].main = index[id].main
          /\ index'[id].drft = index[id].drft
          /\ index'[id].hits = index[id].hits
      BY <2>5, <3>1 DEF Live, Entry
    <3>4. QED
      BY <2>1, <3>2, <3>3 DEF Describes
  <2>6. QED
    BY <1>0, <2>3, <2>4, <2>5 DEF Sidecar
<1>3. QED
  BY <1>1, <1>2

\* One directory shrinks; its entry stays as it is, is quarantined or delisted.
LEMMA ShrinkSidecars ==
    ASSUME IInv, IInv', \A j \in Ids : Sidecar(j), NEW id \in Ids, Shrinks(id),
           conf' = conf, clock' = clock,
           \A j \in Ids \ {id} : index'[j] \in {index[j], NoEntry},
           index'[id] \in {index[id], NoEntry, [index[id] EXCEPT !.usable = FALSE]},
           index'[id] # NoEntry => index[id] # NoEntry
    PROVE  \A j \in Ids : Sidecar(j)'
<1>1. clock <= clock' /\ clock' \in Nat
  BY DEF IInv, TypeOK
<1>2. ASSUME NEW j \in Ids \ {id} PROVE Sidecar(j)'
  <2>1. disk'[j] = disk[j] /\ index'[j] # NoEntry => index'[j] = index[j]
    BY DEF Shrinks
  <2>2. QED
    BY <1>1, <2>1, SidecarKept DEF Shrinks
<1>3. Sidecar(id)'
  BY <1>1, SidecarShrunk
<1>4. QED
  BY <1>2, <1>3

\* No directory changes, and no entry is listed.
LEMMA QuietSidecars ==
    ASSUME IInv, \A j \in Ids : Sidecar(j), disk' = disk,
           conf' = conf \/ Live' = {}, clock <= clock', clock' \in Nat,
           index' = index \/ Live' = {}
    PROVE  \A j \in Ids : Sidecar(j)'
<1> SUFFICES ASSUME NEW j \in Ids PROVE Sidecar(j)'
  OBVIOUS
<1>1. CASE Live' = {}
  <2>1. CASE disk[j] = NoDir \/ disk[j].meta = NoFile
    BY <1>1, <2>1 DEF Sidecar
  <2>2. CASE disk[j] # NoDir /\ disk[j].meta # NoFile
    <3>1. disk[j].meta.lastUsed \in Nat /\ clock \in Nat
      BY <2>2 DEF IInv, TypeOK, Directory, Meta
    <3>2. QED
      BY <1>1, <2>2, <3>1 DEF Sidecar, Tidy
  <2>3. QED
    BY <2>1, <2>2
<1>2. CASE Live' # {}
  BY <1>2, SidecarKept
<1>3. QED
  BY <1>1, <1>2
-----------------------------------------------------------------------------
(* One lemma per group of actions.                                         *)

LEMMA CountedKept ==
    ASSUME IInv, IInv', Counted, pc \in Operating, pc' \in Operating, nextId <= nextId',
           \A id \in Ids : disk'[id] # NoDir => disk[id] # NoDir \/ id < nextId'
    PROVE  Counted'
<1>1. nextId \in Nat /\ nextId' \in Nat /\ Ids \subseteq Nat
  BY Bounds DEF IInv, TypeOK, Ids
<1>2. \A id \in Ids : disk'[id] # NoDir => id < nextId'
  BY <1>1 DEF Counted
<1>3. QED
  BY <1>2 DEF Counted, Operating

LEMMA ListedKept ==
    ASSUME Listed, pc \in Operating, pc' \in Operating, disabled => disabled', pc # "sync",
           \A id \in Ids : Adoptable(id)' =>
                id \in Live' \/ (Adoptable(id) /\ id \notin Live)
    PROVE  Listed'
BY DEF Listed, Operating

\* Nothing changes on disk or in the list.
LEMMA QuietStore ==
    ASSUME IInv, IInv', SInv, disk' = disk, conf' = conf, index' = index, clock <= clock',
           nextId' = nextId, pc \in Operating, pc' \in Operating \ Uncommitted,
           disabled => disabled', pc # "sync" \/ disabled'
    PROVE  SInv'
<1>1. \A j \in Ids : Sidecar(j)'
  <2>1. clock' \in Nat
    BY DEF IInv, TypeOK
  <2>2. QED
    BY <2>1, QuietSidecars DEF SInv
<1>2. Counted'
  BY CountedKept DEF SInv, IInv, TypeOK
<1>3. Filled'
  BY DEF Filled, Uncommitted
<1>4. Listed'
  <2>1. CASE pc # "sync"
    <3>1. Live' = Live /\ \A id \in Ids : Adoptable(id)' => Adoptable(id)
      BY DEF Live, Adoptable, Complete
    <3>2. QED
      BY <2>1, <3>1, ListedKept DEF SInv
  <2>2. CASE disabled'
    BY <2>2 DEF Listed, Operating
  <2>3. QED
    BY <2>1, <2>2
<1>5. QED
  BY <1>1, <1>2, <1>3, <1>4 DEF SInv

\* One listed entry is erased or quarantined.
LEMMA EraseStore ==
    ASSUME IInv, IInv', SInv, NEW id \in Live, EraseOk(id) \/ EraseFail(id),
           conf' = conf, clock' = clock, nextId' = nextId,
           pc \in Operating \ Uncommitted, pc' \in Operating \ Uncommitted
    PROVE  SInv'
<1>1. /\ id \in Ids /\ Shrinks(id)
      /\ \A j \in Ids \ {id} : index'[j] = index[j]
      /\ \/ index'[id] = NoEntry /\ disk'[id] = NoDir
         \/ index'[id] = [index[id] EXCEPT !.usable = FALSE] /\ disabled'
      /\ disabled => disabled'
  BY EraseShrinks
<1>2. index[id] \in Entry /\ disk[id] # NoDir
  BY <1>1 DEF IInv, TypeOK, Live, OnDisk
<1>3. \A j \in Ids : Sidecar(j)'
  BY <1>1, <1>2, Nothing, ShrinkSidecars DEF SInv
<1>4. Counted'
  <2>1. \A j \in Ids : disk'[j] # NoDir => disk[j] # NoDir
    BY <1>1, <1>2 DEF Shrinks
  <2>2. QED
    BY <2>1, CountedKept DEF SInv, IInv, TypeOK
<1>5. Filled'
  BY DEF Filled, Uncommitted
<1>6. Listed'
  <2>1. \A j \in Ids : Adoptable(j)' => Adoptable(j)
    BY <1>1, ShrinkAdopts DEF SInv
  <2>2. ASSUME index'[id] = NoEntry, disk'[id] = NoDir PROVE Listed'
    <3>1. \A j \in Ids : Adoptable(j)' => j # id
      BY <2>2 DEF Adoptable, Complete
    <3>2. \A j \in Ids : j # id /\ j \in Live => j \in Live'
      BY <1>1 DEF Live
    <3>3. QED
      BY <1>1, <2>1, <3>1, <3>2, ListedKept DEF SInv, Uncommitted
  <2>3. CASE disabled'
    BY <2>3 DEF Listed, Operating
  <2>4. QED
    BY <1>1, <2>2, <2>3
<1>7. QED
  BY <1>3, <1>4, <1>5, <1>6 DEF SInv

\* A hit is counted in the list, and on disk unless the rewrite fails.
LEMMA TouchStore ==
    ASSUME IInv, IInv', SInv, NEW id \in Live,
           index' = [index EXCEPT ![id] = Touched(@)], RewriteMeta(id, Touched(index[id])),
           conf' = conf, clock' = clock, nextId' = nextId, disabled' = disabled,
           pc \in Operating \ Uncommitted, pc' = "idle"
    PROVE  SInv'
<1> DEFINE t == Touched(index[id])
<1>1. /\ id \in Ids /\ index[id] \in Entry /\ t \in Entry /\ Live' = Live
      /\ disk[id] \in Directory
  BY TouchedIndex DEF IInv, TypeOK, Live, OnDisk
<1>2. /\ \A j \in Ids \ {id} : disk'[j] = disk[j] /\ index'[j] = index[j]
      /\ index'[id] = t
      /\ disk'[id] \in {disk[id], [disk[id] EXCEPT !.meta = MetaOf(t)]}
  BY <1>1 DEF RewriteMeta, IInv, TypeOK
<1>3. /\ t.tokens = index[id].tokens /\ t.drafter = index[id].drafter
      /\ t.spec = index[id].spec /\ t.main = index[id].main /\ t.drft = index[id].drft
      /\ t.hits = index[id].hits + 1 /\ t.lastUsed = clock /\ index[id].hits \in Nat
  BY <1>1 DEF Touched, Entry
<1> HIDE DEF t
<1>4. MetaOf(t) \in Meta
  BY <1>1, MetaType DEF IInv
<1>5. \A j \in Ids : Sidecar(j)'
  <2>1. clock <= clock' /\ clock' \in Nat
    BY DEF IInv, TypeOK
  <2>2. \A j \in Ids \ {id} : Sidecar(j)'
    BY <1>2, <2>1, SidecarKept DEF SInv
  <2>3. CASE disk'[id] = disk[id]
    <3>0. index'[id].drft = NoFile => disk'[id].draft = NoFile
      BY <1>1, <1>2, <1>3, <2>3 DEF SInv, Sidecar
    <3>1. CASE disk[id].meta = NoFile
      BY <2>2, <2>3, <3>0, <3>1 DEF Sidecar
    <3>2. CASE disk[id].meta # NoFile
      <4>1. Describes(disk[id].meta, index[id]) /\ Tidy(disk[id])
            /\ disk[id].meta.lastUsed <= clock
        BY <1>1, <3>2, Nothing DEF SInv, Sidecar
      <4>2. disk[id].meta.hits \in Nat
        BY <1>1, <3>2 DEF Directory, Meta
      <4>3. Describes(disk[id].meta, index[id])'
        BY <1>2, <1>3, <2>3, <4>1, <4>2 DEF Describes
      <4>4. QED
        BY <2>2, <2>3, <3>0, <4>1, <4>3 DEF Sidecar, Tidy
    <3>3. QED
      BY <3>1, <3>2
  <2>4. CASE disk'[id] = [disk[id] EXCEPT !.meta = MetaOf(t)]
    <3>1. disk'[id].meta = MetaOf(t) /\ disk'[id].draft = disk[id].draft
      BY <1>1, <2>4 DEF Directory
    <3>2. Describes(disk[id].meta, index[id])'
      BY <1>1, <1>2, <3>1 DEF Describes, MetaOf, Entry
    <3>3. disk'[id].meta.lastUsed <= clock'
      BY <1>3, <2>1, <3>1 DEF MetaOf
    <3>4. t.drft = NoFile => disk'[id].draft = NoFile
      BY <1>1, <1>3, <3>1 DEF SInv, Sidecar
    <3>5. Tidy(disk[id])'
      BY <3>1, <3>4 DEF Tidy, MetaOf
    <3>6. QED
      BY <1>2, <2>2, <3>2, <3>3, <3>4, <3>5 DEF Sidecar
  <2>5. QED
    BY <1>2, <2>2, <2>3, <2>4
<1>6. Counted'
  <2>1. \A j \in Ids : disk'[j] # NoDir => disk[j] # NoDir
    BY <1>1, <1>2, Nothing
  <2>2. QED
    BY <2>1, CountedKept DEF SInv, IInv, TypeOK, Operating
<1>7. Filled'
  BY DEF Filled, Uncommitted
<1>8. Listed'
  <2>1. \A j \in Ids : j \notin Live' /\ Adoptable(j)' => Adoptable(j)
    BY <1>1, <1>2 DEF Adoptable, Complete
  <2>2. QED
    BY <1>1, <2>1, ListedKept DEF SInv, Uncommitted, Operating
<1>9. QED
  BY <1>5, <1>6, <1>7, <1>8 DEF SInv

\* A directory that is not listed and has no sidecar says nothing.
LEMMA BlankSidecars ==
    ASSUME IInv, IInv', SInv, NEW id \in Ids, id \notin Live, disk'[id].meta = NoFile,
           \A j \in Ids \ {id} : disk'[j] = disk[j],
           conf' = conf, clock' = clock, index' = index
    PROVE  \A j \in Ids : Sidecar(j)'
<1>1. \A j \in Ids \ {id} : Sidecar(j)'
  BY SidecarKept DEF SInv, IInv, TypeOK
<1>2. Sidecar(id)'
  BY DEF Sidecar, Live
<1>3. QED
  BY <1>1, <1>2

\* The save fills its own directory, before the commit.
LEMMA FillStore ==
    ASSUME IInv, IInv', SInv, pc \in Uncommitted \ {"sync"}, pc' \in Uncommitted \ {"sync"},
           conf' = conf, clock' = clock, nextId' = nextId, index' = index,
           disabled' = disabled, job'.id = job.id, job'.before = job.before,
           job'.drafter = job.drafter,
           \A j \in Ids \ {job.id} : disk'[j] = disk[j],
           disk'[job.id].meta = NoFile,
           disk'[job.id].draft # NoFile => job.drafter \in conf.drafting
    PROVE  SInv'
<1>1. job.id \in Ids /\ job.id \notin Live /\ disk[job.id] # NoDir
      /\ pc \in Operating /\ pc' \in Operating /\ pc # "sync"
  BY HeldType, Nothing DEF Uncommitted, Operating
<1>2. \A j \in Ids : Sidecar(j)'
  BY <1>1, BlankSidecars
<1>3. Counted'
  <2>1. \A j \in Ids : disk'[j] # NoDir => disk[j] # NoDir
    BY <1>1
  <2>2. QED
    BY <1>1, <2>1, CountedKept DEF SInv, IInv, TypeOK
<1>4. Filled'
  BY DEF SInv, Filled, Uncommitted
<1>5. Listed'
  <2>1. ASSUME NEW j \in Ids, Adoptable(j)' PROVE Adoptable(j) /\ j # job.id
    BY <2>1 DEF Adoptable, Complete
  <2>2. \A j \in Ids : j \in Live => j \in Live'
    BY DEF Live
  <2>3. QED
    BY <1>1, <2>1, <2>2, ListedKept DEF SInv
<1>6. QED
  BY <1>2, <1>3, <1>4, <1>5 DEF SInv

\* A save that gives up after losing part of its directory opens the breaker.
LEMMA GiveUpStore ==
    ASSUME IInv, IInv', SInv, NEW id \in Ids, Shrinks(id), disabled', pc' = "idle",
           pc \in Operating, conf' = conf, clock' = clock, nextId' = nextId, index' = index
    PROVE  SInv'
<1>1. \A j \in Ids : Sidecar(j)'
  <2>1. \A j \in Ids : index'[j] # NoEntry => index[j] # NoEntry
    OBVIOUS
  <2>2. QED
    BY <2>1, ShrinkSidecars DEF SInv
<1>2. Counted'
  <2>1. \A j \in Ids : disk'[j] # NoDir => disk[j] # NoDir
    BY DEF Shrinks
  <2>2. QED
    BY <2>1, CountedKept DEF SInv, IInv, TypeOK, Operating
<1>3. Filled' /\ Listed'
  BY DEF Filled, Uncommitted, Listed, Operating
<1>4. QED
  BY <1>1, <1>2, <1>3 DEF SInv

LEMMA DropUncommittedStore ==
    ASSUME IInv, IInv', SInv, pc \in Uncommitted, DropUncommitted, nextId' = nextId
    PROVE  SInv' /\ Shrinks(job.id)
<1>1. /\ job.id \in Ids /\ disk[job.id] # NoDir /\ pc \in Operating
      /\ disabled' /\ pc' = "idle" /\ conf' = conf /\ clock' = clock /\ index' = index
  BY HeldType, Nothing DEF DropUncommitted, SaveFail, Uncommitted, Operating
<1>2. Shrinks(job.id)
  BY <1>1, RemovalShrinks DEF DropUncommitted
<1>3. QED
  BY <1>1, <1>2, GiveUpStore

LEMMA SaveFailStore ==
    ASSUME IInv, IInv', SInv, pc \in Operating, SaveFail, disk' = disk, nextId' = nextId
    PROVE  SInv'
<1>1. clock <= clock'
  BY DEF SaveFail, IInv, TypeOK
<1>2. QED
  BY <1>1, QuietStore DEF SaveFail, Operating, Uncommitted

\* The directory a save allocates is a new one, and empty.
LEMMA AllocFresh ==
    ASSUME IInv, SInv, pc = "touch"
    PROVE  nextId \in Ids /\ nextId \notin Live /\ disk[nextId] = NoDir
<1>1. nextId \in Ids /\ nextId \in Nat
  BY Bounds DEF IInv, TypeOK, InHand, Ids
<1>2. ~(nextId < nextId)
  BY <1>1
<1>3. QED
  BY <1>1, <1>2 DEF SInv, Counted, IInv, Numbered, Operating, Live

LEMMA SaveAllocStore == ASSUME IInv, IInv', SInv, SaveAlloc PROVE SInv'
<1>1. pc = "touch" /\ ~disabled /\ pc \in Operating
  BY DEF SaveAlloc, Operating
<1>2. CASE UNCHANGED disk /\ SaveFail
  <2>1. /\ clock' = clock /\ conf' = conf /\ index' = index /\ disabled' /\ pc' = "idle"
        /\ nextId' = nextId + 1
    BY <1>2 DEF SaveFail, SaveAlloc
  <2>2. \A j \in Ids : Sidecar(j)'
    BY <1>2, <2>1, QuietSidecars DEF SInv, IInv, TypeOK
  <2>3. Counted'
    <3>1. nextId <= nextId'
      BY <2>1 DEF IInv, TypeOK
    <3>2. QED
      BY <1>1, <1>2, <2>1, <3>1, CountedKept DEF SInv, Operating
  <2>4. Filled' /\ Listed'
    BY <2>1 DEF Filled, Uncommitted, Listed, Operating
  <2>5. QED
    BY <2>2, <2>3, <2>4 DEF SInv
<1>3. CASE ~(UNCHANGED disk /\ SaveFail)
  <2>1. nextId \in Ids /\ nextId \notin Live /\ disk[nextId] = NoDir /\ job \in Job
    BY <1>1, AllocFresh DEF IInv, TypeOK, InHand, SaveSteps
  <2>2. /\ disk' = [disk EXCEPT ![nextId] = EmptyDir]
        /\ job' = [job EXCEPT !.id = nextId, !.before = EmptyDir]
        /\ pc' = "write" /\ clock' = clock /\ conf' = conf /\ index' = index
        /\ disabled' = disabled /\ nextId' = nextId + 1
    BY <1>3, <2>1 DEF SaveAlloc, SaveStep
  <2>3. /\ disk'[nextId] = EmptyDir /\ \A j \in Ids \ {nextId} : disk'[j] = disk[j]
        /\ job'.id = nextId /\ job'.before = EmptyDir
    BY <2>1, <2>2 DEF IInv, TypeOK, Job
  <2>4. \A j \in Ids : Sidecar(j)'
    BY <2>1, <2>2, <2>3, BlankSidecars DEF EmptyDir
  <2>5. Counted'
    <3>1. nextId <= nextId' /\ nextId < nextId'
      BY <2>2 DEF IInv, TypeOK
    <3>2. QED
      BY <1>1, <2>2, <2>3, <3>1, CountedKept DEF SInv, Operating
  <2>6. Filled'
    BY <2>2, <2>3 DEF Filled, Uncommitted, EmptyDir
  <2>7. Listed'
    <3>1. ASSUME NEW j \in Ids, Adoptable(j)' PROVE Adoptable(j)
      BY <2>2, <2>3, <3>1 DEF Adoptable, Complete, EmptyDir
    <3>2. \A j \in Ids : j \in Live => j \in Live'
      BY <2>2 DEF Live
    <3>3. pc' \in Operating
      BY <2>2 DEF Operating
    <3>4. QED
      BY <1>1, <2>2, <3>1, <3>2, <3>3, ListedKept DEF SInv
  <2>8. QED
    BY <2>4, <2>5, <2>6, <2>7 DEF SInv
<1>4. QED
  BY <1>2, <1>3

LEMMA SaveWriteStore == ASSUME IInv, IInv', SInv, SaveWrite PROVE SInv'
<1>1. pc = "write" /\ pc \in Operating /\ disk' = disk /\ nextId' = nextId
      /\ pc \in Uncommitted \ {"sync"}
  BY DEF SaveWrite, Operating, Uncommitted
<1>2. ASSUME NEW m \in {FALSE, MayMirror}, job' = [job EXCEPT !.mirror = m],
             SaveStep("rename")
      PROVE  SInv'
  <2>1. /\ pc' \in Uncommitted \ {"sync"} /\ clock' = clock /\ conf' = conf
        /\ index' = index /\ disabled' = disabled
    BY <1>2 DEF SaveStep, Uncommitted
  <2>2. job'.id = job.id /\ job'.before = job.before /\ job'.drafter = job.drafter
    BY <1>1, <1>2, HeldType DEF Job
  <2>3. /\ disk'[job.id].meta = NoFile
        /\ disk'[job.id].draft # NoFile => job.drafter \in conf.drafting
    BY <1>1 DEF SInv, Filled
  <2>4. QED
    BY <1>1, <2>1, <2>2, <2>3, FillStore
<1>3. CASE SaveFail
  BY <1>1, <1>3, SaveFailStore
<1>4. QED
  BY <1>2, <1>3 DEF SaveWrite

LEMMA RenameTargetStore == ASSUME IInv, IInv', SInv, RenameTarget PROVE SInv'
<1>1. pc = "rename" /\ pc \in Operating /\ nextId' = nextId /\ pc \in Uncommitted \ {"sync"}
  BY DEF RenameTarget, Operating, Uncommitted
<1>2. CASE UNCHANGED disk /\ SaveFail
  BY <1>1, <1>2, SaveFailStore
<1>3. CASE ~(UNCHANGED disk /\ SaveFail)
  <2>1. /\ disk' = [disk EXCEPT ![job.id].target = TargetPayload(job.tokens)]
        /\ pc' \in Uncommitted \ {"sync"} /\ clock' = clock /\ conf' = conf
        /\ index' = index /\ disabled' = disabled /\ job' = job
    BY <1>3 DEF RenameTarget, SaveStep, Uncommitted
  <2>2. job.id \in Ids /\ disk[job.id] \in Directory
    BY <1>1, HeldType
  <2>3. /\ \A j \in Ids \ {job.id} : disk'[j] = disk[j]
        /\ disk'[job.id].meta = disk[job.id].meta
        /\ disk'[job.id].draft = disk[job.id].draft
    BY <2>1, <2>2 DEF IInv, TypeOK, Directory
  <2>4. QED
    BY <1>1, <2>1, <2>3, FillStore DEF SInv, Filled
<1>4. QED
  BY <1>2, <1>3

\* A failing rename of the draft may take the target back.
LEMMA RenameDraftShrinks ==
    ASSUME IInv, NEW id \in Ids, disk[id] # NoDir,
           NEW left \in {NoFile, disk[id].target},
           disk' = [disk EXCEPT ![id].target = left]
    PROVE  Shrinks(id)
<1>1. disk \in [Ids -> Directory \cup {NoDir}] /\ disk[id] \in Directory
  BY DEF IInv, TypeOK
<1>2. [disk[id] EXCEPT !.target = left] \in Leftovers(disk[id])
  BY <1>1 DEF Leftovers, Directory
<1>3. disk' = [disk EXCEPT ![id] = [disk[id] EXCEPT !.target = left]]
  OBVIOUS
<1>4. QED
  BY <1>2, <1>3, RemovalShrinks

LEMMA RenameDraftStore == ASSUME IInv, IInv', SInv, RenameDraft PROVE SInv'
<1>1. /\ pc = "renameDraft" /\ pc \in Operating /\ nextId' = nextId
      /\ pc \in Uncommitted \ {"sync"} /\ pc \in Uncommitted
  BY DEF RenameDraft, Operating, Uncommitted
<1>2. job.id \in Ids /\ disk[job.id] \in Directory /\ disk[job.id] # NoDir
  BY <1>1, HeldType, Nothing
<1>3. CASE SaveFail
  <2>1. Shrinks(job.id)
    BY <1>2, <1>3, RenameDraftShrinks DEF RenameDraft, SaveFail, SaveStep
  <2>2. QED
    BY <1>1, <1>2, <1>3, <2>1, GiveUpStore DEF SaveFail
<1>4. CASE ~SaveFail
  <2>1. /\ disk' = [disk EXCEPT ![job.id].draft = DraftPayload(job.tokens, job.drafter)]
        /\ pc' \in Uncommitted \ {"sync"} /\ clock' = clock /\ conf' = conf
        /\ index' = index /\ disabled' = disabled /\ job' = job
    BY <1>4 DEF RenameDraft, SaveStep, Uncommitted
  <2>2. /\ \A j \in Ids \ {job.id} : disk'[j] = disk[j]
        /\ disk'[job.id].meta = disk[job.id].meta
        /\ disk'[job.id].draft = DraftPayload(job.tokens, job.drafter)
    BY <1>2, <2>1 DEF IInv, TypeOK, Directory
  <2>3. DraftPayload(job.tokens, job.drafter) # NoFile => job.drafter \in conf.drafting
    BY DEF DraftPayload
  <2>4. QED
    BY <1>1, <2>1, <2>2, <2>3, FillStore DEF SInv, Filled
<1>5. QED
  BY <1>3, <1>4

\* The commit writes a sidecar that describes the files that are there.
LEMMA CommitMetaStore == ASSUME IInv, IInv', SInv, CommitMeta PROVE SInv'
<1>1. pc = "meta" /\ pc \in Operating /\ nextId' = nextId /\ pc \in Uncommitted
  BY DEF CommitMeta, Operating, Uncommitted
<1>2. job.id \in Ids /\ disk[job.id] \in Directory /\ job.id \notin Live
      /\ NewEntry \in Entry
  BY <1>1, HeldType, NewEntryType
<1>3. CASE DropUncommitted
  BY <1>1, <1>3, DropUncommittedStore
<1>4. CASE ~DropUncommitted
  <2>1. /\ disk' = [disk EXCEPT ![job.id].meta = MetaOf(NewEntry)]
        /\ pc' = "sync" /\ clock' = clock /\ conf' = conf
        /\ index' = index /\ disabled' = disabled /\ job' = job
    BY <1>4 DEF CommitMeta, SaveStep
  <2>2. /\ \A j \in Ids \ {job.id} : disk'[j] = disk[j]
        /\ disk'[job.id].meta = MetaOf(NewEntry)
        /\ disk'[job.id].draft = disk[job.id].draft
    BY <1>2, <2>1 DEF IInv, TypeOK, Directory
  <2>3. Live' = Live
    BY <2>1 DEF Live
  <2>4. disk[job.id].draft # NoFile => job.drafter \in conf.drafting
    BY <1>1 DEF SInv, Filled
  <2>5. \A j \in Ids : Sidecar(j)'
    <3>1. \A j \in Ids \ {job.id} : Sidecar(j)'
      BY <2>1, <2>2, SidecarKept DEF SInv, IInv, TypeOK
    <3>2. MetaOf(NewEntry).lastUsed = clock /\ clock \in Nat
      BY DEF MetaOf, NewEntry, IInv, TypeOK
    <3>3. MetaOf(NewEntry).drft = DraftPayload(job.tokens, job.drafter)
      BY DEF MetaOf, NewEntry
    <3>4. job.drafter \in conf.drafting => DraftPayload(job.tokens, job.drafter) # NoFile
      <4>1. ASSUME job.drafter \in conf.drafting
            PROVE  DraftPayload(job.tokens, job.drafter) \in Payload
        <5>1. job.tokens \in Prompts /\ job.drafter \in Drafters
          BY <1>1, HeldType DEF Job
        <5>2. QED
          BY <4>1, <5>1 DEF DraftPayload, Payload
      <4>2. QED
        BY <4>1, Nothing
    <3>5. Tidy(disk[job.id])'
      BY <2>1, <2>2, <2>4, <3>3, <3>4 DEF Tidy
    <3>6. disk'[job.id].meta.lastUsed <= clock'
      BY <2>1, <2>2, <3>2
    <3>7. Sidecar(job.id)'
      BY <1>2, <2>1, <2>3, <3>5, <3>6 DEF Sidecar
    <3>8. QED
      BY <3>1, <3>7, <2>1
  <2>6. Counted'
    <3>1. \A j \in Ids : disk'[j] # NoDir => disk[j] # NoDir
      BY <1>2, <2>2, Nothing
    <3>2. QED
      BY <1>1, <2>1, <3>1, CountedKept DEF SInv, IInv, TypeOK, Operating
  <2>7. Filled'
    <3>1. NewEntry' = NewEntry /\ MetaOf(NewEntry)' = MetaOf(NewEntry)
      BY <2>1 DEF NewEntry, MetaOf, TargetPayload, DraftPayload
    <3>2. job.before = EmptyDir
      BY <1>1 DEF SInv, Filled
    <3>3. QED
      BY <2>1, <2>2, <2>4, <3>1, <3>2 DEF Filled
  <2>8. Listed'
    <3>1. ASSUME NEW j \in Ids, j # job.id, Adoptable(j)' PROVE Adoptable(j)
      BY <2>1, <2>2, <3>1 DEF Adoptable, Complete
    <3>2. ~disabled => \A j \in Ids : Adoptable(j) => j \in Live
      BY <1>1 DEF SInv, Listed
    <3>3. QED
      BY <2>1, <2>3, <3>1, <3>2 DEF Listed, Operating
  <2>9. QED
    BY <2>5, <2>6, <2>7, <2>8 DEF SInv
<1>5. QED
  BY <1>3, <1>4

\* The committed entry is listed.
LEMMA SyncDirStore == ASSUME IInv, IInv', SInv, SyncDir PROVE SInv'
<1>1. pc = "sync" /\ pc \in Operating /\ nextId' = nextId /\ pc \in Uncommitted
  BY DEF SyncDir, Operating, Uncommitted
<1>2. job.id \in Ids /\ disk[job.id] \in Directory /\ job.id \notin Live
      /\ NewEntry \in Entry
  BY <1>1, HeldType, NewEntryType
<1>3. CASE DropUncommitted
  BY <1>1, <1>3, DropUncommittedStore
<1>4. CASE ~DropUncommitted
  <2>1. /\ index' = [index EXCEPT ![job.id] = NewEntry]
        /\ pc' \in Operating \ Uncommitted /\ clock' = clock /\ conf' = conf
        /\ disk' = disk /\ disabled' = disabled /\ job' = job
    BY <1>4 DEF SyncDir, Operating, Uncommitted
  <2>2. index'[job.id] = NewEntry /\ \A j \in Ids \ {job.id} : index'[j] = index[j]
    BY <1>2, <2>1 DEF IInv, TypeOK
  <2>3. Live' = Live \cup {job.id}
    BY <1>2, <2>2, Nothing DEF Live
  <2>4. \A j \in Ids : Sidecar(j)'
    <3>1. \A j \in Ids \ {job.id} : Sidecar(j)'
      BY <2>1, <2>2, SidecarKept DEF SInv, IInv, TypeOK
    <3>2. disk[job.id].meta \in {NoFile, MetaOf(NewEntry)}
      BY <1>1 DEF SInv, Filled
    <3>3. disk[job.id].meta # NoFile => Describes(disk[job.id].meta, NewEntry)
      <4>1. NewEntry.hits \in Nat
        BY <1>2 DEF Entry
      <4>2. QED
        BY <3>2, <4>1 DEF Describes, MetaOf
    <3>4. disk[job.id].meta # NoFile =>
             Tidy(disk[job.id]) /\ disk[job.id].meta.lastUsed <= clock
      BY <1>2, Nothing DEF SInv, Sidecar
    <3>5. NewEntry.drft = NoFile => disk[job.id].draft = NoFile
      <4>1. disk[job.id].draft # NoFile => job.drafter \in conf.drafting
        BY <1>1 DEF SInv, Filled
      <4>2. job.drafter \in conf.drafting => DraftPayload(job.tokens, job.drafter) \in Payload
        <5>1. job.tokens \in Prompts /\ job.drafter \in Drafters
          BY <1>1, HeldType DEF Job
        <5>2. QED
          BY <5>1 DEF DraftPayload, Payload
      <4>3. QED
        BY <4>1, <4>2, Nothing DEF NewEntry
    <3>6. Sidecar(job.id)'
      BY <2>1, <2>2, <3>3, <3>4, <3>5 DEF Sidecar, Describes, Tidy
    <3>7. QED
      BY <2>1, <3>1, <3>6
  <2>5. Counted'
    BY <1>1, <2>1, CountedKept DEF SInv, IInv, TypeOK
  <2>6. Filled'
    BY <2>1 DEF Filled, Uncommitted
  <2>7. Listed'
    <3>1. \A j \in Ids : Adoptable(j)' => Adoptable(j)
      BY <2>1 DEF Adoptable, Complete
    <3>2. ~disabled => \A j \in Ids : Adoptable(j) => j \in Live \/ j = job.id
      BY <1>1 DEF SInv, Listed
    <3>3. QED
      BY <2>1, <2>3, <3>1, <3>2 DEF Listed, Operating
  <2>8. QED
    BY <2>4, <2>5, <2>6, <2>7 DEF SInv
<1>5. QED
  BY <1>3, <1>4

-----------------------------------------------------------------------------
(* The boot.                                                               *)

\* A server starts with a list of its own; its scan has every directory
\* ahead of it.
LEMMA BootStore ==
    ASSUME IInv, IInv', SInv, ScanMayFail = FALSE \/ faults' = 0,
           NEW c \in Configs, Boot(c) \/ BootInert(c)
    PROVE  SInv'
<1>1. /\ disk' = disk /\ clock' = clock /\ pc' \in {"scan", "inert"}
      /\ pc' = "scan" => unscanned' = Existing
  <2>1. ScanMayFail /\ Fault => FALSE
    BY DEF Fault, IInv, TypeOK
  <2>2. QED
    BY <2>1 DEF Boot, BootInert
<1>2. Live' = {}
  BY DEF Boot, BootInert, Fresh, Live
<1>3. \A j \in Ids : Sidecar(j)'
  BY <1>1, <1>2, QuietSidecars DEF SInv, IInv, TypeOK
<1>4. Counted' /\ Filled' /\ Listed'
  BY <1>1 DEF Counted, Filled, Listed, Operating, Uncommitted, Existing, Adoptable, Complete
<1>5. QED
  BY <1>3, <1>4 DEF SInv

\* Outside the operating server only these parts of the invariant matter.
LEMMA BootPhase ==
    ASSUME \A j \in Ids : Sidecar(j)', pc' \in BootSteps,
           pc' = "scan" => \A id \in Ids :
                /\ disk'[id] # NoDir => id \in unscanned' \/ id <= maxScanned'
                /\ Adoptable(id)' => id \in Live' \cup unscanned',
           pc' # "scan" => \A id \in Ids :
                /\ disk'[id] # NoDir => id <= maxScanned'
                /\ Adoptable(id)' => id \in Live'
    PROVE  SInv'
BY DEF SInv, Counted, Filled, Listed, Operating, Uncommitted, BootSteps

LEMMA ScanDiscardStore ==
    ASSUME IInv, IInv', SInv, NEW id \in Ids, ScanDiscard(id) PROVE SInv'
<1>1. /\ pc = "scan" /\ pc' = "scan" /\ index' = index /\ conf' = conf /\ clock' = clock
      /\ id \in unscanned /\ unscanned' = unscanned \ {id}
      /\ maxScanned' = Larger(maxScanned, id)
      /\ ~NotOurs(id) /\ ~Complete(disk[id])
  BY DEF ScanDiscard, Scanned
<1>2. disk[id] # NoDir
  BY <1>1 DEF IInv, OnDisk
<1>3. Shrinks(id)
  BY <1>2, RemovalShrinks DEF ScanDiscard
<1>4. \A j \in Ids : Sidecar(j)'
  BY <1>1, <1>3, ShrinkSidecars DEF SInv
<1>5. maxScanned <= maxScanned' /\ id <= maxScanned' /\ maxScanned \in Int /\ maxScanned' \in Int
  BY <1>1, Bounds DEF Larger, IInv, TypeOK, Ids
<1>6. \A j \in Ids : disk'[j] # NoDir => disk[j] # NoDir
  BY <1>2, <1>3 DEF Shrinks
<1>7. \A j \in Ids : Adoptable(j)' => Adoptable(j)
  BY <1>1, <1>3, ShrinkAdopts DEF SInv
<1>8. \A j \in Ids : disk'[j] # NoDir => j \in unscanned' \/ j <= maxScanned'
  BY <1>1, <1>5, <1>6 DEF SInv, Counted, Ids
<1>9. \A j \in Ids : Adoptable(j)' => j \in Live' \cup unscanned'
  BY <1>1, <1>7 DEF SInv, Listed, Live, Adoptable
<1>10. QED
  BY <1>1, <1>4, <1>8, <1>9, BootPhase DEF BootSteps

LEMMA ScanOrphanStore ==
    ASSUME IInv, IInv', SInv, NEW id \in Ids, ScanOrphan(id) PROVE SInv'
<1>1. /\ pc = "scan" /\ pc' = "scan" /\ index' = index /\ conf' = conf /\ clock' = clock
      /\ id \in unscanned /\ unscanned' = unscanned \ {id}
      /\ maxScanned' = Larger(maxScanned, id)
      /\ NotOurs(id) /\ disk' = disk
  BY DEF ScanOrphan, Scanned
<1>2. \A j \in Ids : Sidecar(j)'
  BY <1>1, QuietSidecars DEF SInv, IInv, TypeOK
<1>3. maxScanned <= maxScanned' /\ id <= maxScanned' /\ maxScanned \in Int /\ maxScanned' \in Int
  BY <1>1, Bounds DEF Larger, IInv, TypeOK, Ids
<1>4. \A j \in Ids : disk'[j] # NoDir => j \in unscanned' \/ j <= maxScanned'
  BY <1>1, <1>3 DEF SInv, Counted, Ids
<1>5. \A j \in Ids : Adoptable(j)' => j \in Live' \cup unscanned'
  BY <1>1 DEF SInv, Listed, Live, Adoptable, NotOurs, Complete
<1>6. QED
  BY <1>1, <1>2, <1>4, <1>5, BootPhase DEF BootSteps

\* An adopted entry is what its sidecar says.
LEMMA ScanAdoptStore ==
    ASSUME IInv, IInv', SInv, NEW id \in Ids, ScanAdopt(id) PROVE SInv'
<1> DEFINE m == disk[id].meta
           e == [tokens |-> m.tokens, drafter |-> m.drafter, spec |-> m.spec,
                 main |-> m.main, drft |-> m.drft, usable |-> TRUE,
                 hits |-> m.hits, lastUsed |-> m.lastUsed]
<1>1. /\ pc = "scan" /\ pc' = "scan" /\ conf' = conf /\ clock' = clock /\ disk' = disk
      /\ id \in unscanned /\ unscanned' = unscanned \ {id}
      /\ maxScanned' = Larger(maxScanned, id)
      /\ ~NotOurs(id) /\ Complete(disk[id])
      /\ index' = [index EXCEPT ![id] = e]
  BY DEF ScanAdopt, Scanned
<1>2. m \in Meta /\ m # NoFile /\ disk[id] # NoDir /\ m.fp = conf.fp
  BY <1>1 DEF IInv, TypeOK, Complete, Directory, NotOurs
<1>3. e \in Entry
  BY <1>2 DEF Meta, Entry
<1>4. index'[id] = e /\ \A j \in Ids \ {id} : index'[j] = index[j]
  BY <1>1 DEF IInv, TypeOK
<1>5. Live' = Live \cup {id}
  BY <1>3, <1>4, Nothing DEF Live
<1>6. \A j \in Ids : Sidecar(j)'
  <2>1. ASSUME NEW j \in Ids \ {id} PROVE Sidecar(j)'
    <3>1. Sidecar(j) /\ clock' = clock /\ clock \in Nat
      BY <1>1 DEF SInv, IInv, TypeOK
    <3>2. conf' = conf /\ disk'[j] = disk[j] /\ index'[j] = index[j]
      BY <1>1, <1>4
    <3>3. QED
      BY <3>1, <3>2, SidecarKept
  <2>2. Describes(m, e) /\ m.hits \in Nat
    BY <1>2 DEF Describes, Meta
  <2>3. Tidy(disk[id]) /\ m.lastUsed <= clock
    BY <1>2 DEF SInv, Sidecar
  <2>4. e.drft = m.drft
    OBVIOUS
  <2> HIDE DEF e, m
  <2>5. disk'[id].meta = m
    BY <1>1 DEF m
  <2>6. Sidecar(id)'
    BY <1>1, <1>2, <1>4, <2>2, <2>3, <2>4, <2>5 DEF Sidecar, Describes, Tidy
  <2>7. QED
    BY <2>1, <2>6
<1> HIDE DEF e, m
<1>7. maxScanned <= maxScanned' /\ id <= maxScanned' /\ maxScanned \in Int /\ maxScanned' \in Int
  BY <1>1, Bounds DEF Larger, IInv, TypeOK, Ids
<1>8. \A j \in Ids : disk'[j] # NoDir => j \in unscanned' \/ j <= maxScanned'
  BY <1>1, <1>7 DEF SInv, Counted, Ids
<1>9. \A j \in Ids : Adoptable(j)' => j \in Live' \cup unscanned'
  BY <1>1, <1>5 DEF SInv, Listed, Adoptable
<1>10. QED
  BY <1>1, <1>6, <1>8, <1>9, BootPhase DEF BootSteps

LEMMA ScanDoneStore == ASSUME IInv, IInv', SInv, ScanDone \/ BootEvictDone PROVE SInv'
<1>1. /\ pc \in {"scan", "evict"}
      /\ pc = "scan" => unscanned = {}
      /\ pc' \in {"evict", "gc"} /\ disk' = disk
      /\ UNCHANGED <<conf, index, maxScanned, clock>>
  BY DEF ScanDone, BootEvictDone, disposable
<1>2. \A j \in Ids : Sidecar(j)'
  BY <1>1, QuietSidecars DEF SInv, IInv, TypeOK
<1>3. \A j \in Ids : disk'[j] # NoDir => j <= maxScanned'
  BY <1>1 DEF SInv, Counted
<1>4. \A j \in Ids : Adoptable(j)' => j \in Live'
  BY <1>1 DEF SInv, Listed, Live, Adoptable
<1>5. QED
  BY <1>1, <1>2, <1>3, <1>4, BootPhase DEF BootSteps

LEMMA BootEvictStore == ASSUME IInv, IInv', SInv, NEW id \in Ids, BootEvict(id) PROVE SInv'
<1>1. /\ pc = "evict" /\ pc' \in {"evict", "gc"} /\ id \in Live
      /\ UNCHANGED <<conf, maxScanned, clock>>
  BY DEF BootEvict, bootVars, IsVictim
<1>2. disk[id] # NoDir /\ index[id] \in Entry
  BY <1>1 DEF IInv, TypeOK, OnDisk, Live
<1>3. Shrinks(id)
  BY <1>2, RemovalShrinks DEF BootEvict, EraseOk
<1>4. /\ \A j \in Ids \ {id} : index'[j] = index[j]
      /\ \/ index'[id] = NoEntry /\ disk'[id] = NoDir
         \/ index'[id] = index[id]
  <2>1. disk \in [Ids -> Directory \cup {NoDir}] /\ index \in [Ids -> Entry \cup {NoEntry}]
    BY DEF IInv, TypeOK
  <2>2. QED
    BY <2>1 DEF BootEvict, EraseOk
<1>5. \A j \in Ids : Sidecar(j)'
  BY <1>1, <1>2, <1>3, <1>4, Nothing, ShrinkSidecars DEF SInv
<1>6. \A j \in Ids : disk'[j] # NoDir => j <= maxScanned'
  BY <1>1, <1>2, <1>3 DEF SInv, Counted, Shrinks
<1>7. \A j \in Ids : Adoptable(j)' => j \in Live'
  <2>1. \A j \in Ids : Adoptable(j)' => Adoptable(j) /\ j \in Live
    BY <1>1, <1>3, ShrinkAdopts DEF SInv, Listed
  <2>2. \A j \in Ids : disk'[j] = NoDir => ~Adoptable(j)'
    BY DEF Adoptable, Complete
  <2>3. QED
    BY <1>4, <2>1, <2>2 DEF Live
<1>8. QED
  BY <1>1, <1>5, <1>6, <1>7, BootPhase DEF BootSteps

LEMMA BootGcStore == ASSUME IInv, IInv', SInv, NEW o \in orphans, BootGc(o) PROVE SInv'
<1>1. pc = "gc" /\ pc' = "gc" /\ UNCHANGED <<conf, maxScanned, clock, index>>
  BY DEF BootGc
<1>2. o.id \in Ids /\ disk[o.id] # NoDir
  BY DEF IInv, TypeOK, OnDisk
<1>3. Shrinks(o.id)
  BY <1>2, RemovalShrinks DEF BootGc
<1>4. \A j \in Ids : Sidecar(j)'
  BY <1>1, <1>2, <1>3, ShrinkSidecars DEF SInv
<1>5. \A j \in Ids : disk'[j] # NoDir => j <= maxScanned'
  BY <1>1, <1>2, <1>3 DEF SInv, Counted, Shrinks
<1>6. \A j \in Ids : Adoptable(j)' => j \in Live'
  BY <1>1, <1>2, <1>3, ShrinkAdopts DEF SInv, Listed, Live
<1>7. QED
  BY <1>1, <1>4, <1>5, <1>6, BootPhase DEF BootSteps

LEMMA BootDoneStore == ASSUME IInv, IInv', SInv, BootDone PROVE SInv'
<1>1. /\ pc = "gc" /\ pc' = "idle" /\ nextId' = maxScanned + 1
      /\ UNCHANGED <<disk, conf, index, clock>>
  BY DEF BootDone
<1>2. \A j \in Ids : Sidecar(j)'
  BY <1>1, QuietSidecars DEF SInv, IInv, TypeOK
<1>3. Counted'
  <2>1. \A j \in Ids : disk'[j] # NoDir => j < nextId'
    BY <1>1, Bounds DEF SInv, Counted, IInv, TypeOK, Ids
  <2>2. QED
    BY <1>1, <2>1 DEF Counted
<1>4. Filled' /\ Listed'
  BY <1>1 DEF SInv, Filled, Uncommitted, Listed, Adoptable, Live
<1>5. QED
  BY <1>2, <1>3, <1>4 DEF SInv

-----------------------------------------------------------------------------
(* The environment.                                                        *)

\* A power loss takes files out of a directory that was new.
LEMMA CrashShrinks ==
    ASSUME IInv, SInv, Crash
    PROVE  disk' = disk \/ (pc \in Uncommitted /\ job.id \in Ids /\ Shrinks(job.id))
<1>1. CASE disk' # disk
  <2>1. pc \in Uncommitted
    BY <1>1 DEF Crash, Uncommitted
  <2>2. job.before = EmptyDir /\ disk[job.id] \in Directory /\ job.id \in Ids
    BY <2>1, HeldType DEF SInv, Filled
  <2>3. PICK t \in {disk[job.id].target, job.before.target},
             r \in {disk[job.id].draft, job.before.draft},
             m \in {disk[job.id].meta, job.before.meta} :
             disk' = [disk EXCEPT ![job.id] = [target |-> t, draft |-> r, meta |-> m]]
    BY <1>1 DEF Crash
  <2>4. [target |-> t, draft |-> r, meta |-> m] \in Leftovers(disk[job.id])
    BY <2>2 DEF Leftovers, EmptyDir
  <2>5. disk[job.id] # NoDir
    BY <2>2, Nothing
  <2>6. QED
    BY <2>1, <2>2, <2>3, <2>4, <2>5, RemovalShrinks
<1>2. QED
  BY <1>1

LEMMA CrashStore == ASSUME IInv, IInv', SInv, Crash PROVE SInv'
<1>1. /\ pc' = "down" /\ conf' = conf /\ clock' = clock
      /\ \A j \in Ids : index'[j] = NoEntry
  BY DEF Crash, Fresh
<1>2. \A j \in Ids : Sidecar(j)'
  <2>1. CASE disk' = disk
    <3>1. Live' = {}
      BY <1>1 DEF Live
    <3>2. QED
      BY <1>1, <2>1, <3>1, QuietSidecars DEF SInv, IInv, TypeOK
  <2>2. CASE job.id \in Ids /\ Shrinks(job.id)
    BY <1>1, <2>2, ShrinkSidecars DEF SInv
  <2>3. QED
    BY <2>1, <2>2, CrashShrinks
<1>3. Counted' /\ Filled' /\ Listed'
  BY <1>1 DEF Counted, Filled, Uncommitted, Listed, Operating
<1>4. QED
  BY <1>2, <1>3 DEF SInv

\* Damage takes a file or its integrity.
LEMMA DamageShrinks ==
    ASSUME IInv, NEW id \in Ids, NEW part \in {"target", "draft", "meta"}, Damage(id, part)
    PROVE  Shrinks(id) /\ disk[id] # NoDir
<1>1. disk \in [Ids -> Directory \cup {NoDir}] /\ disk[id] \in Directory /\ disk[id] # NoDir
  BY DEF Damage, IInv, TypeOK
<1> DEFINE lost == [disk[id] EXCEPT ![part] = NoFile]
           rotten == [disk[id] EXCEPT ![part].intact = FALSE]
<1>2. CASE disk' = [disk EXCEPT ![id][part] = NoFile]
  <2>1. lost \in Leftovers(disk[id])
    BY <1>1 DEF Leftovers, Directory
  <2>2. disk' = [disk EXCEPT ![id] = lost]
    BY <1>2
  <2> HIDE DEF lost
  <2>3. QED
    BY <1>1, <2>1, <2>2, RemovalShrinks
<1>3. CASE part # "meta" /\ disk' = [disk EXCEPT ![id][part].intact = FALSE]
  <2>1. disk[id][part] \in Payload /\ disk[id][part] # NoFile
    BY <1>1, <1>3 DEF Damage, Directory, Component
  <2>2. [disk[id][part] EXCEPT !.intact = FALSE] \in Payload
    BY <2>1 DEF Payload
  <2>3. Bytes([disk[id][part] EXCEPT !.intact = FALSE]) = Bytes(disk[id][part])
    BY <2>1, <2>2, Nothing DEF Bytes, Payload
  <2>4. rotten \in Directory
    BY <1>1, <1>3, <2>2 DEF Directory, Component
  <2>5. Fewer(disk[id], rotten)
    BY <1>1, <1>3, <2>1, <2>3 DEF Fewer, Directory
  <2>6. disk' = [disk EXCEPT ![id] = rotten]
    BY <1>3
  <2> HIDE DEF rotten
  <2>7. QED
    BY <1>1, <2>4, <2>5, <2>6, Nothing DEF Shrinks
<1>4. QED
  BY <1>2, <1>3 DEF Damage

LEMMA DamageStore ==
    ASSUME IInv, IInv', SInv, NEW id \in Ids, NEW part \in {"target", "draft", "meta"},
           Damage(id, part)
    PROVE  SInv'
<1>1. UNCHANGED <<pc, disposable, clock>> /\ Live' = Live
  BY DEF Damage, disposable, Live
<1>2. Shrinks(id) /\ disk[id] # NoDir
  BY DamageShrinks
<1>3. \A j \in Ids : Sidecar(j)'
  BY <1>1, <1>2, ShrinkSidecars DEF SInv, disposable
<1>4. Counted'
  BY <1>1, <1>2 DEF SInv, Counted, Shrinks, disposable
<1>5. \A j \in Ids : Adoptable(j)' => Adoptable(j)
  BY <1>1, <1>2, ShrinkAdopts DEF SInv, disposable
<1>6. Listed'
  BY <1>1, <1>5 DEF SInv, Listed, disposable
<1>7. Filled'
  <2>1. CASE pc \in Uncommitted
    <3>1. disk[job.id] # NoDir /\ disk'[job.id] # NoDir /\ job.id \in Ids
      BY <1>1, <2>1, HeldType DEF IInv, InHand, disposable
    <3>2. Fewer(disk[job.id], disk'[job.id])
      BY <1>2, <3>1 DEF Shrinks, Fewer
    <3>3. MetaOf(NewEntry)' = MetaOf(NewEntry)
      BY <1>1 DEF MetaOf, NewEntry, TargetPayload, DraftPayload, disposable
    <3>4. QED
      BY <1>1, <2>1, <3>2, <3>3 DEF SInv, Filled, Fewer, Uncommitted, disposable
  <2>2. CASE pc \notin Uncommitted
    BY <1>1, <2>2 DEF Filled, Uncommitted
  <2>3. QED
    BY <2>1, <2>2
<1>8. QED
  BY <1>3, <1>4, <1>6, <1>7 DEF SInv

LEMMA TickStore == ASSUME IInv, IInv', SInv, Tick \/ UNCHANGED vars PROVE SInv'
<1>1. /\ UNCHANGED <<disk, pc, disposable>> /\ clock <= clock' /\ Live' = Live
      /\ pc \in Uncommitted => clock' = clock
  BY DEF Tick, vars, IInv, TypeOK, disposable, Live, Uncommitted
<1>2. \A j \in Ids : Sidecar(j)'
  BY <1>1, QuietSidecars DEF SInv, IInv, TypeOK, disposable
<1>3. Counted' /\ Listed'
  BY <1>1 DEF SInv, Counted, Listed, Adoptable, disposable
<1>4. Filled'
  <2>1. pc = "sync" => MetaOf(NewEntry)' = MetaOf(NewEntry)
    BY <1>1 DEF MetaOf, NewEntry, TargetPayload, DraftPayload, disposable, Uncommitted
  <2>2. QED
    BY <1>1, <2>1 DEF SInv, Filled, disposable
<1>5. QED
  BY <1>2, <1>3, <1>4 DEF SInv

-----------------------------------------------------------------------------
(* The operating server.                                                   *)

\* Steps that touch neither the disk nor the list.
LEMMA IdleStore ==
    ASSUME IInv, IInv', SInv,
           \/ \E p \in Prompts, d \in Drafters : SaveBegin(p, d)
           \/ \E id \in Ids, d \in Drafters : LoadOk(id, d)
           \/ SaveSkip \/ SupersedeDone \/ ObsoleteDone \/ SaveDone
           \/ UpdateBegin \/ UpdateDone
    PROVE  SInv'
<1>1. /\ UNCHANGED <<disk, conf, index, clock, nextId>> /\ pc # "sync"
      /\ pc \in Operating /\ pc' \in Operating \ Uncommitted
      /\ disabled' = disabled
  BY DEF SaveBegin, LoadOk, Candidate, SaveSkip, SupersedeDone, ObsoleteDone,
         SaveDone, UpdateBegin, UpdateDone, SweepDone, disposable, Operating, Uncommitted
<1>2. clock <= clock'
  BY <1>1 DEF IInv, TypeOK
<1>3. QED
  BY <1>1, <1>2, QuietStore

\* Every erase outside the boot.
LEMMA AnyEraseStore ==
    ASSUME IInv, IInv', SInv, NEW id \in Ids,
           \/ TouchReject(id) \/ Supersede(id) \/ Obsolete(id) \/ Reclaim(id)
           \/ UpdateEvict(id) \/ \E d \in Drafters : LoadReject(id, d)
           \/ RejectLoad /\ id = restore.id
    PROVE  SInv'
<1>1. /\ id \in Live
      /\ EraseOk(id) \/ EraseFail(id)
      /\ UNCHANGED <<conf, clock, nextId>>
      /\ pc \in Operating \ Uncommitted /\ pc' \in Operating \ Uncommitted
  BY DEF TouchReject, CanTouch, Usable, Supersede, Obsolete, IsObsolete, Reclaim,
         IsVictim, Sweep, UpdateEvict, LoadReject, Candidate, RejectLoad, IInv,
         InHand, Operating, Uncommitted
<1>2. QED
  BY <1>1, EraseStore

\* Both places that count a hit.
LEMMA AnyTouchStore ==
    ASSUME IInv, IInv', SInv, AcceptLoad \/ \E id \in Ids : TouchHit(id) PROVE SInv'
<1>1. PICK id \in Live :
        /\ index' = [index EXCEPT ![id] = Touched(@)]
        /\ RewriteMeta(id, Touched(index[id]))
        /\ pc \in Operating \ Uncommitted /\ pc' = "idle"
        /\ UNCHANGED <<conf, clock, nextId>> /\ disabled' = disabled
  BY DEF AcceptLoad, TouchHit, CanTouch, Usable, IInv, InHand, Operating, Uncommitted
<1>2. QED
  BY <1>1, TouchStore

LEMMA InitStore == ASSUME Init PROVE SInv
<1>1. Live = {}
  BY DEF Init, Live
<1>2. QED
  BY <1>1 DEF Init, SInv, Sidecar, Counted, Filled, Listed, Adoptable, Complete,
              Operating, Uncommitted

LEMMA NextStore ==
    ASSUME IInv, IInv', SInv, ScanMayFail = FALSE \/ faults' = 0, [Next]_vars
    PROVE  SInv'
<1>1. CASE BootStep
  BY <1>1, ScanDiscardStore, ScanOrphanStore, ScanAdoptStore, ScanDoneStore,
     BootEvictStore, BootGcStore, BootDoneStore DEF BootStep
<1>2. CASE SaveProgress
  BY <1>2, AnyEraseStore, AnyTouchStore, IdleStore, SaveAllocStore, SaveWriteStore,
     RenameTargetStore, RenameDraftStore, CommitMetaStore, SyncDirStore DEF SaveProgress
<1>3. CASE UpdateStep \/ AcceptLoad
  BY <1>3, AnyEraseStore, AnyTouchStore, IdleStore DEF UpdateStep
<1>4. CASE RejectLoad
  <2>1. restore.id \in Ids
    BY <1>4 DEF RejectLoad, IInv, InHand, Live
  <2>2. QED
    BY <1>4, <2>1, AnyEraseStore
<1>5. CASE Arrival
  BY <1>5, BootStore, IdleStore, AnyEraseStore, CrashStore, TickStore, DamageStore
     DEF Arrival
<1>6. CASE UNCHANGED vars
  BY <1>6, TickStore
<1>7. QED
  BY <1>1, <1>2, <1>3, <1>4, <1>5, <1>6 DEF Next, InProgress

\* A boot that can read its directory gives a server whose directories are
\* numbered, listed and described by their sidecars.
THEOREM StoreInvariant == ASSUME ScanMayFail = FALSE PROVE Spec => []SInv
<1>1. Init => SInv
  BY InitStore
<1>2. IInv /\ IInv' /\ SInv /\ [Next]_vars => SInv'
  BY NextStore
<1>3. QED
  BY <1>1, <1>2, Inductive, PTL DEF Spec

\* An entry that a later boot would adopt is listed, and so budgeted, whenever
\* the server is idle with its circuit breaker closed: no save, failed
\* removal, power loss or damaged file leaks a complete directory, as long as
\* boots can read the directory they scan (save_disk, erase_disk_state,
\* boot_persist).
THEOREM NothingLeaks == ASSUME ScanMayFail = FALSE PROVE Spec => []NoLeak
<1>1. SInv => NoLeak
  <2>1. SUFFICES ASSUME SInv, pc = "idle", ~disabled, NEW id \in Ids, Adoptable(id)
                 PROVE  id \in Live
    BY DEF NoLeak
  <2>2. QED
    BY <2>1 DEF SInv, Listed, Operating
<1>2. QED
  BY <1>1, StoreInvariant, PTL

-----------------------------------------------------------------------------
(* The library implements EntryStore.                                      *)

\* What a boot would see of a directory.
View(d) ==
    IF Complete(d)
    THEN [content |-> [fp |-> d.meta.fp, tokens |-> d.meta.tokens,
                       drafter |-> d.meta.drafter, spec |-> d.meta.spec,
                       main |-> d.meta.main, drft |-> d.meta.drft],
          hits |-> d.meta.hits, lastUsed |-> d.meta.lastUsed]
    ELSE NoEntry

\* Directory id alone changes, and was not complete before the step.
Begins(id) ==
    /\ \A j \in Ids \ {id} : disk'[j] = disk[j]
    /\ ~Complete(disk[id])

\* Directory id alone changes: its usage is brought up to date.
Used(id) ==
    /\ \A j \in Ids \ {id} : disk'[j] = disk[j]
    /\ Complete(disk[id]) /\ Complete(disk'[id])
    /\ View(disk'[id]).content = View(disk[id]).content
    /\ View(disk'[id]).hits > View(disk[id]).hits
    /\ View(disk'[id]).lastUsed >= View(disk[id]).lastUsed

\* What a step of the library does to the directories.
Moves == disk' = disk \/ \E id \in Ids : Shrinks(id) \/ Begins(id) \/ Used(id)

LEMMA BootMoves == ASSUME IInv, SInv, BootStep PROVE Moves
<1>1. ASSUME NEW id \in Ids, ScanDiscard(id) PROVE Moves
  <2>1. disk[id] # NoDir
    BY <1>1 DEF ScanDiscard, Scanned, IInv, OnDisk
  <2>2. QED
    BY <1>1, <2>1, RemovalShrinks DEF ScanDiscard, Moves
<1>2. ASSUME NEW id \in Ids, BootEvict(id) PROVE Moves
  <2>1. disk[id] # NoDir
    BY <1>2 DEF BootEvict, IsVictim, IInv, OnDisk
  <2>2. QED
    BY <1>2, <2>1, RemovalShrinks DEF BootEvict, EraseOk, Moves
<1>3. ASSUME NEW o \in orphans, BootGc(o) PROVE Moves
  <2>1. o.id \in Ids /\ disk[o.id] # NoDir
    BY DEF IInv, TypeOK, OnDisk
  <2>2. QED
    BY <1>3, <2>1, RemovalShrinks DEF BootGc, Moves
<1>4. CASE \/ ScanDone \/ BootEvictDone \/ BootDone
           \/ \E id \in Ids : ScanOrphan(id) \/ ScanAdopt(id)
  BY <1>4 DEF ScanDone, BootEvictDone, BootDone, ScanOrphan, ScanAdopt, Moves
<1>5. QED
  BY <1>1, <1>2, <1>3, <1>4 DEF BootStep

\* Where a save fills its directory, no sidecar completes it.
LEMMA FillMoves ==
    ASSUME IInv, SInv,
           \/ SaveAlloc \/ SaveWrite \/ RenameTarget \/ RenameDraft
           \/ CommitMeta \/ SyncDir
    PROVE  Moves
<1>1. CASE SaveAlloc
  <2>1. nextId \in Ids /\ disk[nextId] = NoDir
    BY <1>1, AllocFresh DEF SaveAlloc
  <2>2. disk' = disk \/ \E dir : disk' = [disk EXCEPT ![nextId] = dir]
    BY <1>1 DEF SaveAlloc
  <2>3. QED
    BY <2>1, <2>2 DEF Moves, Begins, Complete, IInv, TypeOK
<1>2. CASE SaveWrite
  BY <1>2 DEF SaveWrite, Moves
<1>3. CASE RenameTarget \/ RenameDraft \/ CommitMeta
  <2>1. pc \in Uncommitted \ {"sync"} /\ pc \in Uncommitted
    BY <1>3 DEF RenameTarget, RenameDraft, CommitMeta, Uncommitted
  <2>2. job.id \in Ids /\ ~Complete(disk[job.id])
    BY <2>1, HeldType DEF SInv, Filled, Complete
  <2>3. disk' = disk \/ \E dir : disk' = [disk EXCEPT ![job.id] = dir]
    BY <1>3 DEF RenameTarget, RenameDraft, CommitMeta, DropUncommitted
  <2>4. QED
    BY <2>2, <2>3 DEF Moves, Begins, IInv, TypeOK
<1>4. CASE SyncDir
  <2>1. pc \in Uncommitted /\ (disk' = disk \/ DropUncommitted)
    BY <1>4 DEF SyncDir, Uncommitted
  <2>2. job.id \in Ids /\ disk[job.id] # NoDir
    BY <2>1, HeldType, Nothing
  <2>3. QED
    BY <2>1, <2>2, RemovalShrinks DEF DropUncommitted, Moves
<1>5. QED
  BY <1>1, <1>2, <1>3, <1>4

LEMMA EraseMoves ==
    ASSUME IInv, NEW id \in Live, EraseOk(id) \/ EraseFail(id) PROVE Moves
BY EraseShrinks DEF Moves

\* A hit that reaches the disk brings the usage of an unchanged entry forward.
LEMMA TouchMoves ==
    ASSUME IInv, SInv, NEW id \in Live, RewriteMeta(id, Touched(index[id])) PROVE Moves
<1> DEFINE t == Touched(index[id])
           m == disk[id].meta
<1>1. /\ id \in Ids /\ index[id] \in Entry /\ disk[id] \in Directory /\ disk[id] # NoDir
      /\ t.tokens = index[id].tokens /\ t.drafter = index[id].drafter
      /\ t.spec = index[id].spec /\ t.main = index[id].main /\ t.drft = index[id].drft
      /\ t.hits = index[id].hits + 1 /\ t.lastUsed = clock /\ index[id].hits \in Nat
  BY Nothing DEF IInv, TypeOK, Live, OnDisk, Touched, Entry
<1> HIDE DEF t
<1>2. CASE disk' = disk
  BY <1>2 DEF Moves
<1>3. CASE ~Complete(disk[id]) /\ disk' = [disk EXCEPT ![id].meta = MetaOf(t)]
  BY <1>1, <1>3 DEF Moves, Begins, IInv, TypeOK
<1>4. CASE Complete(disk[id]) /\ disk' = [disk EXCEPT ![id].meta = MetaOf(t)]
  <2>1. /\ \A j \in Ids \ {id} : disk'[j] = disk[j]
        /\ disk'[id] = [disk[id] EXCEPT !.meta = MetaOf(t)]
    BY <1>1, <1>4 DEF IInv, TypeOK
  <2>2. m \in Meta /\ Describes(m, index[id]) /\ m.lastUsed <= clock
    BY <1>1, <1>4 DEF SInv, Sidecar, Complete, Directory
  <2>3. disk'[id].meta = MetaOf(t) /\ disk'[id].target = disk[id].target
        /\ disk'[id].draft = disk[id].draft
    BY <1>1, <2>1 DEF Directory
  <2>4. /\ MetaOf(t).fp = m.fp /\ MetaOf(t).tokens = m.tokens
        /\ MetaOf(t).drafter = m.drafter /\ MetaOf(t).spec = m.spec
        /\ MetaOf(t).main = m.main /\ MetaOf(t).drft = m.drft
        /\ MetaOf(t).hits = t.hits /\ MetaOf(t).lastUsed = clock
    BY <1>1, <2>2 DEF MetaOf, Describes
  <2>5. m.hits \in Nat /\ m.hits < MetaOf(t).hits /\ MetaOf(t).lastUsed >= m.lastUsed
        /\ MetaOf(t).hits > m.hits
    BY <1>1, <2>2, <2>4 DEF Meta, Describes, IInv, TypeOK
  <2>6. disk'[id] # NoDir /\ MetaOf(t) # NoFile
    <3>1. t \in Entry
      BY <1>1, TouchedType DEF t, IInv
    <3>2. MetaOf(t) \in Meta
      BY <3>1, MetaType DEF IInv
    <3>3. disk'[id] \in Directory
      BY <1>1, <2>1, <3>2 DEF Directory
    <3>4. QED
      BY <3>2, <3>3, Nothing
  <2>7. Complete(disk'[id])
    BY <1>4, <2>3, <2>4, <2>6 DEF Complete
  <2> HIDE DEF m
  <2>8. /\ View(disk'[id]).content = View(disk[id]).content
        /\ View(disk'[id]).hits > View(disk[id]).hits
        /\ View(disk'[id]).lastUsed >= View(disk[id]).lastUsed
    BY <1>4, <2>3, <2>4, <2>5, <2>7 DEF View, m
  <2>9. QED
    BY <1>1, <1>4, <2>1, <2>7, <2>8 DEF Moves, Used
<1>5. QED
  BY <1>2, <1>3, <1>4 DEF RewriteMeta, t

LEMMA StepMoves == ASSUME IInv, SInv, [Next]_vars PROVE Moves
<1>1. CASE BootStep
  BY <1>1, BootMoves
<1>2. CASE \/ SaveAlloc \/ SaveWrite \/ RenameTarget \/ RenameDraft
           \/ CommitMeta \/ SyncDir
  BY <1>2, FillMoves
<1>3. CASE \/ UNCHANGED vars \/ Tick \/ UpdateBegin \/ UpdateDone
           \/ SaveSkip \/ SupersedeDone \/ ObsoleteDone \/ SaveDone
           \/ \E c \in Configs : Boot(c) \/ BootInert(c)
           \/ \E p \in Prompts, d \in Drafters : SaveBegin(p, d)
           \/ \E id \in Ids, d \in Drafters : LoadOk(id, d)
  BY <1>3 DEF vars, Tick, UpdateBegin, UpdateDone, SaveSkip, SupersedeDone,
              ObsoleteDone, SaveDone, SweepDone, Boot, BootInert, SaveBegin, LoadOk, Moves
<1>4. CASE \/ RejectLoad
           \/ \E id \in Ids : \/ TouchReject(id) \/ Supersede(id) \/ Obsolete(id)
                              \/ Reclaim(id) \/ UpdateEvict(id)
                              \/ \E d \in Drafters : LoadReject(id, d)
  <2>1. PICK id \in Live : EraseOk(id) \/ EraseFail(id)
    BY <1>4 DEF RejectLoad, TouchReject, CanTouch, Usable, Supersede, Obsolete,
                IsObsolete, Reclaim, IsVictim, Sweep, UpdateEvict, LoadReject, Candidate,
                IInv, InHand
  <2>2. QED
    BY <2>1, EraseMoves
<1>5. CASE AcceptLoad \/ \E id \in Ids : TouchHit(id)
  <2>1. PICK id \in Live : RewriteMeta(id, Touched(index[id]))
    BY <1>5 DEF AcceptLoad, TouchHit, CanTouch, Usable, IInv, InHand
  <2>2. QED
    BY <2>1, TouchMoves
<1>6. CASE Crash
  BY <1>6, CrashShrinks DEF Moves
<1>7. CASE \E id \in Ids, part \in {"target", "draft", "meta"} : Damage(id, part)
  BY <1>7, DamageShrinks DEF Moves
<1>8. QED
  BY <1>1, <1>2, <1>3, <1>4, <1>5, <1>6, <1>7
     DEF Next, InProgress, SaveProgress, UpdateStep, Arrival

\* The store a boot would see, entry by entry.
LEMMA StoreViews ==
    /\ DOMAIN StoreView = Ids /\ StoreView = [id \in Ids |-> StoreView[id]]
    /\ \A id \in Ids : StoreView[id] = View(disk[id])
BY DEF StoreView, View

\* A directory that shrinks leaves its entry as it was, or no entry.
LEMMA ShrinkView ==
    ASSUME IInv, IInv', SInv, NEW id \in Ids, Shrinks(id)
    PROVE  View(disk'[id]) \in {View(disk[id]), NoEntry}
<1>1. CASE ~Complete(disk'[id])
  BY <1>1 DEF View
<1>2. CASE Complete(disk'[id])
  <2>1. /\ disk'[id] # NoDir /\ disk'[id] \in Directory
        /\ disk[id] # NoDir /\ disk[id] \in Directory
        /\ Fewer(disk[id], disk'[id])
    BY <1>2 DEF Shrinks, Complete, IInv, TypeOK
  <2>2. Tidy(disk[id])
    BY <2>1 DEF SInv, Sidecar, Tidy
  <2>3. Complete(disk[id]) /\ disk'[id].meta = disk[id].meta
    BY <1>2, <2>1, <2>2, FewerComplete
  <2>4. QED
    BY <1>2, <2>3 DEF View
<1>3. QED
  BY <1>1, <1>2

\* Every step of the library is a step of EntryStore or leaves the store alone.
LEMMA StoreStep ==
    ASSUME IInv, IInv', SInv, [Next]_vars PROVE [Store!Next]_StoreView
<1>1. CASE disk' = disk
  BY <1>1 DEF StoreView, Complete
<1>2. CASE \E id \in Ids : Shrinks(id) \/ Begins(id) \/ Used(id)
  <2>1. PICK id \in Ids : Shrinks(id) \/ Begins(id) \/ Used(id)
    BY <1>2
  <2>2. /\ StoreView[id] = View(disk[id]) /\ StoreView'[id] = View(disk'[id])
        /\ \A j \in Ids \ {id} : StoreView'[j] = StoreView[j]
    <3>1. \A j \in Ids : StoreView[j] = View(disk[j])
      BY StoreViews
    <3>2. \A j \in Ids : StoreView'[j] = View(disk'[j])
      BY DEF StoreView, View, Complete
    <3>3. QED
      BY <2>1, <3>1, <3>2 DEF Shrinks, Begins, Used
  <2>3. StoreView' = [StoreView EXCEPT ![id] = StoreView'[id]]
    BY <2>2 DEF StoreView
  <2>4. CASE StoreView'[id] = StoreView[id]
    BY <2>2, <2>4 DEF StoreView
  <2>5. CASE StoreView'[id] # StoreView[id] /\ StoreView'[id] = NoEntry
    <3>1. Store!Drop(id)
      BY <2>3, <2>5 DEF Store!Drop
    <3>2. QED
      BY <3>1 DEF Store!Next
  <2>6. CASE StoreView'[id] # StoreView[id] /\ StoreView[id] = NoEntry
    <3>1. Store!Commit(id, StoreView'[id])
      BY <2>3, <2>6 DEF Store!Commit
    <3>2. StoreView'[id] \in {StoreView'[id]} \ {NoEntry}
      BY <2>6
    <3>3. QED
      BY <3>1, <3>2 DEF Store!Next
  <2>7. CASE /\ StoreView'[id] # StoreView[id]
             /\ StoreView'[id] # NoEntry /\ StoreView[id] # NoEntry
    <3>1. Used(id)
      BY <2>1, <2>2, <2>7, ShrinkView DEF Begins, View
    <3>2. Store!Use(id, StoreView'[id])
      BY <2>2, <2>3, <2>7, <3>1 DEF Used, Store!Use
    <3>3. StoreView'[id] \in {StoreView'[id]} \ {NoEntry}
      BY <2>7
    <3>4. QED
      BY <3>2, <3>3 DEF Store!Next
  <2>8. QED
    BY <2>4, <2>5, <2>6, <2>7
<1>3. QED
  BY <1>1, <1>2, StepMoves DEF Moves

\* The library implements EntryStore: whatever crash, power loss, damage or
\* failing call comes between, a boot never sees half an entry and no entry
\* ever changes what it holds; only its usage moves, and only forward.
THEOREM StoreRefined == ASSUME ScanMayFail = FALSE PROVE Spec => StoreSpec
<1>1. Init => Store!Init
  BY DEF Init, Store!Init, StoreView, Complete
<1>2. IInv /\ IInv' /\ SInv /\ [Next]_vars => [Store!Next]_StoreView
  BY StoreStep
<1>3. QED
  BY <1>1, <1>2, Inductive, StoreInvariant, PTL DEF Spec, StoreSpec, Store!Spec
=============================================================================
