------------------------- MODULE PersistSaveProofs -------------------------
(***************************************************************************)
(* What PersistLibrary serves is what was saved, a load spares what is     *)
(* intact, its size is the sum of its entries, a save leaves it within its *)
(* budget and the disk within two, and a park keeps an entry, for every    *)
(* value of the constants.                                                 *)
(***************************************************************************)
EXTENDS PersistLibraryProofs, SequenceFacts

-----------------------------------------------------------------------------
(* What is served.                                                         *)

\* The configurations with this fingerprint route to the entry's drafter, and
\* have a draft context for it exactly if the entry has a draft.
OfIdentity(fp, e) ==
    \A c \in Configs : c.fp = fp =>
        /\ e.drafter \in c.drafters
        /\ (e.drafter \in c.drafting) = (e.drft # NoFile)

\* An entry, or the sidecar of one, names the payloads its save wrote, and
\* was saved by a configuration with this fingerprint.
Saved(fp, e) ==
    /\ e.main = TargetPayload(e.tokens)
    /\ e.drft \in {NoFile, [tokens |-> e.tokens, drafter |-> e.drafter, intact |-> TRUE]}
    /\ OneIdentity => OfIdentity(fp, e)

SavedList == \A id \in Live : Saved(conf.fp, index[id])
SavedDisk ==
    \A id \in Ids : disk[id] # NoDir /\ disk[id].meta # NoFile =>
                        Saved(disk[id].meta.fp, disk[id].meta)
SavedBefore ==
    job # NoJob =>
        /\ job.drafter \in conf.drafters
        /\ job.before.meta # NoFile => Saved(job.before.meta.fp, job.before.meta)

\* A mirror with a draft was captured by a server that drafts.
DraftingMirror == mirror # NoMirror /\ mirror.drft # NoFile => conf.drafting = conf.drafters

VInv == SavedList /\ SavedDisk /\ SavedBefore /\ DraftingMirror /\ ServedIsSaved

\* The sidecar of a saved entry is saved, and so is the entry after a hit.
LEMMA SavedMeta ==
    ASSUME NEW e, Saved(conf.fp, e) PROVE MetaOf(e).fp = conf.fp /\ Saved(conf.fp, MetaOf(e))
BY DEF Saved, OfIdentity, MetaOf

LEMMA SavedTouched == ASSUME IInv, NEW fp, NEW e \in Entry, Saved(fp, e) PROVE Saved(fp, Touched(e))
<1>1. /\ Touched(e).tokens = e.tokens /\ Touched(e).drafter = e.drafter
      /\ Touched(e).main = e.main /\ Touched(e).drft = e.drft
  BY DEF Touched, Entry
<1>2. QED
  BY <1>1 DEF Saved, OfIdentity

LEMMA SavedNew ==
    ASSUME IInv, SavedBefore, job # NoJob PROVE Saved(conf.fp, NewEntry)
<1>1. /\ NewEntry.main = TargetPayload(NewEntry.tokens)
      /\ NewEntry.drft \in {NoFile, [tokens |-> job.tokens, drafter |-> job.drafter, intact |-> TRUE]}
      /\ NewEntry.tokens = job.tokens /\ NewEntry.drafter = job.drafter
      /\ (job.drafter \in conf.drafting) = (NewEntry.drft # NoFile)
  <2>1. [tokens |-> job.tokens, drafter |-> job.drafter, intact |-> TRUE] # NoFile
    <3>1. job \in Job
      BY DEF IInv, TypeOK
    <3>2. [tokens |-> job.tokens, drafter |-> job.drafter, intact |-> TRUE] \in Payload
      BY <3>1 DEF Job, Payload
    <3>3. QED
      BY <3>2, Nothing
  <2>2. QED
    BY <2>1 DEF NewEntry, DraftPayload
<1>2. OneIdentity => OfIdentity(conf.fp, NewEntry)
  BY <1>1 DEF OneIdentity, OfIdentity, SavedBefore, IInv, TypeOK
<1>3. QED
  BY <1>1, <1>2 DEF Saved, OfIdentity, OneIdentity

\* A directory that shrinks has the sidecar it had, or none.
LEMMA SavedShrunk ==
    ASSUME SavedDisk, NEW id \in Ids, Shrinks(id) PROVE SavedDisk'
<1>1. \A j \in Ids : disk'[j] # NoDir /\ disk'[j].meta # NoFile =>
         disk[j] # NoDir /\ disk[j].meta # NoFile /\ disk'[j].meta = disk[j].meta
  BY DEF Shrinks, Fewer
<1>2. QED
  BY <1>1 DEF SavedDisk, Saved, OfIdentity, OneIdentity

LEMMA ListSaved ==
    ASSUME \A id \in Live' : Saved(conf'.fp, index'[id]) PROVE SavedList'
BY DEF SavedList, Saved, OfIdentity, OneIdentity

\* Entry id is erased or quarantined.
LEMMA SavedErase ==
    ASSUME IInv, SavedDisk, SavedList, NEW id \in Live, EraseOk(id) \/ EraseFail(id),
           conf' = conf
    PROVE  SavedDisk' /\ SavedList'
<1>1. SavedDisk'
  BY EraseShrinks, SavedShrunk
<1>2. ASSUME NEW j \in Live' PROVE Saved(conf'.fp, index'[j])
  <2>1. /\ j \in Live /\ index[j] \in Entry
        /\ \/ index'[j] = index[j] \/ index'[j] = [index[j] EXCEPT !.usable = FALSE]
    BY EraseShrinks DEF Live, IInv, TypeOK
  <2>2. /\ index'[j].tokens = index[j].tokens /\ index'[j].drafter = index[j].drafter
        /\ index'[j].main = index[j].main /\ index'[j].drft = index[j].drft
    BY <2>1 DEF Entry
  <2>3. QED
    BY <2>1, <2>2 DEF SavedList, Saved, OfIdentity, OneIdentity
<1>3. QED
  BY <1>1, <1>2 DEF SavedList, Saved, OfIdentity, OneIdentity

LEMMA SameDisk == ASSUME SavedDisk, disk' = disk PROVE SavedDisk'
BY DEF SavedDisk, Saved, OfIdentity, OneIdentity

LEMMA SameJob ==
    ASSUME SavedBefore, conf' = conf,
           \/ job' = NoJob \/ job' = job
           \/ job'.before.meta = NoFile /\ job'.drafter \in conf.drafters
           \/ job # NoJob /\ job'.before = job.before /\ job'.drafter = job.drafter
    PROVE  SavedBefore'
BY DEF SavedBefore, Saved, OfIdentity, OneIdentity

\* Outside a restore only the list, the sidecars and the mirror matter.
LEMMA NotRestored == ASSUME pc' # "restored" PROVE ServedIsSaved'
BY DEF ServedIsSaved

\* A step between two erases of a function of the cache.
LEMMA EraseServe ==
    ASSUME IInv, VInv, NEW id \in Live, EraseOk(id) \/ EraseFail(id), DropMirror(id),
           conf' = conf, pc' # "restored", job' = NoJob \/ job' = job
             \/ (job # NoJob /\ job'.before = job.before /\ job'.drafter = job.drafter)
    PROVE  VInv'
<1>1. SavedDisk' /\ SavedList'
  BY SavedErase DEF VInv
<1>2. SavedBefore'
  BY DEF VInv, SavedBefore, Saved, OfIdentity, OneIdentity
<1>3. DraftingMirror'
  BY DEF VInv, DraftingMirror, DropMirror
<1>4. QED
  BY <1>1, <1>2, <1>3, NotRestored DEF VInv

LEMMA TouchServe ==
    ASSUME IInv, VInv, NEW id \in Live, index' = [index EXCEPT ![id] = Touched(@)],
           RewriteMeta(id, Touched(index[id])), conf' = conf, pc' = "idle",
           job' = NoJob \/ job' = job, mirror' = mirror
    PROVE  VInv'
<1> DEFINE t == Touched(index[id])
<1>1. id \in Ids /\ index[id] \in Entry /\ disk[id] \in Directory /\ Live' = Live
  BY TouchedIndex DEF IInv, TypeOK, Live, OnDisk
<1>2. Saved(conf.fp, t) /\ MetaOf(t).fp = conf.fp /\ Saved(conf.fp, MetaOf(t))
  BY <1>1, SavedTouched, SavedMeta DEF VInv, SavedList
<1>3. /\ \A j \in Ids \ {id} : disk'[j] = disk[j] /\ index'[j] = index[j]
      /\ index'[id] = t
      /\ disk'[id] \in {disk[id], [disk[id] EXCEPT !.meta = MetaOf(t)]}
  BY <1>1 DEF RewriteMeta, IInv, TypeOK
<1> HIDE DEF t
<1>4. \A j \in Live' : Saved(conf'.fp, index'[j])
  BY <1>1, <1>2, <1>3 DEF VInv, SavedList
<1>5. SavedDisk'
  BY <1>1, <1>2, <1>3 DEF VInv, SavedDisk, Saved, OfIdentity, OneIdentity, Directory
<1>6. QED
  BY <1>4, <1>5, ListSaved, SameJob, NotRestored DEF VInv, DraftingMirror

\* Neither the list nor the mirror changes, and no new sidecar is written.
LEMMA QuietServe ==
    ASSUME VInv, SavedDisk', index' = index, conf' = conf, mirror' = mirror,
           pc' # "restored", SavedBefore'
    PROVE  VInv'
BY NotRestored DEF VInv, SavedList, Saved, OfIdentity, OneIdentity, Live, DraftingMirror

LEMMA IdleServe ==
    ASSUME IInv, VInv,
           \/ \E p \in Prompts, d \in Drafters : SaveBegin(p, d)
           \/ SaveSkip \/ SupersedeDone \/ ObsoleteDone \/ UpdateBegin \/ UpdateDone
           \/ ScanDone \/ BootEvictDone \/ BootDone
           \/ \E id \in Ids : ScanOrphan(id)
    PROVE  VInv'
<1>1. /\ UNCHANGED <<disk, conf, index, mirror>> /\ pc' # "restored"
      /\ \/ job' = NoJob \/ job' = job
         \/ job'.before = EmptyDir /\ job'.drafter \in conf.drafters
  BY DEF SaveBegin, SaveSkip, SupersedeDone, ObsoleteDone, UpdateBegin, UpdateDone,
         SweepDone, ScanDone, BootEvictDone, BootDone, ScanOrphan, Scanned, disposable
<1>2. SavedDisk' /\ SavedBefore'
  BY <1>1, SameDisk, SameJob DEF VInv, EmptyDir
<1>3. QED
  BY <1>1, <1>2, QuietServe

\* The mirror a save installs has a draft only where the server drafts.
LEMMA SaveDoneServe == ASSUME IInv, VInv, SaveDone PROVE VInv'
<1>1. /\ UNCHANGED <<disk, conf, index>> /\ pc' = "idle" /\ job' = NoJob
      /\ mirror' = mirror \/ mirror'.drft = DraftPayload(job.tokens, job.drafter)
  BY DEF SaveDone
<1>2. SavedDisk' /\ SavedBefore'
  BY <1>1, SameDisk, SameJob DEF VInv
<1>3. DraftingMirror'
  <2>1. conf \in Configs /\ conf.drafting \in {{}, conf.drafters}
    BY PersistLibraryAssumption DEF IInv, TypeOK
  <2>2. DraftPayload(job.tokens, job.drafter) # NoFile => conf.drafting # {}
    BY DEF DraftPayload
  <2>3. QED
    BY <1>1, <2>1, <2>2 DEF VInv, DraftingMirror
<1>4. QED
  BY <1>1, <1>2, <1>3, NotRestored DEF VInv, SavedList, Saved, OfIdentity, OneIdentity, Live

\* A failing step of a save that loses files of its directory.
LEMMA DropServe ==
    ASSUME IInv, VInv, pc \in Uncommitted, DropUncommitted \/ (RenameDraft /\ SaveFail)
    PROVE  VInv'
<1>1. job.id \in Ids /\ disk[job.id] # NoDir
  BY HeldType, Nothing
<1>2. Shrinks(job.id)
  BY <1>1, RemovalShrinks, RenameDraftShrinks
     DEF DropUncommitted, RenameDraft, SaveFail, SaveStep
<1>3. SavedDisk'
  BY <1>1, <1>2, SavedShrunk DEF VInv
<1>4. SavedBefore'
  BY SameJob DEF VInv, DropUncommitted, SaveFail
<1>5. QED
  BY <1>3, <1>4, QuietServe DEF DropUncommitted, SaveFail

\* A new directory is empty or has the sidecar it had.
LEMMA AllocServe == ASSUME IInv, VInv, SaveAlloc PROVE VInv'
<1> DEFINE dir == IF disk[nextId] = NoDir THEN EmptyDir ELSE disk[nextId]
<1>1. nextId \in Ids /\ job \in Job
  BY Bounds DEF SaveAlloc, IInv, TypeOK, InHand, SaveSteps, Ids
<1>2. CASE SaveFail /\ disk' = disk
  <2>1. SavedDisk' /\ SavedBefore'
    BY <1>2, SameDisk, SameJob DEF VInv, SaveFail
  <2>2. QED
    BY <1>2, <2>1, QuietServe DEF SaveFail
<1>3. CASE ~(SaveFail /\ disk' = disk)
  <2>1. /\ disk' = [disk EXCEPT ![nextId] = dir]
        /\ job' = [job EXCEPT !.id = nextId, !.before = dir]
        /\ SaveStep("write")
    BY <1>3 DEF SaveAlloc
  <2>2. dir.meta # NoFile => Saved(dir.meta.fp, dir.meta)
    BY <1>1 DEF VInv, SavedDisk, EmptyDir
  <2> HIDE DEF dir
  <2>3. SavedDisk'
    BY <1>1, <2>1, <2>2 DEF VInv, SavedDisk, Saved, OfIdentity, OneIdentity, IInv, TypeOK
  <2>4. SavedBefore'
    <3>1. job'.before = dir /\ job'.drafter = job.drafter /\ conf' = conf /\ job # NoJob
      BY <1>1, <2>1, Nothing DEF Job, SaveStep
    <3>2. QED
      BY <2>2, <3>1 DEF VInv, SavedBefore, Saved, OfIdentity, OneIdentity
  <2>5. QED
    BY <2>1, <2>3, <2>4, QuietServe DEF SaveStep
<1>4. QED
  BY <1>2, <1>3

\* Writing and renaming the payloads leave the sidecars alone.
LEMMA RenameServe ==
    ASSUME IInv, VInv, SaveWrite \/ RenameTarget \/ RenameDraft PROVE VInv'
<1>1. pc \in Uncommitted /\ UNCHANGED <<conf, index, mirror>> /\ pc' # "restored"
  BY DEF SaveWrite, RenameTarget, RenameDraft, SaveStep, SaveFail, Uncommitted
<1>2. job \in Job /\ job.id \in Ids /\ disk[job.id] \in Directory
  BY <1>1, HeldType
<1>3. CASE RenameDraft /\ SaveFail
  BY <1>1, <1>3, DropServe
<1>4. CASE ~(RenameDraft /\ SaveFail)
  <2>1. \/ disk' = disk
        \/ disk' = [disk EXCEPT ![job.id].target = TargetPayload(job.tokens)]
        \/ disk' = [disk EXCEPT ![job.id].draft = DraftPayload(job.tokens, job.drafter)]
    BY <1>4 DEF SaveWrite, RenameTarget, RenameDraft
  <2>2. \A j \in Ids \ {job.id} : disk'[j] = disk[j]
    BY <1>2, <2>1 DEF IInv, TypeOK
  <2>3. disk'[job.id].meta = disk[job.id].meta
    BY <1>2, <2>1 DEF IInv, TypeOK, Directory
  <2>4. SavedDisk'
    BY <1>2, <2>2, <2>3, Nothing DEF VInv, SavedDisk, Saved, OfIdentity, OneIdentity
  <2>5. \/ job' = NoJob \/ job' = job
        \/ job'.before = job.before /\ job'.drafter = job.drafter
    BY <1>2 DEF SaveWrite, RenameTarget, RenameDraft, SaveFail, Job
  <2>6. SavedBefore'
    BY <1>1, <1>2, <2>5, Nothing, SameJob DEF VInv
  <2>7. QED
    BY <1>1, <2>4, <2>6, QuietServe
<1>5. QED
  BY <1>3, <1>4

LEMMA CommitServe == ASSUME IInv, VInv, CommitMeta PROVE VInv'
<1>1. pc \in Uncommitted /\ job.id \in Ids /\ disk[job.id] \in Directory
  BY HeldType DEF CommitMeta, Uncommitted
<1>2. CASE DropUncommitted
  BY <1>1, <1>2, DropServe
<1>3. CASE ~DropUncommitted
  <2>1. /\ disk' = [disk EXCEPT ![job.id].meta = MetaOf(NewEntry)]
        /\ SaveStep("sync") /\ job' = job
    BY <1>3 DEF CommitMeta
  <2>2. /\ \A j \in Ids \ {job.id} : disk'[j] = disk[j]
        /\ disk'[job.id].meta = MetaOf(NewEntry)
    BY <1>1, <2>1 DEF IInv, TypeOK, Directory
  <2>3. MetaOf(NewEntry).fp = conf.fp /\ Saved(conf.fp, MetaOf(NewEntry))
    BY <1>1, HeldType, Nothing, SavedNew, SavedMeta DEF VInv
  <2>4. SavedDisk'
    BY <2>1, <2>2, <2>3 DEF VInv, SavedDisk, Saved, OfIdentity, OneIdentity
  <2>5. SavedBefore'
    BY <2>1, SameJob DEF VInv, SaveStep
  <2>6. QED
    BY <2>1, <2>4, <2>5, QuietServe DEF SaveStep
<1>4. QED
  BY <1>2, <1>3

LEMMA SyncServe == ASSUME IInv, VInv, SyncDir PROVE VInv'
<1>1. pc \in Uncommitted /\ job.id \in Ids
  BY HeldType DEF SyncDir, Uncommitted
<1>2. CASE DropUncommitted
  BY <1>1, <1>2, DropServe
<1>3. CASE ~DropUncommitted
  <2>1. /\ index' = [index EXCEPT ![job.id] = NewEntry] /\ pc' # "restored"
        /\ UNCHANGED <<disk, conf, job, mirror>>
    BY <1>3 DEF SyncDir
  <2>2. index'[job.id] = NewEntry /\ \A j \in Ids \ {job.id} : index'[j] = index[j]
    BY <1>1, <2>1 DEF IInv, TypeOK
  <2>3. \A j \in Live' : Saved(conf'.fp, index'[j])
    <3>1. Saved(conf.fp, NewEntry)
      BY <1>1, HeldType, Nothing, SavedNew DEF VInv
    <3>2. QED
      BY <2>1, <2>2, <3>1 DEF VInv, SavedList, Live
  <2>4. SavedDisk' /\ SavedBefore'
    BY <2>1, SameDisk, SameJob DEF VInv
  <2>5. QED
    BY <2>1, <2>3, <2>4, ListSaved, NotRestored DEF VInv, DraftingMirror
<1>4. QED
  BY <1>2, <1>3

\* A server that starts or dies lists nothing and has no mirror.
LEMMA FreshServe ==
    ASSUME VInv, SavedDisk', NEW c, Fresh(c), pc' # "restored" PROVE VInv'
BY NotRestored DEF VInv, SavedList, SavedBefore, DraftingMirror, Fresh, Live

LEMMA BootServe ==
    ASSUME VInv, \E c \in Configs : Boot(c) \/ BootInert(c) PROVE VInv'
<1>1. PICK c : Fresh(c) /\ pc' # "restored" /\ disk' = disk
  BY DEF Boot, BootInert
<1>2. SavedDisk'
  BY <1>1, SameDisk DEF VInv
<1>3. QED
  BY <1>1, <1>2, FreshServe

\* A power loss may bring back the sidecar an overwritten directory had.
LEMMA CrashServe == ASSUME IInv, VInv, Crash PROVE VInv'
<1>1. Fresh(conf) /\ pc' # "restored"
  BY DEF Crash
<1>2. SavedDisk'
  <2>1. CASE disk' = disk
    BY <2>1, SameDisk DEF VInv
  <2>2. CASE disk' # disk
    <3>1. pc \in Uncommitted
      BY <2>2 DEF Crash, Uncommitted
    <3>2. job \in Job /\ job.id \in Ids /\ disk[job.id] \in Directory
      BY <3>1, HeldType
    <3>3. PICK t \in {disk[job.id].target, job.before.target},
               r \in {disk[job.id].draft, job.before.draft},
               m \in {disk[job.id].meta, job.before.meta} :
             disk' = [disk EXCEPT ![job.id] = [target |-> t, draft |-> r, meta |-> m]]
      BY <2>2 DEF Crash
    <3>4. m # NoFile => Saved(m.fp, m)
      BY <3>2, <3>3, Nothing DEF VInv, SavedDisk, SavedBefore
    <3>5. /\ \A j \in Ids \ {job.id} : disk'[j] = disk[j]
          /\ disk'[job.id].meta = m
      BY <3>2, <3>3 DEF IInv, TypeOK
    <3>6. \A j \in Ids : disk'[j] # NoDir /\ disk'[j].meta # NoFile => Saved(disk'[j].meta.fp, disk'[j].meta)
      BY <3>4, <3>5 DEF VInv, SavedDisk
    <3>7. QED
      BY <3>6 DEF SavedDisk, Saved, OfIdentity, OneIdentity
  <2>3. QED
    BY <2>1, <2>2
<1>3. QED
  BY <1>1, <1>2, FreshServe

\* What the boot adopts is what a save committed.
LEMMA ScanServe ==
    ASSUME IInv, VInv, NEW id \in Ids, ScanAdopt(id) \/ ScanDiscard(id) PROVE VInv'
<1>1. id \in unscanned /\ disk[id] # NoDir
  BY DEF ScanAdopt, ScanDiscard, Scanned, IInv, OnDisk
<1>2. CASE ScanDiscard(id)
  <2>1. SavedDisk'
    BY <1>1, <1>2, RemovalShrinks, SavedShrunk DEF ScanDiscard, VInv
  <2>2. SavedBefore' /\ pc' # "restored"
    BY <1>2, SameJob DEF VInv, ScanDiscard, Scanned
  <2>3. QED
    BY <1>2, <2>1, <2>2, QuietServe DEF ScanDiscard
<1>3. CASE ScanAdopt(id)
  <2> DEFINE m == disk[id].meta
             e == [tokens |-> m.tokens, drafter |-> m.drafter, spec |-> m.spec,
                   main |-> m.main, drft |-> m.drft, usable |-> TRUE,
                   hits |-> m.hits, lastUsed |-> m.lastUsed]
  <2>1. /\ index' = [index EXCEPT ![id] = e] /\ pc' # "restored"
        /\ UNCHANGED <<disk, conf, job, mirror>>
    BY <1>3 DEF ScanAdopt, Scanned
  <2>2. Saved(conf.fp, m)
    BY <1>1, <1>3 DEF VInv, SavedDisk, ScanAdopt, Complete, NotOurs
  <2>3. Saved(conf.fp, e)
    BY <2>2 DEF Saved, OfIdentity, OneIdentity
  <2> HIDE DEF e
  <2>4. index'[id] = e /\ \A j \in Ids \ {id} : index'[j] = index[j]
    BY <2>1 DEF IInv, TypeOK
  <2>5. \A j \in Live' : Saved(conf'.fp, index'[j])
    BY <2>1, <2>3, <2>4 DEF VInv, SavedList, Live
  <2>6. SavedDisk' /\ SavedBefore'
    BY <2>1, SameDisk, SameJob DEF VInv
  <2>7. QED
    BY <2>1, <2>5, <2>6, ListSaved, NotRestored DEF VInv, DraftingMirror
<1>4. QED
  BY <1>2, <1>3

LEMMA BootRemovalServe ==
    ASSUME IInv, VInv, \/ \E id \in Ids : BootEvict(id)
                       \/ \E o \in orphans : BootGc(o)
    PROVE  VInv'
<1>1. ASSUME NEW id \in Ids, BootEvict(id) PROVE VInv'
  <2>1. /\ id \in Live /\ disk[id] # NoDir /\ pc' # "restored"
        /\ UNCHANGED <<conf, job, mirror>>
    BY <1>1 DEF BootEvict, IsVictim, IInv, OnDisk
  <2>2. SavedBefore'
    BY <2>1, SameJob DEF VInv
  <2>3. CASE EraseOk(id)
    BY <2>1, <2>2, <2>3, SavedErase, NotRestored DEF VInv, DraftingMirror
  <2>4. CASE ~EraseOk(id)
    <3>1. SavedDisk' /\ index' = index
      BY <1>1, <2>1, <2>4, RemovalShrinks, SavedShrunk DEF BootEvict, VInv
    <3>2. QED
      BY <2>1, <2>2, <3>1, QuietServe
  <2>5. QED
    BY <2>3, <2>4
<1>2. ASSUME NEW o \in orphans, BootGc(o) PROVE VInv'
  <2>1. /\ o.id \in Ids /\ disk[o.id] # NoDir /\ pc' # "restored"
        /\ UNCHANGED <<conf, index, job, mirror>>
    BY <1>2 DEF BootGc, IInv, OnDisk, TypeOK
  <2>2. SavedDisk' /\ SavedBefore'
    BY <1>2, <2>1, RemovalShrinks, SavedShrunk, SameJob DEF BootGc, VInv
  <2>3. QED
    BY <2>1, <2>2, QuietServe
<1>3. QED
  BY <1>1, <1>2

\* Time and damage leave a restore in hand as it was verified.
LEMMA StandServe ==
    ASSUME IInv, VInv,
           \/ Tick \/ UNCHANGED vars
           \/ \E id \in Ids, part \in {"target", "draft", "meta"} : Damage(id, part)
    PROVE  VInv'
<1>1. pc' = pc /\ UNCHANGED <<index, conf, job, mirror, restore>>
  BY DEF Tick, Damage, vars, disposable
<1>2. SavedDisk'
  BY SameDisk, DamageShrinks, SavedShrunk DEF VInv, Tick, vars
<1>3. SavedBefore'
  BY <1>1, SameJob DEF VInv
<1>4. ServedIsSaved'
  BY <1>1 DEF VInv, ServedIsSaved, Usable, Live
<1>5. QED
  BY <1>1, <1>2, <1>3, <1>4 DEF VInv, SavedList, Saved, OfIdentity, OneIdentity, Live, DraftingMirror

\* A load serves verified files or the mirror of the same entry, and the
\* draft together with the target where a draft context is active.
LEMMA LoadServe ==
    ASSUME IInv, MInv, VInv, NEW id \in Ids, NEW d \in Drafters, LoadOk(id, d)
    PROVE  VInv'
<1> DEFINE e == index[id]
           main == IF MirrorHit(id, d) THEN mirror.main ELSE disk[id].target
           drft == IF MirrorHit(id, d) THEN mirror.drft ELSE disk[id].draft
<1>1. /\ id \in Usable /\ id \in Live /\ d \in conf.drafters /\ Servable(id, d)
      /\ restore' = [id |-> id, main |-> main, active |-> d,
                     drft |-> IF DraftWanted(e, d) THEN drft ELSE NoFile]
      /\ UNCHANGED <<disk, conf, index, job, mirror>>
  BY DEF LoadOk, Candidate, Usable
<1>2. Saved(conf.fp, e)
  BY <1>1 DEF VInv, SavedList
<1>3. main = e.main
  BY <1>1 DEF Servable, MirrorHit, FilesVerify, Verified, CrcMatches, MInv, MirrorCoherent
<1>4. DraftWanted(e, d) => drft = e.drft /\ d \in conf.drafting
  <2>1. SUFFICES ASSUME DraftWanted(e, d) PROVE drft = e.drft /\ d \in conf.drafting
    OBVIOUS
  <2>2. CASE MirrorHit(id, d)
    <3>1. mirror # NoMirror /\ mirror.drft = e.drft /\ e.drft # NoFile
      BY <2>1, <2>2 DEF MirrorHit, MInv, MirrorCoherent, DraftWanted
    <3>2. d \in conf.drafting
      BY <1>1, <3>1 DEF VInv, DraftingMirror
    <3>3. QED
      BY <2>2, <3>1, <3>2
  <2>3. CASE ~MirrorHit(id, d)
    BY <1>1, <2>1, <2>3 DEF Servable, FilesVerify, Verified, CrcMatches
  <2>4. QED
    BY <2>2, <2>3
<1>5. ~DraftWanted(e, d) => d \notin conf.drafting
  BY <1>1 DEF Servable, DraftGate
<1>6. DraftWanted(e, d) =>
        /\ e.drft # NoFile /\ TagCompatible(e.drafter, d)
        /\ e.drft.tokens = e.tokens /\ e.drft.drafter = e.drafter /\ e.drft.intact
  BY <1>2 DEF DraftWanted, Saved, OfIdentity, OneIdentity
<1> HIDE DEF main, drft
<1>7. /\ restore'.id = id /\ restore'.main = e.main /\ restore'.active = d
      /\ restore'.drft = IF DraftWanted(e, d) THEN e.drft ELSE NoFile
  BY <1>1, <1>3, <1>4
<1>8. ServedIsSaved'
  <2>1. restore'.id \in Usable' /\ index'[restore'.id] = e /\ conf' = conf
    BY <1>1, <1>7 DEF Usable, Live
  <2>2. restore'.main = TargetPayload(e.tokens)
    BY <1>2, <1>7 DEF Saved, OfIdentity, OneIdentity
  <2>3. (restore'.active \in conf.drafting) = (restore'.drft # NoFile)
    BY <1>4, <1>5, <1>6, <1>7
  <2>4. restore'.drft # NoFile =>
           /\ restore'.drft.tokens = e.tokens /\ restore'.drft.intact
           /\ TagCompatible(restore'.drft.drafter, restore'.active)
    BY <1>6, <1>7
  <2> HIDE DEF e
  <2>5. QED
    BY <2>1, <2>2, <2>3, <2>4 DEF ServedIsSaved, TagCompatible, TargetPayload
<1>9. SavedDisk' /\ SavedBefore'
  BY <1>1, SameDisk, SameJob DEF VInv
<1>10. QED
  BY <1>1, <1>8, <1>9 DEF VInv, SavedList, Saved, OfIdentity, OneIdentity, Live, DraftingMirror

\* Every erase outside the boot.
LEMMA AnyEraseServe ==
    ASSUME IInv, VInv, NEW id \in Ids,
           \/ TouchReject(id) \/ Supersede(id) \/ Obsolete(id) \/ Reclaim(id)
           \/ UpdateEvict(id) \/ \E d \in Drafters : LoadReject(id, d)
           \/ RejectLoad /\ id = restore.id
    PROVE  VInv'
<1>1. /\ id \in Live /\ DropMirror(id) /\ conf' = conf /\ pc' # "restored"
      /\ EraseOk(id) \/ EraseFail(id)
  BY DEF TouchReject, CanTouch, Usable, Supersede, Obsolete, IsObsolete, Reclaim,
         IsVictim, Sweep, UpdateEvict, LoadReject, Candidate, RejectLoad, IInv, InHand
<1>2. job' = job \/ (pc \in Sweeping /\ job' = [job EXCEPT !.reclaim = FALSE])
  BY DEF TouchReject, Supersede, Obsolete, Reclaim, Sweep, UpdateEvict, LoadReject,
         RejectLoad, Sweeping
<1>3. pc \in Sweeping => job \in Job /\ job # NoJob
  BY DEF IInv, TypeOK, InHand, SaveSteps, Sweeping
<1>4. \/ job' = job
      \/ job # NoJob /\ job'.before = job.before /\ job'.drafter = job.drafter
  BY <1>2, <1>3 DEF Job
<1>5. QED
  BY <1>1, <1>4, EraseServe

LEMMA AnyTouchServe ==
    ASSUME IInv, VInv, AcceptLoad \/ \E id \in Ids : TouchHit(id) PROVE VInv'
<1>1. PICK id \in Live :
        /\ index' = [index EXCEPT ![id] = Touched(@)]
        /\ RewriteMeta(id, Touched(index[id]))
        /\ pc' = "idle" /\ UNCHANGED <<conf, mirror>> /\ (job' = NoJob \/ job' = job)
  BY DEF AcceptLoad, TouchHit, CanTouch, Usable, IInv, InHand
<1>2. QED
  BY <1>1, TouchServe

LEMMA NextServe == ASSUME IInv, MInv, VInv, [Next]_vars PROVE VInv'
<1>1. CASE BootStep
  BY <1>1, ScanServe, IdleServe, BootRemovalServe DEF BootStep
<1>2. CASE SaveProgress
  BY <1>2, AnyEraseServe, AnyTouchServe, IdleServe, AllocServe, RenameServe,
     CommitServe, SyncServe, SaveDoneServe DEF SaveProgress
<1>3. CASE UpdateStep \/ AcceptLoad
  BY <1>3, AnyEraseServe, AnyTouchServe, IdleServe DEF UpdateStep
<1>4. CASE RejectLoad
  <2>1. restore.id \in Ids
    BY <1>4 DEF RejectLoad, IInv, InHand, Live
  <2>2. QED
    BY <1>4, <2>1, AnyEraseServe
<1>5. CASE Arrival
  BY <1>5, BootServe, IdleServe, LoadServe, AnyEraseServe, CrashServe, StandServe
     DEF Arrival
<1>6. CASE UNCHANGED vars
  BY <1>6, StandServe
<1>7. QED
  BY <1>1, <1>2, <1>3, <1>4, <1>5, <1>6 DEF Next, InProgress

LEMMA InitServe == ASSUME Init PROVE VInv
BY DEF Init, VInv, SavedList, SavedDisk, SavedBefore, DraftingMirror, ServedIsSaved, Live

LEMMA MirrorInvariant == Spec => []MInv
<1>1. Init => MInv
  BY InitMirror
<1>2. IInv /\ MInv /\ [Next]_vars => MInv'
  BY NextMirror
<1>3. QED
  BY <1>1, <1>2, Inductive, PTL DEF Spec

LEMMA ServedInvariant == Spec => []VInv
<1>1. Init => VInv
  BY InitServe
<1>2. IInv /\ MInv /\ VInv /\ [Next]_vars => VInv'
  BY NextServe
<1>3. QED
  BY <1>1, <1>2, Inductive, MirrorInvariant, PTL DEF Spec

\* The contexts receive exactly the bytes that were saved for the entry's
\* tokens, from the files or from the park mirror, and the active draft
\* context is restored together with the target or the load fails, whatever
\* crashed, rotted or failed before (verify-then-load of load_disk).
THEOREM ServesWhatWasSaved == Spec => []ServedIsSaved
<1>1. VInv => ServedIsSaved
  BY DEF VInv
<1>2. QED
  BY <1>1, ServedInvariant, PTL

-----------------------------------------------------------------------------
(* What a load leaves alone.                                               *)

LEMMA OwnListed == ASSUME OneIdentity, IInv, VInv PROVE AdoptsOwn
BY DEF AdoptsOwn, VInv, SavedList, Saved, OfIdentity, IInv, TypeOK

\* A server lists only entries of its own kind, saved for a drafter it routes
\* to and with a draft exactly where it has a draft context, as long as no two
\* configurations that differ in their drafters share a fingerprint
\* (the identity check of boot_persist).
THEOREM ListsItsOwn == ASSUME OneIdentity PROVE Spec => []AdoptsOwn
<1>1. IInv /\ VInv => AdoptsOwn
  BY OwnListed
<1>2. QED
  BY <1>1, Inductive, ServedInvariant, PTL

\* Between two idle states only a rejected load takes an entry.
LEMMA IdleLoss ==
    ASSUME IInv, [Next]_vars, pc = "idle", pc' = "idle", NEW id \in Usable, id \notin Usable'
    PROVE  \E d \in conf.drafters : Candidate(id, d) /\ ~Servable(id, d)
<1>1. index' # index
  BY DEF Usable, Live
<1>2. PICK j \in Ids, d \in Drafters : LoadReject(j, d)
  <2>1. ~InProgress
    BY DEF InProgress, BootStep, SaveProgress, UpdateStep, ScanDiscard, ScanOrphan, ScanAdopt,
           Scanned, ScanDone, BootEvict, BootEvictDone, BootGc, BootDone, TouchReject, TouchHit,
           SaveSkip, SaveAlloc, SaveWrite, RenameTarget, RenameDraft, CommitMeta, SyncDir,
           Supersede, SupersedeDone, Obsolete, ObsoleteDone, Reclaim, SaveDone, UpdateEvict,
           UpdateDone, AcceptLoad, RejectLoad
  <2>2. ~Crash /\ ~Tick /\ ~UpdateBegin /\ UNCHANGED vars => FALSE
    BY <1>1 DEF vars, disposable
  <2>3. ~Crash /\ ~Tick /\ ~UpdateBegin
    BY <1>1 DEF Crash, Tick, UpdateBegin, SweepDone, disposable
  <2>4. \A c \in Configs : ~Boot(c) /\ ~BootInert(c)
    BY DEF Boot, BootInert
  <2>5. \A p \in Prompts, d \in Drafters : ~SaveBegin(p, d)
    BY <1>1 DEF SaveBegin
  <2>6. \A j \in Ids, d \in Drafters : ~LoadOk(j, d)
    BY <1>1 DEF LoadOk
  <2>7. \A j \in Ids, part \in {"target", "draft", "meta"} : ~Damage(j, part)
    BY <1>1 DEF Damage, disposable
  <2>8. QED
    BY <2>1, <2>2, <2>3, <2>4, <2>5, <2>6, <2>7 DEF Next, Arrival
<1>3. \A k \in Ids \ {j} : index'[k] = index[k]
  BY <1>2 DEF LoadReject, EraseOk, EraseFail, IInv, TypeOK
<1>4. j = id
  BY <1>3 DEF Usable, Live
<1>5. QED
  BY <1>2, <1>4 DEF LoadReject, Candidate

\* An entry whose files are the ones saved passes every check of a load, if
\* its tag excludes no drafter of the server.
LEMMA IntactServable ==
    ASSUME IInv, NEW id \in Usable, Intact(id), NEW d \in conf.drafters,
           index[id].drafter \in conf.drafters,
           (index[id].drafter \in conf.drafting) = (index[id].drft # NoFile),
           TagCompatible(index[id].drafter, d)
    PROVE  Servable(id, d)
<1> DEFINE e == index[id]
<1>1. /\ id \in Live /\ e \in Entry /\ e.main # NoFile
      /\ e.drafter \in conf.drafters /\ (e.drafter \in conf.drafting) = (e.drft # NoFile)
  BY Nothing DEF Usable, Live, IInv, TypeOK, Entry
<1>2. conf.drafting \in {{}, conf.drafters}
  BY PersistLibraryAssumption DEF IInv, TypeOK
<1>3. (d \in conf.drafting) = (e.drft # NoFile)
  BY <1>1, <1>2
<1>4. DraftGate(e, d)
  BY <1>3 DEF DraftGate, DraftWanted
<1>5. FilesVerify(id, d)
  BY <1>1, <1>3 DEF FilesVerify, Verified, SizeExact, CrcMatches, Intact, DraftWanted
<1>6. QED
  BY <1>4, <1>5 DEF Servable

\* load_disk erases no entry whose files are exactly the ones saved, unless a
\* request may be routed to a drafter its tag excludes, whatever configuration
\* saved it: the checks before a restore reject damage only.
THEOREM LoadSparesTheIntact == ASSUME OneIdentity PROVE Spec => IntactSurvivesLoad
<1>1. ASSUME IInv, VInv, [Next]_vars, NEW id \in Usable,
             pc = "idle" /\ pc' = "idle" /\ id \notin Usable'
      PROVE  \/ ~Intact(id)
             \/ \E d \in conf.drafters : ~TagCompatible(index[id].drafter, d)
  <2>1. PICK d \in conf.drafters : ~Servable(id, d)
    BY <1>1, IdleLoss
  <2>2. id \in Live
    BY <1>1 DEF Usable
  <2>3. QED
    BY <1>1, <2>1, <2>2, OwnListed, IntactServable DEF AdoptsOwn
<1>2. IInv /\ VInv /\ [Next]_vars =>
        [\A id \in Usable : pc = "idle" /\ pc' = "idle" /\ id \notin Usable'
            => \/ ~Intact(id)
               \/ \E d \in conf.drafters : ~TagCompatible(index[id].drafter, d)]_vars
  BY <1>1
<1>3. QED
  BY <1>2, Inductive, ServedInvariant, PTL DEF Spec, IntactSurvivesLoad

-----------------------------------------------------------------------------
(* Sums over the ids, by induction.                                        *)

\* f holds the partial sums of X.
SumsTo(f, X) == f = [n \in 0..MaxId |-> IF n = 0 THEN 0 ELSE f[n - 1] + X[n]]

\* The partial sums of integers are integers.
LEMMA SumType ==
    ASSUME NEW X \in [Ids -> Int], NEW f, SumsTo(f, X)
    PROVE  \A n \in 0..MaxId : f[n] \in Int
<1> DEFINE S == {n \in Nat : n \in 0..MaxId => f[n] \in Int}
<1>1. 0 \in S
  BY Bounds DEF SumsTo
<1>2. ASSUME NEW n \in S PROVE n + 1 \in S
  <2>1. SUFFICES ASSUME n + 1 \in 0..MaxId PROVE f[n + 1] \in Int
    OBVIOUS
  <2>2. n \in 0..MaxId /\ f[n] \in Int /\ n + 1 \in Ids /\ n + 1 # 0 /\ (n + 1) - 1 = n
    BY <2>1, Bounds DEF Ids
  <2>3. f[n + 1] = f[n] + X[n + 1]
    BY <2>1, <2>2 DEF SumsTo
  <2>4. QED
    BY <2>2, <2>3
<1>3. S = Nat
  <2> HIDE DEF S
  <2>1. S \in SUBSET Nat
    BY DEF S
  <2>2. QED
    BY <1>1, <1>2, <2>1, NatInductionSet
<1>4. QED
  BY <1>3

\* Every function has its partial sums.
LEMMA SumExists ==
    ASSUME NEW X \in [Ids -> Int] PROVE \E f : SumsTo(f, X)
<1> DEFINE Partial(n, f) ==
               f = [i \in 0..n |-> IF i = 0 THEN 0 ELSE f[i - 1] + X[i]]
           S == {n \in Nat : n <= MaxId => \E f : Partial(n, f)}
<1>1. 0 \in S
  <2>1. Partial(0, [i \in 0..0 |-> 0])
    OBVIOUS
  <2>2. QED
    BY <2>1
<1>2. ASSUME NEW n \in S PROVE n + 1 \in S
  <2>1. SUFFICES ASSUME n + 1 <= MaxId PROVE \E f : Partial(n + 1, f)
    OBVIOUS
  <2>2. n \in Nat
    OBVIOUS
  <2>3. PICK f : Partial(n, f)
    BY <2>1, <2>2, Bounds
  <2> DEFINE g == [i \in 0..(n + 1) |-> IF i = n + 1 THEN f[n] + X[n + 1] ELSE f[i]]
  <2>4. ASSUME NEW i \in 0..(n + 1)
        PROVE  g[i] = IF i = 0 THEN 0 ELSE g[i - 1] + X[i]
    <3>1. CASE i = n + 1
      <4>1. i # 0 /\ i - 1 \in 0..(n + 1) /\ i - 1 # n + 1 /\ i - 1 = n
        BY <2>2, <3>1
      <4>2. g[i - 1] = f[n] /\ g[i] = f[n] + X[n + 1]
        BY <3>1, <4>1
      <4>3. QED
        BY <3>1, <4>1, <4>2
    <3>2. CASE i # n + 1
      <4>1. i \in 0..n
        BY <2>2, <3>2
      <4>2. g[i] = f[i] /\ f[i] = IF i = 0 THEN 0 ELSE f[i - 1] + X[i]
        BY <2>3, <3>2, <4>1
      <4>3. i # 0 => g[i - 1] = f[i - 1]
        BY <2>2, <4>1
      <4>4. QED
        BY <4>2, <4>3
    <3>3. QED
      BY <3>1, <3>2
  <2>5. g = [i \in 0..(n + 1) |-> g[i]]
    OBVIOUS
  <2> HIDE DEF g
  <2>6. Partial(n + 1, g)
    BY <2>4, <2>5
  <2>7. QED
    BY <2>6
<1>3. S = Nat
  <2> HIDE DEF S
  <2>1. S \in SUBSET Nat
    BY DEF S
  <2>2. QED
    BY <1>1, <1>2, <2>1, NatInductionSet
<1>4. \E f : Partial(MaxId, f)
  BY <1>3, Bounds
<1>5. QED
  BY <1>4 DEF SumsTo

\* Two functions that differ at one place have sums that differ by as much.
LEMMA SumChange ==
    ASSUME NEW X \in [Ids -> Int], NEW Y \in [Ids -> Int], NEW f, NEW g,
           SumsTo(f, X), SumsTo(g, Y), NEW id \in Ids,
           \A j \in Ids \ {id} : Y[j] = X[j]
    PROVE  g[MaxId] = f[MaxId] + Y[id] - X[id]
<1> DEFINE d == Y[id] - X[id]
           Ok(n) == g[n] = f[n] + (IF n < id THEN 0 ELSE d)
           S == {n \in Nat : n \in 0..MaxId => Ok(n)}
<1>1. /\ \A n \in 0..MaxId : f[n] \in Int /\ g[n] \in Int
      /\ d \in Int /\ X[id] \in Int /\ Y[id] \in Int /\ id \in Int /\ 1 <= id /\ id <= MaxId
  BY SumType, Bounds DEF Ids
<1>2. 0 \in S
  <2>1. f[0] = 0 /\ g[0] = 0 /\ 0 < id
    BY <1>1, Bounds DEF SumsTo
  <2>2. QED
    BY <2>1
<1>3. ASSUME NEW n \in S PROVE n + 1 \in S
  <2>1. SUFFICES ASSUME n + 1 \in 0..MaxId PROVE Ok(n + 1)
    OBVIOUS
  <2>2. n \in 0..MaxId /\ Ok(n) /\ n + 1 \in Ids /\ n + 1 # 0 /\ (n + 1) - 1 = n
    BY <2>1, Bounds DEF Ids
  <2>3. f[n + 1] = f[n] + X[n + 1] /\ g[n + 1] = g[n] + Y[n + 1]
    BY <2>1, <2>2 DEF SumsTo
  <2>4. X[n + 1] \in Int /\ Y[n + 1] \in Int /\ f[n] \in Int /\ g[n] \in Int
    BY <1>1, <2>2
  <2>5. CASE n + 1 = id
    <3>1. g[n] = f[n]
      BY <1>1, <2>2, <2>5
    <3>2. QED
      BY <1>1, <2>3, <2>4, <2>5, <3>1
  <2>6. CASE n + 1 # id
    <3>1. Y[n + 1] = X[n + 1] /\ (n < id) = (n + 1 < id)
      BY <1>1, <2>2, <2>6
    <3>2. QED
      BY <1>1, <2>2, <2>3, <2>4, <3>1
  <2>7. QED
    BY <2>5, <2>6
<1>4. S = Nat
  <2> HIDE DEF S
  <2>1. S \in SUBSET Nat
    BY DEF S
  <2>2. QED
    BY <1>2, <1>3, <2>1, NatInductionSet
<1>5. Ok(MaxId)
  BY <1>4, Bounds
<1>6. g[MaxId] = f[MaxId] + d
  <2>1. MaxId \in 0..MaxId /\ ~(MaxId < id)
    BY <1>1, Bounds
  <2>2. QED
    BY <1>5, <2>1
<1>7. f[MaxId] \in Int
  BY <1>1, Bounds
<1>8. QED
  BY <1>1, <1>6, <1>7

\* Sums keep the order of their functions.
LEMMA SumLess ==
    ASSUME NEW X \in [Ids -> Int], NEW Y \in [Ids -> Int], NEW Z \in [Ids -> Int],
           NEW f, NEW g, NEW h, SumsTo(f, X), SumsTo(g, Y), SumsTo(h, Z),
           \A id \in Ids : X[id] <= Y[id] + Z[id]
    PROVE  f[MaxId] <= g[MaxId] + h[MaxId]
<1> DEFINE Ok(n) == f[n] <= g[n] + h[n]
           S == {n \in Nat : n \in 0..MaxId => Ok(n)}
<1>1. \A n \in 0..MaxId : f[n] \in Int /\ g[n] \in Int /\ h[n] \in Int
  BY SumType
<1>2. 0 \in S
  <2>1. f[0] = 0 /\ g[0] = 0 /\ h[0] = 0
    BY Bounds DEF SumsTo
  <2>2. QED
    BY <2>1
<1>3. ASSUME NEW n \in S PROVE n + 1 \in S
  <2>1. SUFFICES ASSUME n + 1 \in 0..MaxId PROVE Ok(n + 1)
    OBVIOUS
  <2>2. n \in 0..MaxId /\ Ok(n) /\ n + 1 \in Ids /\ n + 1 # 0 /\ (n + 1) - 1 = n
    BY <2>1, Bounds DEF Ids
  <2>3. /\ f[n + 1] = f[n] + X[n + 1] /\ g[n + 1] = g[n] + Y[n + 1]
        /\ h[n + 1] = h[n] + Z[n + 1]
    BY <2>1, <2>2 DEF SumsTo
  <2>4. /\ X[n + 1] \in Int /\ Y[n + 1] \in Int /\ Z[n + 1] \in Int
        /\ f[n] \in Int /\ g[n] \in Int /\ h[n] \in Int
        /\ X[n + 1] <= Y[n + 1] + Z[n + 1]
    BY <1>1, <2>2
  <2>5. QED
    BY <2>2, <2>3, <2>4
<1>4. S = Nat
  <2> HIDE DEF S
  <2>1. S \in SUBSET Nat
    BY DEF S
  <2>2. QED
    BY <1>2, <1>3, <2>1, NatInductionSet
<1>5. MaxId \in 0..MaxId
  BY Bounds
<1>6. QED
  BY <1>4, <1>5, Bounds

\* The sum of X over the ids.
SumOf(X) ==
    LET upTo[n \in 0..MaxId] == IF n = 0 THEN 0 ELSE upTo[n - 1] + X[n]
    IN upTo[MaxId]

LEMMA SumOfExists ==
    ASSUME NEW X \in [Ids -> Int]
    PROVE  \E f : SumsTo(f, X) /\ SumOf(X) = f[MaxId] /\ f[MaxId] \in Int
<1> DEFINE f == CHOOSE f : f = [n \in 0..MaxId |-> IF n = 0 THEN 0 ELSE f[n - 1] + X[n]]
<1>1. \E g : SumsTo(g, X)
  BY SumExists
<1>2. SumsTo(f, X)
  BY <1>1 DEF SumsTo
<1>3. SumOf(X) = f[MaxId]
  BY DEF SumOf
<1>4. f[MaxId] \in Int
  <2> HIDE DEF f
  <2>1. QED
    BY <1>2, SumType, Bounds
<1>5. QED
  BY <1>2, <1>3, <1>4

LEMMA SumOfLess ==
    ASSUME NEW X \in [Ids -> Int], NEW Y \in [Ids -> Int], NEW Z \in [Ids -> Int],
           \A id \in Ids : X[id] <= Y[id] + Z[id]
    PROVE  SumOf(X) <= SumOf(Y) + SumOf(Z)
<1>1. PICK f : SumsTo(f, X) /\ SumOf(X) = f[MaxId]
  BY SumOfExists
<1>2. PICK g : SumsTo(g, Y) /\ SumOf(Y) = g[MaxId]
  BY SumOfExists
<1>3. PICK h : SumsTo(h, Z) /\ SumOf(Z) = h[MaxId]
  BY SumOfExists
<1>4. QED
  BY <1>1, <1>2, <1>3, SumLess

LEMMA SumOfZero == SumOf([id \in Ids |-> 0]) = 0
<1> DEFINE X == [id \in Ids |-> 0]
           z == [n \in 0..MaxId |-> 0]
<1>1. X \in [Ids -> Int] /\ SumsTo(z, X) /\ z[MaxId] = 0 /\ \A id \in Ids : X[id] = 0
  BY Bounds DEF SumsTo, Ids
<1> HIDE DEF X, z
<1>2. PICK f : SumsTo(f, X) /\ SumOf(X) = f[MaxId] /\ f[MaxId] \in Int
  BY <1>1, SumOfExists
<1>3. \A id \in Ids : X[id] <= X[id] + X[id]
  BY <1>1
<1>4. f[MaxId] <= z[MaxId] + z[MaxId] /\ z[MaxId] <= f[MaxId] + z[MaxId]
  BY <1>1, <1>2, <1>3, SumLess
<1>5. SumOf(X) = 0
  BY <1>1, <1>2, <1>4
<1>6. QED
  BY <1>5 DEF X

LEMMA SumOfMonotone ==
    ASSUME NEW X \in [Ids -> Int], NEW Y \in [Ids -> Int],
           \A id \in Ids : X[id] <= Y[id]
    PROVE  SumOf(X) <= SumOf(Y)
<1> DEFINE Z == [id \in Ids |-> 0]
<1>1. Z \in [Ids -> Int] /\ \A id \in Ids : Z[id] = 0
  OBVIOUS
<1>2. SumOf(Z) = 0
  BY SumOfZero
<1> HIDE DEF Z
<1>3. \A id \in Ids : X[id] <= Y[id] + Z[id]
  BY <1>1
<1>4. SumOf(X) <= SumOf(Y) + SumOf(Z) /\ SumOf(X) \in Int /\ SumOf(Y) \in Int
  BY <1>1, <1>3, SumOfLess, SumOfExists
<1>5. QED
  BY <1>2, <1>4

LEMMA SumOfChange ==
    ASSUME NEW X \in [Ids -> Int], NEW Y \in [Ids -> Int], NEW id \in Ids,
           \A j \in Ids \ {id} : Y[j] = X[j]
    PROVE  SumOf(Y) = SumOf(X) + Y[id] - X[id]
<1>1. PICK f : SumsTo(f, X) /\ SumOf(X) = f[MaxId]
  BY SumOfExists
<1>2. PICK g : SumsTo(g, Y) /\ SumOf(Y) = g[MaxId]
  BY SumOfExists
<1>3. QED
  BY <1>1, <1>2, SumChange

-----------------------------------------------------------------------------
(* The accounting.                                                         *)

\* What each id contributes to the accounted size.
Weights == [id \in Ids |-> IF index[id] = NoEntry THEN 0 ELSE EntrySize(index[id])]

LEMMA WeightsType ==
    ASSUME IInv PROVE Weights \in [Ids -> Int]
<1>1. \A id \in Ids : index[id] # NoEntry => EntrySize(index[id]) \in Nat
  BY EntrySizeType DEF IInv, TypeOK
<1>2. QED
  BY <1>1 DEF Weights

\* AccountedUpTo holds the partial sums of the weights.
LEMMA AccountedSums == ASSUME IInv PROVE SumsTo(AccountedUpTo, Weights)
<1>1. \E f : SumsTo(f, Weights)
  BY WeightsType, SumExists
<1>2. PICK f : f = [n \in 0..MaxId |-> IF n = 0 THEN 0 ELSE
                     f[n - 1] + (IF index[n] = NoEntry THEN 0 ELSE EntrySize(index[n]))]
  <2>1. PICK f : SumsTo(f, Weights)
    BY <1>1
  <2>2. \A n \in 0..MaxId : n # 0 => n \in Ids
    BY Bounds DEF Ids
  <2>3. f = [n \in 0..MaxId |-> IF n = 0 THEN 0 ELSE
               f[n - 1] + (IF index[n] = NoEntry THEN 0 ELSE EntrySize(index[n]))]
    BY <2>1, <2>2 DEF SumsTo, Weights
  <2>4. QED
    BY <2>3
<1>3. AccountedUpTo = [n \in 0..MaxId |-> IF n = 0 THEN 0 ELSE
         AccountedUpTo[n - 1] + (IF index[n] = NoEntry THEN 0 ELSE EntrySize(index[n]))]
  BY <1>2 DEF AccountedUpTo
<1>4. \A n \in 0..MaxId : n # 0 => n \in Ids
  BY Bounds DEF Ids
<1>5. QED
  BY <1>3, <1>4 DEF SumsTo, Weights

LEMMA AccountedSumsNext == IInv' => SumsTo(AccountedUpTo, Weights)'
<1>1. IInv => SumsTo(AccountedUpTo, Weights)
  BY AccountedSums
<1>2. QED
  BY <1>1, PTL

\* The accounting follows a step that changes one entry.
LEMMA OneAccounted ==
    ASSUME IInv, IInv', Accounting, NEW id \in Ids,
           \A j \in Ids \ {id} : index'[j] = index[j],
           total' = total + Weights'[id] - Weights[id]
    PROVE  Accounting'
<1>1. Weights \in [Ids -> Int] /\ SumsTo(AccountedUpTo, Weights)
  BY WeightsType, AccountedSums
<1>2. (Weights \in [Ids -> Int])'
  <2>1. \A j \in Ids : index'[j] # NoEntry => EntrySize(index'[j]) \in Nat
    BY EntrySizeType DEF IInv, TypeOK
  <2>2. QED
    BY <2>1 DEF Weights
<1>3. SumsTo(AccountedUpTo', Weights')
  BY AccountedSumsNext DEF SumsTo
<1>4. \A j \in Ids \ {id} : Weights'[j] = Weights[j]
  BY DEF Weights
<1>5. AccountedUpTo'[MaxId] = AccountedUpTo[MaxId] + Weights'[id] - Weights[id]
  BY <1>1, <1>2, <1>3, <1>4, SumChange
<1>6. QED
  BY <1>5 DEF Accounting

\* With one entry listed its size is the accounted size.
LEMMA SingleAccounted ==
    ASSUME IInv, NEW id \in Ids, Live \subseteq {id}
    PROVE  AccountedUpTo[MaxId] = Weights[id]
<1> DEFINE X == [j \in Ids |-> 0]
           f == [n \in 0..MaxId |-> 0]
<1>1. SumsTo(f, X) /\ X \in [Ids -> Int] /\ f[MaxId] = 0 /\ X[id] = 0
  BY Bounds DEF SumsTo, Ids
<1>2. \A j \in Ids \ {id} : Weights[j] = X[j]
  BY DEF Weights, Live
<1> HIDE DEF X, f
<1>3. AccountedUpTo[MaxId] = f[MaxId] + Weights[id] - X[id]
  BY <1>1, <1>2, WeightsType, AccountedSums, SumChange
<1>4. Weights[id] \in Int
  BY WeightsType
<1>5. QED
  BY <1>1, <1>3, <1>4

LEMMA NoneAccounted == IInv /\ Live = {} => AccountedUpTo[MaxId] = 0
<1> SUFFICES ASSUME IInv, Live = {} PROVE AccountedUpTo[MaxId] = 0
  OBVIOUS
<1>1. CASE MaxId = 0
  BY <1>1, AccountedSums DEF SumsTo
<1>2. CASE MaxId # 0
  <2>1. 1 \in Ids
    BY <1>2, Bounds DEF Ids
  <2>2. Weights[1] = 0
    BY <2>1 DEF Weights, Live
  <2>3. QED
    BY <2>1, <2>2, SingleAccounted
<1>3. QED
  BY <1>1, <1>2

\* A server that starts or dies has nothing to account for.
LEMMA FreshAccounting == ASSUME IInv', NEW c, Fresh(c) PROVE Accounting'
<1>1. (IInv /\ Live = {} => AccountedUpTo[MaxId] = 0)'
  BY NoneAccounted, PTL
<1>2. Live' = {} /\ total' = 0
  BY DEF Fresh, Live
<1>3. QED
  BY <1>1, <1>2 DEF Accounting

LEMMA SameAccounting == ASSUME Accounting, UNCHANGED <<index, total>> PROVE Accounting'
BY DEF Accounting, AccountedUpTo

\* A removed entry is subtracted, a quarantined one stays accounted.
LEMMA EraseAccounting ==
    ASSUME IInv, IInv', Accounting, NEW id \in Live, EraseOk(id) \/ EraseFail(id)
    PROVE  Accounting'
<1>1. /\ id \in Ids /\ index[id] \in Entry /\ total \in Int
      /\ EntrySize(index[id]) \in Nat /\ \A j \in Ids \ {id} : index'[j] = index[j]
  BY EntrySizeType, Erased DEF IInv, TypeOK, Live
<1>2. Weights[id] = EntrySize(index[id])
  BY <1>1, Nothing DEF Weights
<1>3. CASE EraseOk(id)
  <2>1. index'[id] = NoEntry /\ total' = total - EntrySize(index[id])
    BY <1>1, <1>3 DEF EraseOk, IInv, TypeOK
  <2>2. Weights'[id] = 0
    BY <1>1, <2>1 DEF Weights
  <2>3. total' = total + Weights'[id] - Weights[id]
    BY <1>1, <1>2, <2>1, <2>2
  <2>4. QED
    BY <1>1, <2>3, OneAccounted
<1>4. CASE EraseFail(id)
  <2>1. /\ index' = [index EXCEPT ![id] = [index[id] EXCEPT !.usable = FALSE]]
        /\ total' = total
    BY <1>4 DEF EraseFail
  <2>2. index'[id] = [index[id] EXCEPT !.usable = FALSE]
    BY <1>1, <2>1 DEF IInv, TypeOK
  <2>3. /\ index'[id] \in Entry /\ index'[id].main = index[id].main
        /\ index'[id].drft = index[id].drft
    BY <1>1, <2>2 DEF Entry
  <2>4. EntrySize(index'[id]) = EntrySize(index[id])
    BY <2>3 DEF EntrySize
  <2>5. Weights'[id] = EntrySize(index[id])
    BY <1>1, <2>3, <2>4, Nothing DEF Weights
  <2>6. total' = total + Weights'[id] - Weights[id]
    BY <1>1, <1>2, <2>1, <2>5
  <2>7. QED
    BY <1>1, <2>6, OneAccounted
<1>5. QED
  BY <1>3, <1>4

\* Counting a hit does not change the size of an entry.
LEMMA TouchAccounting ==
    ASSUME IInv, IInv', Accounting, NEW id \in Live,
           index' = [index EXCEPT ![id] = Touched(@)], total' = total
    PROVE  Accounting'
<1>1. /\ id \in Ids /\ index[id] \in Entry /\ total \in Int
      /\ EntrySize(index[id]) \in Nat /\ Touched(index[id]) \in Entry
  BY EntrySizeType, TouchedIndex DEF IInv, TypeOK, Live
<1>2. /\ Touched(index[id]).main = index[id].main
      /\ Touched(index[id]).drft = index[id].drft
  BY <1>1 DEF Touched, Entry
<1>3. /\ index'[id] = Touched(index[id])
      /\ \A j \in Ids \ {id} : index'[j] = index[j]
  BY <1>1 DEF IInv, TypeOK
<1>4. Weights[id] = EntrySize(index[id]) /\ Weights'[id] = EntrySize(index[id])
  BY <1>1, <1>2, <1>3, Nothing DEF Weights, EntrySize
<1>5. total' = total + Weights'[id] - Weights[id]
  BY <1>1, <1>4
<1>6. QED
  BY <1>1, <1>3, <1>5, OneAccounted

\* A newly listed entry is added.
LEMMA ListAccounting ==
    ASSUME IInv, IInv', Accounting, NEW id \in Ids, id \notin Live, NEW e \in Entry,
           index' = [index EXCEPT ![id] = e], total' = total + EntrySize(e)
    PROVE  Accounting'
<1>1. index'[id] = e /\ \A j \in Ids \ {id} : index'[j] = index[j]
  BY DEF IInv, TypeOK
<1>2. total \in Int /\ EntrySize(e) \in Nat
  BY EntrySizeType DEF IInv, TypeOK
<1>3. Weights[id] = 0 /\ Weights'[id] = EntrySize(e)
  BY <1>1, Nothing DEF Weights, Live
<1>4. total' = total + Weights'[id] - Weights[id]
  BY <1>2, <1>3
<1>5. QED
  BY <1>1, <1>4, OneAccounted

LEMMA BootAccounting == ASSUME IInv, IInv', Accounting, BootStep PROVE Accounting'
<1>1. CASE \/ \E id \in Ids : ScanDiscard(id) \/ ScanOrphan(id)
           \/ ScanDone \/ BootEvictDone \/ BootDone
           \/ \E o \in orphans : BootGc(o)
  BY <1>1, SameAccounting DEF ScanDiscard, ScanOrphan, ScanDone, BootEvictDone,
       BootDone, BootGc, disposable
<1>2. ASSUME NEW id \in Ids, ScanAdopt(id) PROVE Accounting'
  <2> DEFINE m == disk[id].meta
             e == [tokens |-> m.tokens, drafter |-> m.drafter, spec |-> m.spec,
                   main |-> m.main, drft |-> m.drft, usable |-> TRUE,
                   hits |-> m.hits, lastUsed |-> m.lastUsed]
  <2>1. /\ index' = [index EXCEPT ![id] = e] /\ total' = total + EntrySize(e)
        /\ id \in unscanned /\ Complete(disk[id])
    BY <1>2 DEF ScanAdopt, Scanned
  <2>2. id \notin Live /\ m \in Meta
    BY <2>1 DEF IInv, OnDisk, TypeOK, Complete, Directory
  <2>3. e \in Entry
    BY <2>2 DEF Meta, Entry
  <2> HIDE DEF e
  <2>4. QED
    BY <2>1, <2>2, <2>3, ListAccounting
<1>3. ASSUME NEW id \in Ids, BootEvict(id) PROVE Accounting'
  <2>1. id \in Live
    BY <1>3 DEF BootEvict, IsVictim
  <2>2. QED
    BY <1>3, <2>1, EraseAccounting, SameAccounting DEF BootEvict
<1>4. QED
  BY <1>1, <1>2, <1>3 DEF BootStep

LEMMA NextAccounting ==
    ASSUME IInv, IInv', Accounting, [Next]_vars PROVE Accounting'
<1>1. CASE BootStep
  BY <1>1, BootAccounting
<1>2. CASE \/ \E c \in Configs : Boot(c) \/ BootInert(c)
           \/ Crash
  BY <1>2, FreshAccounting DEF Boot, BootInert, Crash
<1>3. CASE \/ RejectLoad
           \/ \E id \in Ids : \/ TouchReject(id) \/ Supersede(id) \/ Obsolete(id)
                              \/ Reclaim(id) \/ UpdateEvict(id)
                              \/ \E d \in Drafters : LoadReject(id, d)
  <2>1. PICK id \in Live : EraseOk(id) \/ EraseFail(id)
    BY <1>3 DEF RejectLoad, TouchReject, CanTouch, Usable, Supersede, Obsolete,
                IsObsolete, Reclaim, IsVictim, Sweep, UpdateEvict, LoadReject, Candidate,
                IInv, InHand
  <2>2. QED
    BY <2>1, EraseAccounting
<1>4. CASE AcceptLoad \/ \E id \in Ids : TouchHit(id)
  <2>1. PICK id \in Live : index' = [index EXCEPT ![id] = Touched(@)] /\ total' = total
    BY <1>4 DEF AcceptLoad, TouchHit, CanTouch, Usable, IInv, InHand
  <2>2. QED
    BY <2>1, TouchAccounting
<1>5. CASE SyncDir /\ ~DropUncommitted
  <2>1. /\ index' = [index EXCEPT ![job.id] = NewEntry]
        /\ total' = total + EntrySize(NewEntry)
        /\ pc \in Uncommitted
    BY <1>5 DEF SyncDir, Uncommitted
  <2>2. job.id \in Ids /\ job.id \notin Live /\ NewEntry \in Entry
    BY <2>1, HeldType, NewEntryType
  <2>3. QED
    BY <2>1, <2>2, ListAccounting
<1>6. CASE \/ SaveAlloc \/ SaveWrite \/ RenameTarget \/ RenameDraft \/ CommitMeta
           \/ SyncDir /\ DropUncommitted
  <2>1. UNCHANGED <<index, total>>
    BY <1>6 DEF SaveAlloc, SaveWrite, RenameTarget, RenameDraft, CommitMeta,
                DropUncommitted, SaveStep, SaveFail
  <2>2. QED
    BY <2>1, SameAccounting
<1>7. CASE \/ UNCHANGED vars \/ Tick \/ UpdateBegin \/ UpdateDone
           \/ SaveSkip \/ SupersedeDone \/ ObsoleteDone \/ SaveDone
           \/ \E p \in Prompts, d \in Drafters : SaveBegin(p, d)
           \/ \E id \in Ids, d \in Drafters : LoadOk(id, d)
           \/ \E id \in Ids, part \in {"target", "draft", "meta"} : Damage(id, part)
  BY <1>7, SameAccounting DEF vars, Tick, UpdateBegin, UpdateDone, SaveSkip,
       SupersedeDone, ObsoleteDone, SaveDone, SweepDone, SaveBegin, LoadOk, Damage,
       disposable
<1>8. QED
  BY <1>1, <1>2, <1>3, <1>4, <1>5, <1>6, <1>7
     DEF Next, InProgress, SaveProgress, UpdateStep, Arrival

\* disk_size_total is the sum of the sizes of the listed entries, the
\* quarantined ones included, through saves, failed removals, refused
\* restores, crashes and boots: the "accounting invariant failed" branch of
\* erase_disk_state is dead code.
THEOREM TotalIsSum == Spec => []Accounting
<1>1. Init => Accounting
  <2>1. SUFFICES ASSUME Init PROVE Accounting
    OBVIOUS
  <2>2. IInv /\ Live = {} /\ total = 0
    BY <2>1, InitInv DEF Init, Live
  <2>3. QED
    BY <2>2, NoneAccounted DEF Accounting
<1>2. IInv /\ IInv' /\ Accounting /\ [Next]_vars => Accounting'
  BY NextAccounting
<1>3. QED
  BY <1>1, <1>2, Inductive, PTL DEF Spec

-----------------------------------------------------------------------------
(* The budget of a save.                                                   *)

\* Only a failed erase, which opens the breaker, calls the reclaim off, and
\* what is being saved fits the budget by itself.
Budgeted ==
    /\ pc \in SaveSteps => job.reclaim \/ disabled
    /\ pc \in Uncommitted \cup Sweeping => PredictedSize <= Limit

\* A step within a save.
Carries ==
    /\ pc \in SaveSteps /\ conf' = conf
    /\ job'.tokens = job.tokens /\ job'.drafter = job.drafter
    /\ disabled => disabled'
    /\ job'.reclaim = job.reclaim \/ disabled'
    /\ pc = "touch" /\ pc' # "touch" => PredictedSize <= Limit

LEMMA CarriesBudget ==
    ASSUME IInv, Budgeted, Carries PROVE Budgeted'
<1>1. PredictedSize' = PredictedSize
  BY DEF Carries, PredictedSize, TargetPayload, DraftPayload, Bytes
<1>2. pc \in SaveSteps => pc = "touch" \/ pc \in Uncommitted \cup Sweeping
  BY DEF SaveSteps, Uncommitted, Sweeping
<1>3. pc' = "touch" => pc' \notin Uncommitted \cup Sweeping
  BY DEF Uncommitted, Sweeping
<1>4. pc' \in Uncommitted \cup Sweeping => PredictedSize' <= Limit
  BY <1>1, <1>2, <1>3 DEF Budgeted, Carries
<1>5. pc' \in SaveSteps => job'.reclaim \/ disabled'
  BY DEF Budgeted, Carries
<1>6. QED
  BY <1>4, <1>5 DEF Budgeted

LEMMA SaveSets ==
    /\ Uncommitted \subseteq SaveSteps /\ Sweeping \subseteq SaveSteps
BY DEF SaveSteps, Uncommitted, Sweeping

LEMMA OutsideBudget == ASSUME pc' \notin SaveSteps PROVE Budgeted'
BY SaveSets DEF Budgeted

LEMMA SaveProgressBudget ==
    ASSUME IInv, Budgeted, SaveProgress PROVE Budgeted'
<1>1. ASSUME NEW id \in Ids, TouchReject(id) PROVE Budgeted'
  <2>1. Carries
    BY <1>1 DEF TouchReject, EraseOk, EraseFail, Carries, SaveSteps
  <2>2. QED
    BY <2>1, CarriesBudget
<1>2. CASE \/ \E id \in Ids : TouchHit(id)
           \/ SaveSkip \/ SaveDone
  BY <1>2, OutsideBudget DEF TouchHit, SaveSkip, SaveDone, SaveSteps
<1>3. CASE SaveFail
  BY <1>3, OutsideBudget DEF SaveFail, SaveSteps
<1>4. CASE ~SaveFail /\ (SaveAlloc \/ SaveWrite \/ RenameTarget \/ RenameDraft
                          \/ CommitMeta \/ SyncDir)
  <2>1. pc \in SaveSteps /\ conf' = conf /\ disabled' = disabled
    BY <1>4 DEF SaveAlloc, SaveWrite, RenameTarget, RenameDraft, CommitMeta, SyncDir,
                DropUncommitted, SaveStep, SaveSteps
  <2>2. job \in Job
    BY <2>1 DEF IInv, TypeOK, InHand
  <2>3. /\ job'.tokens = job.tokens /\ job'.drafter = job.drafter
        /\ job'.reclaim = job.reclaim
    BY <1>4, <2>2 DEF SaveAlloc, SaveWrite, RenameTarget, RenameDraft, CommitMeta,
                SyncDir, DropUncommitted, Job
  <2>4. pc = "touch" => PredictedSize <= Limit
    BY <1>4 DEF SaveAlloc, SaveWrite, RenameTarget, RenameDraft, CommitMeta, SyncDir
  <2>5. Carries
    BY <2>1, <2>3, <2>4 DEF Carries
  <2>6. QED
    BY <2>5, CarriesBudget
<1>5. ASSUME NEW id \in Ids, Supersede(id) \/ Obsolete(id) \/ Reclaim(id) PROVE Budgeted'
  <2>1. /\ pc \in Sweeping /\ pc # "touch" /\ conf' = conf
        /\ \/ disabled' = disabled /\ job' = job
           \/ disabled' /\ job' = [job EXCEPT !.reclaim = FALSE]
    BY <1>5 DEF Supersede, Obsolete, Reclaim, Sweep, EraseOk, EraseFail, Sweeping
  <2>2. job \in Job /\ pc \in SaveSteps
    BY <2>1, SaveSets DEF IInv, TypeOK, InHand
  <2>3. Carries
    BY <2>1, <2>2 DEF Carries, Job
  <2>4. QED
    BY <2>3, CarriesBudget
<1>6. CASE SupersedeDone \/ ObsoleteDone
  <2>1. Carries
    BY <1>6 DEF SupersedeDone, ObsoleteDone, SweepDone, disposable, Carries, SaveSteps
  <2>2. QED
    BY <2>1, CarriesBudget
<1>7. QED
  BY <1>1, <1>2, <1>3, <1>4, <1>5, <1>6 DEF SaveProgress

LEMMA NextBudget == ASSUME IInv, Budgeted, [Next]_vars PROVE Budgeted'
<1>1. CASE SaveProgress
  BY <1>1, SaveProgressBudget
<1>2. ASSUME NEW p \in Prompts, NEW d \in Drafters, SaveBegin(p, d) PROVE Budgeted'
  <2>1. pc' = "touch" /\ job'.reclaim
    BY <1>2 DEF SaveBegin
  <2>2. QED
    BY <2>1 DEF Budgeted, Uncommitted, Sweeping
<1>3. CASE \/ UNCHANGED vars \/ Tick
           \/ \E id \in Ids, part \in {"target", "draft", "meta"} : Damage(id, part)
  <2>1. pc' = pc /\ UNCHANGED <<conf, job, disabled>>
    BY <1>3 DEF vars, Tick, Damage, disposable
  <2>2. CASE pc \in SaveSteps
    <3>1. Carries
      BY <2>1, <2>2 DEF Carries
    <3>2. QED
      BY <3>1, CarriesBudget
  <2>3. CASE pc \notin SaveSteps
    BY <2>1, <2>3, OutsideBudget
  <2>4. QED
    BY <2>2, <2>3
<1>4. CASE BootStep \/ UpdateStep \/ AcceptLoad \/ RejectLoad
  <2>1. pc' \notin SaveSteps
    BY <1>4 DEF BootStep, Scanned, ScanDiscard, ScanOrphan, ScanAdopt, ScanDone,
         BootEvict, BootEvictDone, BootGc, BootDone, UpdateStep, UpdateEvict,
         UpdateDone, SweepDone, AcceptLoad, RejectLoad, SaveSteps
  <2>2. QED
    BY <2>1, OutsideBudget
<1>5. CASE \/ \E c \in Configs : Boot(c) \/ BootInert(c)
           \/ \E id \in Ids, d \in Drafters : LoadOk(id, d) \/ LoadReject(id, d)
           \/ UpdateBegin \/ Crash
  <2>1. pc' \notin SaveSteps
    BY <1>5 DEF Boot, BootInert, LoadOk, LoadReject, Candidate, UpdateBegin, SweepDone,
         Crash, SaveSteps
  <2>2. QED
    BY <2>1, OutsideBudget
<1>6. QED
  BY <1>1, <1>2, <1>3, <1>4, <1>5 DEF Next, InProgress, Arrival

\* The save's own entry takes no more than the save predicted.
LEMMA NewestFits ==
    ASSUME IInv, MInv, Accounting, Budgeted, pc = "reclaim", Live \subseteq {job.id}
    PROVE  total <= Limit
<1>1. /\ job.id \in Live /\ job.id \in Ids
      /\ index[job.id].main = TargetPayload(job.tokens)
      /\ index[job.id].drft = DraftPayload(job.tokens, job.drafter)
  BY DEF MInv, Committed, Sweeping, Live
<1>2. Weights[job.id] = PredictedSize
  BY <1>1 DEF Weights, Live, EntrySize, PredictedSize
<1>3. total = PredictedSize
  BY <1>1, <1>2, SingleAccounted DEF Accounting
<1>4. QED
  BY <1>3 DEF Budgeted, Sweeping

\* A save that returns leaves the library within its budget or the circuit
\* breaker open: the reclaim loop always finds a victim until the budget is
\* met, and the new entry alone never exceeds it (save_disk).
THEOREM SavesWithinBudget == Spec => SaveWithinBudget
<1>1. Init => Budgeted
  BY OutsideBudget DEF Init, Budgeted, SaveSteps, Uncommitted, Sweeping
<1>2. IInv /\ Budgeted /\ [Next]_vars => Budgeted'
  BY NextBudget
<1>3. IInv /\ MInv /\ Accounting /\ Budgeted /\ [Next]_vars =>
         [pc = "reclaim" /\ pc' = "idle" => total' <= Limit \/ disabled']_vars
  <2>1. SUFFICES ASSUME IInv, MInv, Accounting, Budgeted, Next,
                        pc = "reclaim", pc' = "idle"
                 PROVE  total' <= Limit \/ disabled'
    OBVIOUS
  <2>2. SaveDone
    BY <2>1 DEF Next, InProgress, BootStep, SaveProgress, UpdateStep, Arrival,
         Scanned, ScanDiscard, ScanOrphan, ScanAdopt, ScanDone, BootEvict, BootEvictDone,
         BootGc, BootDone, TouchReject, TouchHit, SaveSkip, SaveAlloc, SaveWrite,
         RenameTarget, RenameDraft, CommitMeta, SyncDir, Supersede, Obsolete, Reclaim,
         Sweep, SupersedeDone, ObsoleteDone, SweepDone, UpdateEvict, UpdateDone,
         AcceptLoad, RejectLoad, Boot, BootInert, SaveBegin, LoadOk, LoadReject,
         Candidate, UpdateBegin, Crash, Tick, Damage
  <2>3. total' = total /\ disabled' = disabled
    BY <2>2 DEF SaveDone
  <2>4. CASE ~job.reclaim
    BY <2>1, <2>3, <2>4 DEF Budgeted, SaveSteps
  <2>5. CASE total <= Limit
    BY <2>3, <2>5
  <2>6. CASE Live \subseteq {job.id}
    BY <2>1, <2>3, <2>6, NewestFits
  <2>7. QED
    BY <2>2, <2>4, <2>5, <2>6 DEF SaveDone
<1>4. QED
  BY <1>1, <1>2, <1>3, Inductive, MirrorInvariant, TotalIsSum, PTL
     DEF Spec, SaveWithinBudget

-----------------------------------------------------------------------------
(* What a save that returns true vouches for.                              *)

Renamed == {"renameDraft", "meta", "sync"}

\* The commit rests on complete payloads, the sweeps on the committed entry,
\* and only a failed call leaves a usable entry without its files.
Vouched ==
    /\ pc \in Renamed => disk[job.id].target = TargetPayload(job.tokens)
    /\ pc \in {"meta", "sync"} =>
          disk[job.id].draft = DraftPayload(job.tokens, job.drafter)
    /\ pc = "sync" => disk[job.id].meta = MetaOf(NewEntry)
    /\ pc \in Sweeping =>
          /\ Adoptable(job.id)
          /\ disk[job.id].meta.drafter = job.drafter
          /\ disk[job.id].meta.tokens = job.tokens
    /\ faults = 0 => \A id \in Usable : Complete(disk[id])

\* What a save has just written is a complete directory.
LEMMA WrittenComplete ==
    ASSUME IInv, Vouched, pc = "sync"
    PROVE  /\ Adoptable(job.id) /\ disk[job.id].meta.drafter = job.drafter
           /\ disk[job.id].meta.tokens = job.tokens
<1>1. /\ disk[job.id] \in Directory /\ disk[job.id].meta = MetaOf(NewEntry)
      /\ disk[job.id].target = TargetPayload(job.tokens)
      /\ disk[job.id].draft = DraftPayload(job.tokens, job.drafter)
  BY HeldType DEF Vouched, Renamed, Uncommitted
<1>2. MetaOf(NewEntry) \in Meta
  BY NewEntryType, MetaType DEF IInv, Uncommitted
<1>3. /\ MetaOf(NewEntry).main = TargetPayload(job.tokens)
      /\ MetaOf(NewEntry).drft = DraftPayload(job.tokens, job.drafter)
      /\ MetaOf(NewEntry).fp = conf.fp /\ MetaOf(NewEntry).drafter = job.drafter
      /\ MetaOf(NewEntry).tokens = job.tokens
  BY DEF MetaOf, NewEntry
<1>4. QED
  BY <1>1, <1>2, <1>3, Nothing DEF Adoptable, Complete, SizeExact

\* Failing calls are counted.
LEMMA FaultsGrow == ASSUME IInv, [Next]_vars PROVE faults' = 0 => faults = 0
<1>1. faults \in Nat
  BY DEF IInv, TypeOK
<1>2. CASE NoFault \/ Fault \/ faults' = faults
  BY <1>1, <1>2 DEF NoFault, Fault, budgets
<1>3. CASE BootStep
  BY <1>2, <1>3 DEF BootStep, ScanDiscard, ScanOrphan, ScanAdopt, ScanDone, BootEvict,
     EraseOk, BootEvictDone, BootGc, BootDone
<1>4. CASE SaveProgress
  BY <1>2, <1>4 DEF SaveProgress, TouchReject, TouchHit, RewriteMeta, SaveSkip, SaveAlloc,
     SaveWrite, RenameTarget, RenameDraft, CommitMeta, SyncDir, DropUncommitted, SaveStep,
     SaveFail, Supersede, Obsolete, Reclaim, Sweep, EraseOk, EraseFail, SupersedeDone,
     ObsoleteDone, SweepDone, SaveDone
<1>5. CASE UpdateStep \/ AcceptLoad \/ RejectLoad
  BY <1>2, <1>5 DEF UpdateStep, UpdateEvict, EraseOk, EraseFail, UpdateDone, SweepDone,
     AcceptLoad, RewriteMeta, RejectLoad
<1>6. CASE Arrival \/ UNCHANGED vars
  BY <1>2, <1>6 DEF Arrival, Boot, BootInert, SaveBegin, LoadOk, LoadReject, EraseOk,
     EraseFail, UpdateBegin, SweepDone, Crash, Tick, Damage, vars, budgets
<1>7. QED
  BY <1>3, <1>4, <1>5, <1>6 DEF Next, InProgress

\* Outside the later half of a save only the usable entries matter.
LEMMA PlainVouched ==
    ASSUME pc' \notin Renamed \cup Sweeping,
           faults' = 0 => \A id \in Usable' : Complete(disk'[id])
    PROVE  Vouched'
BY DEF Vouched, Renamed, Complete

\* Where neither the directory nor the listing of a usable entry changes.
LEMMA SameUsable ==
    ASSUME Vouched, faults' = 0 => faults = 0,
           \A id \in Usable' : id \in Usable /\ disk'[id] = disk[id]
    PROVE  faults' = 0 => \A id \in Usable' : Complete(disk'[id])
BY DEF Vouched

LEMMA FaultVouched ==
    ASSUME IInv, Fault, pc' \notin Renamed \cup Sweeping PROVE Vouched'
BY PlainVouched DEF Fault, IInv, TypeOK

LEMMA QuietVouched ==
    ASSUME Vouched, faults' = 0 => faults = 0, UNCHANGED <<disk, index>>,
           pc' \notin Renamed \cup Sweeping
    PROVE  Vouched'
BY SameUsable, PlainVouched DEF Usable, Live

\* The steps that fill and commit the directory of a save.
LEMMA AllocVouched ==
    ASSUME IInv, SInv, Vouched, faults' = 0 => faults = 0, SaveAlloc PROVE Vouched'
<1>1. nextId \in Ids /\ nextId \notin Live /\ pc' \notin Renamed \cup Sweeping
  BY AllocFresh DEF SaveAlloc, SaveStep, SaveFail, Renamed, Sweeping
<1>2. \A id \in Usable' : id \in Usable /\ disk'[id] = disk[id]
  BY <1>1 DEF SaveAlloc, SaveStep, SaveFail, Usable, Live, IInv, TypeOK
<1>3. QED
  BY <1>1, <1>2, SameUsable, PlainVouched

LEMMA RenameVouched ==
    ASSUME IInv, SInv, Vouched, faults' = 0 => faults = 0, RenameTarget \/ RenameDraft
    PROVE  Vouched'
<1>1. pc \in Uncommitted \ {"sync"}
  BY DEF RenameTarget, RenameDraft, Uncommitted
<1>2. /\ job.id \in Ids /\ job.id \notin Live /\ disk[job.id] \in Directory
      /\ disk[job.id].draft # NoFile => job.drafter \in conf.drafting
  BY <1>1, HeldType DEF SInv, Filled
<1>3. CASE SaveFail
  BY <1>3, FaultVouched DEF SaveFail, Renamed, Sweeping
<1>4. CASE RenameTarget /\ ~SaveFail
  <2>1. /\ disk' = [disk EXCEPT ![job.id].target = TargetPayload(job.tokens)]
        /\ UNCHANGED <<conf, index, job>>
        /\ pc' = IF job.drafter \in conf.drafting THEN "renameDraft" ELSE "meta"
    BY <1>4 DEF RenameTarget, SaveStep
  <2>2. /\ \A j \in Ids \ {job.id} : disk'[j] = disk[j]
        /\ disk'[job.id].target = TargetPayload(job.tokens)
        /\ disk'[job.id].draft = disk[job.id].draft
    BY <1>2, <2>1 DEF IInv, TypeOK, Directory
  <2>3. pc' = "meta" => disk'[job.id].draft = DraftPayload(job.tokens, job.drafter)
    BY <1>2, <2>1, <2>2 DEF DraftPayload
  <2>4. faults' = 0 => \A id \in Usable' : Complete(disk'[id])
    BY <1>2, <2>1, <2>2, SameUsable DEF Usable, Live
  <2>5. /\ TargetPayload(job.tokens)' = TargetPayload(job.tokens)
        /\ DraftPayload(job.tokens, job.drafter)' = DraftPayload(job.tokens, job.drafter)
    BY <2>1 DEF TargetPayload, DraftPayload
  <2>6. QED
    BY <2>1, <2>2, <2>3, <2>4, <2>5 DEF Vouched, Sweeping, Complete
<1>5. CASE RenameDraft /\ ~SaveFail
  <2>1. /\ disk' = [disk EXCEPT ![job.id].draft = DraftPayload(job.tokens, job.drafter)]
        /\ UNCHANGED <<conf, index, job>> /\ pc' = "meta"
        /\ disk[job.id].target = TargetPayload(job.tokens)
    BY <1>5 DEF RenameDraft, SaveStep, Vouched, Renamed
  <2>2. /\ \A j \in Ids \ {job.id} : disk'[j] = disk[j]
        /\ disk'[job.id].target = disk[job.id].target
        /\ disk'[job.id].draft = DraftPayload(job.tokens, job.drafter)
    BY <1>2, <2>1 DEF IInv, TypeOK, Directory
  <2>3. faults' = 0 => \A id \in Usable' : Complete(disk'[id])
    BY <1>2, <2>1, <2>2, SameUsable DEF Usable, Live
  <2>4. /\ TargetPayload(job.tokens)' = TargetPayload(job.tokens)
        /\ DraftPayload(job.tokens, job.drafter)' = DraftPayload(job.tokens, job.drafter)
    BY <2>1 DEF TargetPayload, DraftPayload
  <2>5. QED
    BY <2>1, <2>2, <2>3, <2>4 DEF Vouched, Sweeping, Complete
<1>6. QED
  BY <1>3, <1>4, <1>5

LEMMA CommitVouched ==
    ASSUME IInv, Vouched, faults' = 0 => faults = 0, CommitMeta PROVE Vouched'
<1>1. /\ job.id \in Ids /\ job.id \notin Live /\ disk[job.id] \in Directory
      /\ disk[job.id].target = TargetPayload(job.tokens)
      /\ disk[job.id].draft = DraftPayload(job.tokens, job.drafter)
  BY HeldType DEF CommitMeta, Uncommitted, Vouched, Renamed
<1>2. CASE DropUncommitted
  BY <1>2, FaultVouched DEF DropUncommitted, SaveFail, Renamed, Sweeping
<1>3. CASE ~DropUncommitted
  <2>1. /\ disk' = [disk EXCEPT ![job.id].meta = MetaOf(NewEntry)]
        /\ UNCHANGED <<conf, index, job, clock>> /\ pc' = "sync"
    BY <1>3 DEF CommitMeta, SaveStep
  <2>2. /\ \A j \in Ids \ {job.id} : disk'[j] = disk[j]
        /\ disk'[job.id].target = disk[job.id].target
        /\ disk'[job.id].draft = disk[job.id].draft
        /\ disk'[job.id].meta = MetaOf(NewEntry)
    BY <1>1, <2>1 DEF IInv, TypeOK, Directory
  <2>3. faults' = 0 => \A id \in Usable' : Complete(disk'[id])
    BY <1>1, <2>1, <2>2, SameUsable DEF Usable, Live
  <2>4. /\ TargetPayload(job.tokens)' = TargetPayload(job.tokens)
        /\ DraftPayload(job.tokens, job.drafter)' = DraftPayload(job.tokens, job.drafter)
        /\ MetaOf(NewEntry)' = MetaOf(NewEntry)
    BY <2>1 DEF TargetPayload, DraftPayload, MetaOf, NewEntry
  <2>5. QED
    BY <1>1, <2>1, <2>2, <2>3, <2>4 DEF Vouched, Sweeping, Complete
<1>4. QED
  BY <1>2, <1>3

LEMMA SyncVouched ==
    ASSUME IInv, Vouched, faults' = 0 => faults = 0, SyncDir PROVE Vouched'
<1>1. pc = "sync" /\ job.id \in Ids
  BY HeldType DEF SyncDir, Uncommitted
<1>2. CASE DropUncommitted
  BY <1>2, FaultVouched DEF DropUncommitted, SaveFail, Renamed, Sweeping
<1>3. CASE ~DropUncommitted
  <2>1. /\ index' = [index EXCEPT ![job.id] = NewEntry]
        /\ UNCHANGED <<disk, conf, job>> /\ pc' \in {"supersede", "obsolete"}
    BY <1>3 DEF SyncDir
  <2>2. /\ Adoptable(job.id) /\ disk[job.id].meta.drafter = job.drafter
        /\ disk[job.id].meta.tokens = job.tokens
    BY <1>1, WrittenComplete
  <2>3. \A id \in Usable' : id \in Usable \/ id = job.id
    BY <1>1, <2>1 DEF Usable, Live, IInv, TypeOK
  <2>4. faults' = 0 => \A id \in Usable' : Complete(disk'[id])
    BY <2>1, <2>2, <2>3 DEF Vouched, Adoptable
  <2>5. QED
    BY <2>1, <2>2, <2>4 DEF Vouched, Renamed, Adoptable, Complete
<1>4. QED
  BY <1>2, <1>3

\* An erase takes the files of no other entry.
LEMMA ErasedUsable ==
    ASSUME IInv, Vouched, faults' = 0 => faults = 0, NEW id \in Live,
           EraseOk(id) \/ EraseFail(id)
    PROVE  /\ faults' = 0 => \A j \in Usable' : Complete(disk'[j])
           /\ \A j \in Ids \ {id} : disk'[j] = disk[j]
<1>1. /\ id \in Ids /\ \A j \in Ids \ {id} : disk'[j] = disk[j] /\ index'[j] = index[j]
  BY Erased DEF Live
<1>2. CASE EraseOk(id)
  <2>1. index'[id] = NoEntry
    BY <1>1, <1>2 DEF EraseOk, IInv, TypeOK
  <2>2. \A j \in Usable' : j \in Usable /\ disk'[j] = disk[j]
    BY <1>1, <2>1 DEF Usable, Live
  <2>3. QED
    BY <1>1, <2>2, SameUsable
<1>3. CASE EraseFail(id)
  BY <1>1, <1>3 DEF EraseFail, Fault, IInv, TypeOK
<1>4. QED
  BY <1>2, <1>3

LEMMA SweepVouched ==
    ASSUME IInv, Vouched, faults' = 0 => faults = 0, NEW id \in Ids,
           Supersede(id) \/ Obsolete(id) \/ Reclaim(id)
    PROVE  Vouched'
<1>1. /\ id \in Live \ {job.id} /\ pc \in Sweeping /\ pc' \in Sweeping /\ conf' = conf
      /\ EraseOk(id) \/ EraseFail(id)
      /\ job' = job \/ job' = [job EXCEPT !.reclaim = FALSE]
  BY DEF Supersede, Obsolete, IsObsolete, Reclaim, IsVictim, Sweep, Sweeping
<1>2. job \in Job /\ job.id \in Ids
  BY <1>1 DEF IInv, TypeOK, InHand, SaveSteps, Sweeping
<1>3. job'.id = job.id /\ job'.drafter = job.drafter /\ job'.tokens = job.tokens
  BY <1>1, <1>2 DEF Job
<1>4. /\ disk'[job.id] = disk[job.id]
      /\ faults' = 0 => \A j \in Usable' : Complete(disk'[j])
  BY <1>1, <1>2, ErasedUsable
<1>5. QED
  BY <1>1, <1>3, <1>4 DEF Vouched, Renamed, Sweeping, Adoptable, Complete

LEMMA EraseVouched ==
    ASSUME IInv, Vouched, faults' = 0 => faults = 0, NEW id \in Ids,
           \/ TouchReject(id) \/ UpdateEvict(id)
           \/ \E d \in Drafters : LoadReject(id, d)
           \/ RejectLoad /\ id = restore.id
    PROVE  Vouched'
<1>1. /\ id \in Live /\ pc' \notin Renamed \cup Sweeping
      /\ EraseOk(id) \/ EraseFail(id)
  BY DEF TouchReject, CanTouch, Usable, UpdateEvict, IsVictim, LoadReject, Candidate,
         RejectLoad, IInv, InHand, Renamed, Sweeping
<1>2. QED
  BY <1>1, ErasedUsable, PlainVouched

\* A hit leaves the files of the entry as complete as they were.
LEMMA TouchVouched ==
    ASSUME IInv, SInv, Vouched, faults' = 0 => faults = 0,
           AcceptLoad \/ \E id \in Ids : TouchHit(id)
    PROVE  Vouched'
<1>1. PICK id \in Live :
        /\ index' = [index EXCEPT ![id] = Touched(@)]
        /\ RewriteMeta(id, Touched(index[id])) /\ pc' = "idle"
  BY DEF AcceptLoad, TouchHit, CanTouch, Usable, IInv, InHand
<1>2. pc' \notin Renamed \cup Sweeping
  BY <1>1 DEF Renamed, Sweeping
<1>3. CASE Fault
  BY <1>2, <1>3, FaultVouched
<1>4. CASE ~Fault
  <2> DEFINE t == Touched(index[id])
  <2>1. /\ id \in Ids /\ index[id] \in Entry /\ disk[id] \in Directory /\ t \in Entry
        /\ disk' = [disk EXCEPT ![id].meta = MetaOf(t)]
        /\ t.main = index[id].main /\ t.drft = index[id].drft /\ t.usable = index[id].usable
    BY <1>1, <1>4, TouchedIndex DEF RewriteMeta, IInv, TypeOK, Live, OnDisk, Touched, Entry
  <2>2. index'[id] = t /\ \A j \in Ids \ {id} : index'[j] = index[j] /\ disk'[j] = disk[j]
    BY <1>1, <2>1 DEF IInv, TypeOK
  <2>3. MetaOf(t) \in Meta /\ MetaOf(t).main = index[id].main /\ MetaOf(t).drft = index[id].drft
    BY <2>1, MetaType DEF IInv, MetaOf
  <2> HIDE DEF t
  <2>4. /\ disk'[id] \in Directory /\ disk'[id].meta = MetaOf(t)
        /\ disk'[id].target = disk[id].target /\ disk'[id].draft = disk[id].draft
    BY <2>1, <2>3 DEF IInv, TypeOK, Directory
  <2>5. \A j \in Usable' : j \in Usable
    BY <1>1, <2>1, <2>2 DEF Usable, Live
  <2>6. Complete(disk[id]) => Complete(disk'[id])
    <3>1. SUFFICES ASSUME Complete(disk[id]) PROVE Complete(disk'[id])
      OBVIOUS
    <3>2. Describes(disk[id].meta, index[id])
      BY <1>1, <2>1, <3>1 DEF SInv, Sidecar, Complete
    <3>3. QED
      BY <2>3, <2>4, <3>1, <3>2, Nothing DEF Complete, Describes
  <2>7. faults' = 0 => \A j \in Usable' : Complete(disk'[j])
    BY <2>2, <2>5, <2>6 DEF Vouched, Usable, Live
  <2>8. QED
    BY <1>2, <2>7, PlainVouched
<1>5. QED
  BY <1>3, <1>4

LEMMA BootVouched ==
    ASSUME IInv, Vouched, faults' = 0 => faults = 0, BootStep PROVE Vouched'
<1>1. pc' \notin Renamed \cup Sweeping
  BY DEF BootStep, Scanned, ScanDiscard, ScanOrphan, ScanAdopt, ScanDone, BootEvict,
         BootEvictDone, BootGc, BootDone, Renamed, Sweeping
<1>2. CASE \/ ScanDone \/ BootEvictDone \/ BootDone
           \/ \E id \in Ids : ScanOrphan(id)
  BY <1>1, <1>2, QuietVouched
     DEF ScanDone, BootEvictDone, BootDone, ScanOrphan, disposable
<1>3. ASSUME NEW id \in Ids, ScanDiscard(id) PROVE Vouched'
  <2>1. id \notin Live
    BY <1>3 DEF ScanDiscard, Scanned, IInv, OnDisk
  <2>2. \A j \in Usable' : j \in Usable /\ disk'[j] = disk[j]
    BY <1>3, <2>1 DEF ScanDiscard, Usable, Live, IInv, TypeOK
  <2>3. QED
    BY <1>1, <2>2, SameUsable, PlainVouched
<1>4. ASSUME NEW o \in orphans, BootGc(o) PROVE Vouched'
  <2>1. o.id \notin Live
    BY DEF IInv, OnDisk
  <2>2. \A j \in Usable' : j \in Usable /\ disk'[j] = disk[j]
    BY <1>4, <2>1 DEF BootGc, Usable, Live, IInv, TypeOK
  <2>3. QED
    BY <1>1, <2>2, SameUsable, PlainVouched
<1>5. ASSUME NEW id \in Ids, ScanAdopt(id) PROVE Vouched'
  <2>1. /\ disk' = disk /\ Complete(disk[id])
        /\ \A j \in Ids \ {id} : index'[j] = index[j]
    BY <1>5 DEF ScanAdopt, IInv, TypeOK
  <2>2. \A j \in Usable' : j \in Usable \/ j = id
    BY <2>1 DEF Usable, Live
  <2>3. QED
    BY <1>1, <2>1, <2>2, PlainVouched DEF Vouched
<1>6. ASSUME NEW id \in Ids, BootEvict(id) PROVE Vouched'
  <2>1. id \in Live
    BY <1>6 DEF BootEvict, IsVictim
  <2>2. CASE EraseOk(id)
    BY <1>1, <2>1, <2>2, ErasedUsable, PlainVouched
  <2>3. CASE Fault
    BY <1>1, <2>3, FaultVouched
  <2>4. QED
    BY <1>6, <2>2, <2>3 DEF BootEvict
<1>7. QED
  BY <1>2, <1>3, <1>4, <1>5, <1>6 DEF BootStep

LEMMA NextVouched ==
    ASSUME IInv, SInv, Vouched, MaxDamage = 0 \/ damage' = 0, [Next]_vars PROVE Vouched'
<1>1. faults' = 0 => faults = 0
  BY FaultsGrow
<1>2. CASE BootStep
  BY <1>1, <1>2, BootVouched
<1>3. CASE \/ SaveAlloc \/ RenameTarget \/ RenameDraft \/ CommitMeta \/ SyncDir
           \/ AcceptLoad \/ \E id \in Ids : TouchHit(id)
  BY <1>1, <1>3, AllocVouched, RenameVouched, CommitVouched, SyncVouched, TouchVouched
<1>4. CASE \E id \in Ids : \/ Supersede(id) \/ Obsolete(id) \/ Reclaim(id)
                           \/ TouchReject(id) \/ UpdateEvict(id)
                           \/ \E d \in Drafters : LoadReject(id, d)
  BY <1>1, <1>4, SweepVouched, EraseVouched
<1>5. CASE RejectLoad
  <2>1. restore.id \in Ids
    BY <1>5 DEF RejectLoad, IInv, InHand, Live
  <2>2. QED
    BY <1>1, <1>5, <2>1, EraseVouched
<1>6. CASE \/ SaveWrite \/ SaveSkip \/ SaveDone \/ UpdateBegin \/ UpdateDone
           \/ \E p \in Prompts, d \in Drafters : SaveBegin(p, d)
           \/ \E id \in Ids, d \in Drafters : LoadOk(id, d)
  <2>1. UNCHANGED <<disk, index>> /\ pc' \notin Renamed \cup Sweeping
    BY <1>6 DEF SaveWrite, SaveStep, SaveFail, SaveSkip, SaveDone, UpdateBegin,
         UpdateDone, SweepDone, SaveBegin, LoadOk, disposable, Renamed, Sweeping
  <2>2. QED
    BY <1>1, <2>1, QuietVouched
<1>7. CASE SupersedeDone \/ ObsoleteDone \/ Tick \/ UNCHANGED vars
  <2>1. /\ UNCHANGED <<disk, index, conf, job, faults>>
        /\ pc \in Renamed => pc' = pc /\ clock' = clock
        /\ pc' \in Renamed => pc' = pc /\ clock' = clock
        /\ pc' \in Sweeping => pc \in Sweeping
    BY <1>7 DEF SupersedeDone, ObsoleteDone, SweepDone, NoFault, budgets, Tick, vars,
         disposable, Renamed, Sweeping
  <2>2. pc' = "sync" => MetaOf(NewEntry)' = MetaOf(NewEntry)
    BY <2>1 DEF MetaOf, NewEntry, TargetPayload, DraftPayload, Renamed
  <2>3. /\ TargetPayload(job.tokens)' = TargetPayload(job.tokens)
        /\ DraftPayload(job.tokens, job.drafter)' = DraftPayload(job.tokens, job.drafter)
    BY <2>1 DEF TargetPayload, DraftPayload
  <2>4. QED
    BY <2>1, <2>2, <2>3 DEF Vouched, Renamed, Adoptable, Complete, Usable, Live
<1>8. CASE \/ Crash
           \/ \E c \in Configs : Boot(c) \/ BootInert(c)
  <2>1. Usable' = {} /\ pc' \notin Renamed \cup Sweeping
    BY <1>8 DEF Crash, Boot, BootInert, Fresh, Usable, Live, Renamed, Sweeping
  <2>2. QED
    BY <2>1, PlainVouched
<1>9. ASSUME NEW id \in Ids, NEW part \in {"target", "draft", "meta"}, Damage(id, part)
      PROVE  Vouched'
  BY <1>9 DEF Damage, IInv, TypeOK
<1>10. QED
  BY <1>2, <1>3, <1>4, <1>5, <1>6, <1>7, <1>8, <1>9
     DEF Next, InProgress, SaveProgress, UpdateStep, Arrival

\* A hit counted by a save leaves an entry the next boot adopts, unless a
\* second call fails.
LEMMA TouchHolds ==
    ASSUME IInv, SInv, Vouched, MaxFaults <= 1, NEW id \in Ids, TouchHit(id)
    PROVE  Holds(id)
<1> DEFINE t == Touched(index[id])
<1>1. /\ id \in Usable /\ id \in Live /\ index[id] \in Entry /\ disk[id] \in Directory
      /\ disk[id] # NoDir /\ RewriteMeta(id, t) /\ conf' = conf /\ PairOk(id)
      /\ index[id].drafter = job.drafter /\ t \in Entry
      /\ conf.stateful => index[id].tokens = job.tokens
  BY TouchedIndex, Nothing
     DEF TouchHit, CanTouch, SameDrafter, Usable, Live, IInv, TypeOK, OnDisk
<1>2. Prefix(job.tokens, index[id].tokens)
  <2>1. CASE conf.stateful
    <3>1. index[id].tokens = job.tokens /\ job.tokens \in Seq(Nat)
      BY <1>1, <2>1, PersistLibraryAssumption DEF Entry
    <3>2. QED
      BY <3>1 DEF Prefix
  <2>2. CASE ~conf.stateful
    BY <2>2 DEF TouchHit, CanTouch
  <2>3. QED
    BY <2>1, <2>2
<1>3. CASE Fault
  <2>1. faults = 0 /\ disk' = disk
    <3>1. MaxFaults \in Nat /\ faults \in Nat
      BY PersistLibraryAssumption DEF IInv, TypeOK
    <3>2. faults = 0
      BY <1>3, <3>1 DEF Fault
    <3>3. ~NoFault
      BY <1>3, <3>1 DEF Fault, NoFault, budgets
    <3>4. QED
      BY <1>1, <3>2, <3>3 DEF RewriteMeta
  <2>2. Complete(disk[id])
    BY <1>1, <2>1 DEF Vouched
  <2>3. Describes(disk[id].meta, index[id])
    BY <1>1, <2>2 DEF SInv, Sidecar, Complete
  <2>4. QED
    BY <1>1, <1>2, <2>1, <2>2, <2>3 DEF Holds, Adoptable, Complete, Describes
<1>4. CASE ~Fault
  <2>1. disk' = [disk EXCEPT ![id].meta = MetaOf(t)]
    BY <1>1, <1>4 DEF RewriteMeta
  <2>2. MetaOf(t) \in Meta
    BY <1>1, MetaType DEF IInv
  <2>3. /\ MetaOf(t).main = index[id].main /\ MetaOf(t).drft = index[id].drft
        /\ MetaOf(t).fp = conf.fp /\ MetaOf(t).drafter = index[id].drafter
        /\ MetaOf(t).tokens = index[id].tokens
    BY <1>1 DEF MetaOf, Touched, Entry
  <2> HIDE DEF t
  <2>4. /\ disk'[id] \in Directory /\ disk'[id].meta = MetaOf(t)
        /\ disk'[id].target = disk[id].target /\ disk'[id].draft = disk[id].draft
    BY <1>1, <2>1, <2>2 DEF IInv, TypeOK, Directory
  <2>5. /\ SizeExact(disk[id].target, index[id].main)
        /\ SizeExact(disk[id].draft, index[id].drft)
    <3>1. SizeExact(disk[id].target, index[id].main)
      BY <1>1 DEF PairOk
    <3>2. CASE index[id].drft # NoFile
      BY <1>1, <3>2 DEF PairOk
    <3>3. CASE index[id].drft = NoFile
      <4>1. disk[id].draft = NoFile
        BY <1>1, <3>3 DEF SInv, Sidecar
      <4>2. QED
        BY <3>1, <3>3, <4>1 DEF SizeExact
    <3>4. QED
      BY <3>1, <3>2, <3>3
  <2>6. Adoptable(id)'
    BY <1>1, <2>2, <2>3, <2>4, <2>5, Nothing DEF Adoptable, Complete
  <2>7. QED
    BY <1>1, <1>2, <2>3, <2>4, <2>6 DEF Holds
<1>5. QED
  BY <1>3, <1>4

\* The entry a save committed is there when the save returns.
LEMMA CommittedHolds ==
    ASSUME IInv, MInv, Vouched, SaveDone, NEW id, id = job.id
    PROVE  Holds(id) /\ id \in Ids
<1>1. /\ Adoptable(id) /\ disk[id].meta.drafter = job.drafter
      /\ disk[id].meta.tokens = job.tokens
  BY DEF SaveDone, Vouched, Sweeping
<1>2. id \in Ids /\ job.tokens \in Seq(Nat)
  BY PersistLibraryAssumption
     DEF SaveDone, MInv, Committed, Sweeping, Live, IInv, TypeOK, InHand, SaveSteps, Job
<1>3. UNCHANGED <<disk, conf>>
  BY DEF SaveDone
<1>4. Adoptable(id)'
  BY <1>1, <1>3 DEF Adoptable, Complete
<1>5. Prefix(job.tokens, job.tokens)
  BY <1>2 DEF Prefix
<1>6. QED
  BY <1>1, <1>2, <1>3, <1>4, <1>5 DEF Holds

\* When save_disk returns true the prompt is in an entry that the next boot of
\* this configuration adopts: no sweep after the commit takes it, and a touch
\* vouches only for a complete entry, as long as no file is damaged, boots
\* can read their directory and at most one call fails.
THEOREM SavesAreAdoptable ==
    ASSUME ScanMayFail = FALSE, MaxDamage = 0, MaxFaults <= 1
    PROVE  Spec => SavedIsAdoptable
<1>1. Init => Vouched
  BY DEF Init, Vouched, Renamed, Sweeping, Usable, Live
<1>2. IInv /\ SInv /\ Vouched /\ [Next]_vars => Vouched'
  BY NextVouched
<1>3. IInv /\ SInv /\ MInv /\ Vouched /\ [Next]_vars =>
        [result = "pending" /\ result' = "saved" => \E id \in Ids : Holds(id)]_vars
  <2>1. SUFFICES ASSUME IInv, SInv, MInv, Vouched, Next,
                        result = "pending", result' = "saved"
                 PROVE  \E id \in Ids : Holds(id)
    OBVIOUS
  <2>2. SaveDone \/ \E id \in Ids : TouchHit(id)
    BY <2>1 DEF Next, InProgress, BootStep, SaveProgress, UpdateStep, Arrival,
         Scanned, ScanDiscard, ScanOrphan, ScanAdopt, ScanDone, BootEvict, BootEvictDone,
         BootGc, BootDone, TouchReject, SaveSkip, SaveAlloc, SaveWrite,
         RenameTarget, RenameDraft, CommitMeta, SyncDir, DropUncommitted, SaveStep,
         SaveFail, Supersede, Obsolete, Reclaim,
         Sweep, SupersedeDone, ObsoleteDone, SweepDone, UpdateEvict, UpdateDone,
         AcceptLoad, RejectLoad, Boot, BootInert, Fresh, SaveBegin, LoadOk, LoadReject,
         UpdateBegin, Crash, Tick, Damage, disposable
  <2>3. CASE \E id \in Ids : TouchHit(id)
    BY <2>1, <2>3, TouchHolds
  <2>4. CASE SaveDone
    <3>1. PICK id : id = job.id
      OBVIOUS
    <3>2. QED
      BY <2>1, <2>4, <3>1, CommittedHolds
  <2>5. QED
    BY <2>2, <2>3, <2>4
<1>4. QED
  BY <1>1, <1>2, <1>3, Inductive, StoreInvariant, MirrorInvariant, PTL
     DEF Spec, SavedIsAdoptable

-----------------------------------------------------------------------------
(* The park keeps an entry.                                                *)

\* A park is operated by one configuration, whose drafters serve each other's
\* entries.
ParkOfOne ==
    \A c \in Configs : c.park =>
        /\ \A d \in Configs : d.park => d = c
        /\ \A a, b \in c.drafters : TagCompatible(a, b)

\* An entry, or the sidecar of one, that configuration c saved.
OfServer(c, e) ==
    /\ e.spec = c.stateful /\ e.drafter \in c.drafters
    /\ (e.drafter \in c.drafting) = (e.drft # NoFile)

\* The payload files in directory d, if there, are those of e.
Files(d, e) == d.target \in {NoFile, e.main} /\ d.draft \in {NoFile, e.drft}

\* Undamaged directories hold what their sidecar and their entry say, and
\* those of a park are its configuration's.
Genuine(id) ==
    /\ disk[id] # NoDir /\ disk[id].meta # NoFile =>
          /\ Files(disk[id], disk[id].meta)
          /\ conf.park => disk[id].meta.fp = conf.fp /\ OfServer(conf, disk[id].meta)
    /\ id \in Live =>
          /\ Files(disk[id], index[id])
          /\ conf.park => OfServer(conf, index[id])
Whole == (\A id \in Ids : Genuine(id)) /\ (conf.park => orphans = {})

\* Nothing is added to the directory or changed in the entry.
Rests(id) ==
    /\ \/ disk'[id] \in {disk[id], NoDir}
       \/ disk[id] # NoDir /\ disk'[id] \in Leftovers(disk[id])
    /\ index'[id] # NoEntry =>
          /\ index[id] # NoEntry
          /\ index'[id].main = index[id].main /\ index'[id].drft = index[id].drft
          /\ index'[id].spec = index[id].spec /\ index'[id].drafter = index[id].drafter

LEMMA RestsGenuine ==
    ASSUME IInv, IInv', NEW id \in Ids, Genuine(id), Rests(id), conf'.park => conf' = conf
    PROVE  Genuine(id)'
<1>1. ASSUME disk'[id] # NoDir, disk'[id].meta # NoFile
      PROVE  /\ Files(disk'[id], disk'[id].meta)
             /\ conf'.park => disk'[id].meta.fp = conf'.fp /\ OfServer(conf', disk'[id].meta)
  <2>1. disk[id] # NoDir /\ disk'[id].meta = disk[id].meta /\ disk[id].meta # NoFile
    BY <1>1 DEF Rests, Leftovers
  <2>2. Files(disk'[id], disk[id].meta)
    BY <1>1, <2>1 DEF Rests, Leftovers, Genuine, Files
  <2>3. conf'.park => disk'[id].meta.fp = conf'.fp /\ OfServer(conf', disk'[id].meta)
    BY <2>1 DEF Genuine, OfServer
  <2>4. QED
    BY <2>1, <2>2, <2>3
<1>2. ASSUME id \in Live'
      PROVE  Files(disk'[id], index'[id]) /\ (conf'.park => OfServer(conf', index'[id]))
  <2>1. id \in Live /\ disk'[id] # NoDir
    BY <1>2 DEF Live, Rests, IInv, OnDisk
  <2>2. /\ index'[id].main = index[id].main /\ index'[id].drft = index[id].drft
        /\ index'[id].spec = index[id].spec /\ index'[id].drafter = index[id].drafter
    BY <1>2 DEF Live, Rests
  <2>3. Files(disk'[id], index[id])
    BY <2>1 DEF Rests, Leftovers, Genuine, Files
  <2>4. conf'.park => OfServer(conf', index'[id])
    BY <2>1, <2>2 DEF Genuine, OfServer
  <2>5. QED
    BY <2>2, <2>3, <2>4 DEF Files
<1>3. QED
  BY <1>1, <1>2 DEF Genuine, Files

\* Where every directory rests.
LEMMA QuietWhole ==
    ASSUME IInv, IInv', Whole, \A id \in Ids : Rests(id), conf'.park => conf' = conf,
           orphans' \subseteq orphans
    PROVE  Whole'
BY RestsGenuine DEF Whole

LEMMA SameRests ==
    ASSUME disk' = disk, index' = index \/ index' = [id \in Ids |-> NoEntry], NEW id \in Ids
    PROVE  Rests(id)
BY DEF Rests

LEMMA RemovalRests ==
    ASSUME IInv, NEW id \in Ids, disk[id] # NoDir, index' = index, NEW j \in Ids,
           \/ disk' = [disk EXCEPT ![id] = NoDir]
           \/ \E left \in Leftovers(disk[id]) : disk' = [disk EXCEPT ![id] = left]
    PROVE  Rests(j)
BY DEF Rests, IInv, TypeOK

LEMMA EraseRests ==
    ASSUME IInv, NEW id \in Live, EraseOk(id) \/ EraseFail(id), NEW j \in Ids
    PROVE  Rests(j)
<1>1. /\ id \in Ids /\ disk[id] # NoDir /\ index[id] \in Entry /\ index[id] # NoEntry
      /\ disk \in [Ids -> Directory \cup {NoDir}] /\ index \in [Ids -> Entry \cup {NoEntry}]
  BY DEF Live, IInv, OnDisk, TypeOK
<1>2. CASE EraseOk(id)
  BY <1>1, <1>2 DEF EraseOk, Rests
<1>3. CASE EraseFail(id)
  <2>1. index' = [index EXCEPT ![id] = [index[id] EXCEPT !.usable = FALSE]]
    BY <1>3 DEF EraseFail
  <2>2. \E left \in Leftovers(disk[id]) : disk' = [disk EXCEPT ![id] = left]
    BY <1>3 DEF EraseFail
  <2> DEFINE q == [index[id] EXCEPT !.usable = FALSE]
  <2>3. /\ q.main = index[id].main /\ q.drft = index[id].drft
        /\ q.spec = index[id].spec /\ q.drafter = index[id].drafter
    BY <1>1 DEF Entry
  <2>4. index'[id] = q /\ (j # id => index'[j] = index[j])
    BY <1>1, <2>1
  <2> HIDE DEF q
  <2>5. disk'[id] \in Leftovers(disk[id]) /\ (j # id => disk'[j] = disk[j])
    BY <1>1, <2>2
  <2>6. QED
    BY <1>1, <2>3, <2>4, <2>5 DEF Rests
<1>4. QED
  BY <1>2, <1>3

\* A boot lists an entry as its sidecar tells it.
LEMMA AdoptWhole == ASSUME IInv, IInv', Whole, NEW id \in Ids, ScanAdopt(id) PROVE Whole'
<1> DEFINE m == disk[id].meta
           e == [tokens |-> m.tokens, drafter |-> m.drafter, spec |-> m.spec,
                 main |-> m.main, drft |-> m.drft, usable |-> TRUE,
                 hits |-> m.hits, lastUsed |-> m.lastUsed]
<1>1. /\ disk' = disk /\ conf' = conf /\ orphans' = orphans
      /\ index' = [index EXCEPT ![id] = e] /\ disk[id] # NoDir /\ m # NoFile
  BY DEF ScanAdopt, Complete
<1>2. index'[id] = e /\ \A j \in Ids \ {id} : index'[j] = index[j]
  BY <1>1 DEF IInv, TypeOK
<1>3. /\ e.main = m.main /\ e.drft = m.drft /\ e.spec = m.spec /\ e.drafter = m.drafter
  OBVIOUS
<1> HIDE DEF e
<1>4. Genuine(id)'
  BY <1>1, <1>2, <1>3 DEF Whole, Genuine, Files, OfServer
<1>5. ASSUME NEW j \in Ids \ {id} PROVE Genuine(j)'
  <2>1. Rests(j)
    BY <1>1, <1>2 DEF Rests
  <2>2. QED
    BY <1>1, <2>1, RestsGenuine DEF Whole
<1>6. QED
  BY <1>1, <1>4, <1>5 DEF Whole

\* A save fills a directory that has no sidecar and is not listed.
LEMMA FillWhole ==
    ASSUME IInv, IInv', SInv, Whole, SaveAlloc \/ RenameTarget \/ RenameDraft PROVE Whole'
<1>1. /\ conf' = conf /\ orphans' = orphans /\ index' = index
  BY DEF SaveAlloc, RenameTarget, RenameDraft, SaveStep, SaveFail, bootVars
<1>2. PICK id \in Ids : /\ id \notin Live /\ \A j \in Ids \ {id} : disk'[j] = disk[j]
                        /\ disk'[id] # NoDir => disk'[id].meta = NoFile
  <2>1. CASE SaveAlloc
    <3>1. nextId \in Ids /\ nextId \notin Live /\ disk[nextId] = NoDir
      BY <2>1, AllocFresh DEF SaveAlloc
    <3>2. disk' = disk \/ disk' = [disk EXCEPT ![nextId] = EmptyDir]
      BY <2>1, <3>1 DEF SaveAlloc
    <3>3. QED
      BY <3>1, <3>2 DEF EmptyDir, IInv, TypeOK
  <2>2. CASE RenameTarget \/ RenameDraft
    <3>1. pc \in Uncommitted \ {"sync"} /\ pc \in Uncommitted
      BY <2>2 DEF RenameTarget, RenameDraft, Uncommitted
    <3>2. /\ job.id \in Ids /\ job.id \notin Live /\ disk[job.id] \in Directory
          /\ disk[job.id].meta = NoFile
      BY <3>1, HeldType DEF SInv, Filled
    <3>3. \/ disk' = disk
          \/ \E f : disk' = [disk EXCEPT ![job.id] = [disk[job.id] EXCEPT !.target = f]]
          \/ \E f : disk' = [disk EXCEPT ![job.id] = [disk[job.id] EXCEPT !.draft = f]]
      BY <2>2 DEF RenameTarget, RenameDraft
    <3>4. disk'[job.id].meta = NoFile /\ \A j \in Ids \ {job.id} : disk'[j] = disk[j]
      <4>1. DOMAIN disk = Ids
        BY DEF IInv, TypeOK
      <4>2. \A f : /\ [disk[job.id] EXCEPT !.target = f].meta = NoFile
                   /\ [disk[job.id] EXCEPT !.draft = f].meta = NoFile
        BY <3>2 DEF Directory
      <4>3. ASSUME NEW d, d.meta = NoFile, disk' = [disk EXCEPT ![job.id] = d]
            PROVE  disk'[job.id].meta = NoFile /\ \A j \in Ids \ {job.id} : disk'[j] = disk[j]
        BY <3>2, <4>1, <4>3
      <4>4. QED
        BY <3>2, <3>3, <4>2, <4>3
    <3>5. QED
      BY <3>2, <3>4
  <2>3. QED
    BY <2>1, <2>2
<1>3. Genuine(id)'
  BY <1>1, <1>2 DEF Genuine, Live
<1>4. ASSUME NEW j \in Ids \ {id} PROVE Genuine(j)'
  <2>1. Rests(j)
    BY <1>1, <1>2 DEF Rests
  <2>2. QED
    BY <1>1, <2>1, RestsGenuine DEF Whole
<1>5. QED
  BY <1>1, <1>3, <1>4 DEF Whole

\* The removal of a directory whose commit failed.
LEMMA DropWhole ==
    ASSUME IInv, IInv', Whole, pc \in Uncommitted, DropUncommitted PROVE Whole'
<1>1. job.id \in Ids /\ disk[job.id] # NoDir
  BY HeldType, Nothing
<1>2. conf' = conf /\ orphans' = orphans /\ index' = index
  BY DEF DropUncommitted, SaveFail, bootVars
<1>3. \A j \in Ids : Rests(j)
  BY <1>1, <1>2, RemovalRests DEF DropUncommitted
<1>4. QED
  BY <1>2, <1>3, QuietWhole

\* The entry of a save is its own configuration's.
LEMMA NewOfServer ==
    ASSUME IInv, VInv, pc \in Uncommitted PROVE OfServer(conf, NewEntry)
<1>1. job # NoJob /\ job.drafter \in conf.drafters
  BY DEF VInv, SavedBefore, IInv, InHand, SaveSteps, Uncommitted
<1>2. DraftPayload(job.tokens, job.drafter) # NoFile <=> job.drafter \in conf.drafting
  <2>1. job.tokens \in Prompts /\ job.drafter \in Drafters
    BY HeldType DEF Job
  <2>2. [tokens |-> job.tokens, drafter |-> job.drafter, intact |-> TRUE] \in Payload
    BY <2>1 DEF Payload
  <2>3. QED
    BY <2>2, Nothing DEF DraftPayload
<1>3. QED
  BY <1>1, <1>2 DEF OfServer, NewEntry

\* A commit writes the sidecar of the files it has renamed.
LEMMA CommitWhole ==
    ASSUME IInv, IInv', SInv, VInv, Vouched, Whole, CommitMeta PROVE Whole'
<1>1. pc = "meta" /\ pc \in Uncommitted
  BY DEF CommitMeta, Uncommitted
<1>2. CASE DropUncommitted
  BY <1>1, <1>2, DropWhole
<1>3. CASE disk' = [disk EXCEPT ![job.id].meta = MetaOf(NewEntry)] /\ SaveStep("sync")
  <2>0. PICK id \in Ids : id = job.id
    BY <1>1, HeldType
  <2>1. /\ id \notin Live /\ disk[id] \in Directory
        /\ disk[id].target = TargetPayload(job.tokens)
        /\ disk[id].draft = DraftPayload(job.tokens, job.drafter)
    BY <1>1, <2>0, HeldType DEF Vouched, Renamed
  <2>2. conf' = conf /\ orphans' = orphans /\ index' = index
    BY <1>3 DEF SaveStep, bootVars
  <2>3. /\ disk'[id].meta = MetaOf(NewEntry)
        /\ disk'[id].target = disk[id].target
        /\ disk'[id].draft = disk[id].draft
        /\ \A j \in Ids \ {id} : disk'[j] = disk[j]
    BY <1>3, <2>0, <2>1 DEF IInv, TypeOK, Directory
  <2>4. /\ MetaOf(NewEntry).main = TargetPayload(job.tokens)
        /\ MetaOf(NewEntry).drft = DraftPayload(job.tokens, job.drafter)
        /\ MetaOf(NewEntry).fp = conf.fp
        /\ OfServer(conf, MetaOf(NewEntry))
    BY <1>1, NewOfServer DEF MetaOf, NewEntry, OfServer
  <2>5. Genuine(id)'
    <3>1. id \notin Live'
      BY <2>1, <2>2 DEF Live
    <3>2. Files(disk'[id], disk'[id].meta)
      BY <2>1, <2>3, <2>4 DEF Files
    <3>3. QED
      BY <2>2, <2>3, <2>4, <3>1, <3>2 DEF Genuine
  <2>6. ASSUME NEW j \in Ids \ {id} PROVE Genuine(j)'
    <3>1. Rests(j)
      BY <2>2, <2>3 DEF Rests
    <3>2. QED
      BY <2>2, <3>1, RestsGenuine DEF Whole
  <2>7. QED
    BY <2>2, <2>5, <2>6 DEF Whole
<1>4. QED
  BY <1>2, <1>3 DEF CommitMeta

\* The entry is listed as it was written.
LEMMA SyncWhole ==
    ASSUME IInv, IInv', SInv, VInv, Vouched, Whole, SyncDir PROVE Whole'
<1>1. pc = "sync" /\ pc \in Uncommitted
  BY DEF SyncDir, Uncommitted
<1>2. CASE DropUncommitted
  BY <1>1, <1>2, DropWhole
<1>3. CASE ~DropUncommitted
  <2>0. PICK id \in Ids : id = job.id
    BY <1>1, HeldType
  <2>1. /\ disk[id] # NoDir
        /\ disk[id].target = TargetPayload(job.tokens)
        /\ disk[id].draft = DraftPayload(job.tokens, job.drafter)
    BY <1>1, <2>0, HeldType, Nothing DEF Vouched, Renamed
  <2>2. /\ conf' = conf /\ orphans' = orphans /\ disk' = disk
        /\ index' = [index EXCEPT ![id] = NewEntry]
    BY <1>3, <2>0 DEF SyncDir, bootVars
  <2>3. index'[id] = NewEntry /\ \A j \in Ids \ {id} : index'[j] = index[j]
    BY <2>1, <2>2 DEF IInv, TypeOK
  <2>4. Files(disk'[id], index'[id]) /\ OfServer(conf', index'[id])
    BY <1>1, <2>1, <2>2, <2>3, NewOfServer DEF Files, NewEntry
  <2>5. Genuine(id)'
    BY <2>1, <2>2, <2>4 DEF Whole, Genuine
  <2>6. ASSUME NEW j \in Ids \ {id} PROVE Genuine(j)'
    <3>1. Rests(j)
      BY <2>2, <2>3 DEF Rests
    <3>2. QED
      BY <2>2, <3>1, RestsGenuine DEF Whole
  <2>7. QED
    BY <2>2, <2>5, <2>6 DEF Whole
<1>4. QED
  BY <1>2, <1>3

\* A hit rewrites the sidecar from the entry.
LEMMA TouchWhole ==
    ASSUME IInv, IInv', Whole, AcceptLoad \/ \E id \in Ids : TouchHit(id) PROVE Whole'
<1>1. PICK id \in Live :
        /\ index' = [index EXCEPT ![id] = Touched(@)]
        /\ RewriteMeta(id, Touched(index[id])) /\ conf' = conf /\ orphans' = orphans
  BY DEF AcceptLoad, TouchHit, CanTouch, Usable, IInv, InHand, bootVars
<1> DEFINE t == Touched(index[id])
<1>2. /\ id \in Ids /\ index[id] \in Entry /\ disk[id] \in Directory /\ disk[id] # NoDir
      /\ disk' = disk \/ disk' = [disk EXCEPT ![id].meta = MetaOf(t)]
      /\ t.main = index[id].main /\ t.drft = index[id].drft
      /\ t.spec = index[id].spec /\ t.drafter = index[id].drafter
  BY <1>1, Nothing DEF RewriteMeta, IInv, TypeOK, Live, OnDisk, Touched, Entry
<1>3. index'[id] = t /\ \A j \in Ids \ {id} : index'[j] = index[j] /\ disk'[j] = disk[j]
  BY <1>1, <1>2 DEF IInv, TypeOK
<1>4. /\ MetaOf(t).main = t.main /\ MetaOf(t).drft = t.drft
      /\ MetaOf(t).spec = t.spec /\ MetaOf(t).drafter = t.drafter /\ MetaOf(t).fp = conf.fp
  BY DEF MetaOf
<1> HIDE DEF t
<1>5. /\ disk'[id].target = disk[id].target /\ disk'[id].draft = disk[id].draft
      /\ disk'[id].meta \in {disk[id].meta, MetaOf(t)}
  BY <1>2 DEF IInv, TypeOK, Directory
<1>6. /\ Files(disk[id], index[id]) /\ (conf.park => OfServer(conf, index[id]))
      /\ disk[id].meta # NoFile =>
            /\ Files(disk[id], disk[id].meta)
            /\ conf.park => disk[id].meta.fp = conf.fp /\ OfServer(conf, disk[id].meta)
  BY <1>1, <1>2 DEF Whole, Genuine
<1>7. Genuine(id)'
  <2>1. Files(disk'[id], index'[id]) /\ (conf'.park => OfServer(conf', index'[id]))
    BY <1>1, <1>2, <1>3, <1>5, <1>6 DEF Files, OfServer
  <2>2. CASE disk'[id].meta = MetaOf(t)
    <3>1. Files(disk'[id], disk'[id].meta)
      BY <1>2, <1>4, <1>5, <1>6, <2>2 DEF Files
    <3>2. conf'.park => disk'[id].meta.fp = conf'.fp /\ OfServer(conf', disk'[id].meta)
      BY <1>1, <1>2, <1>4, <1>6, <2>2 DEF OfServer
    <3>3. QED
      BY <2>1, <3>1, <3>2 DEF Genuine
  <2>3. CASE disk'[id].meta = disk[id].meta
    <3>1. disk'[id].meta # NoFile => Files(disk'[id], disk'[id].meta)
      BY <1>5, <1>6, <2>3 DEF Files
    <3>2. QED
      BY <1>1, <1>6, <2>1, <2>3, <3>1 DEF Genuine
  <2>4. QED
    BY <1>5, <2>2, <2>3
<1>8. ASSUME NEW j \in Ids \ {id} PROVE Genuine(j)'
  <2>1. Rests(j)
    BY <1>3 DEF Rests
  <2>2. QED
    BY <1>1, <2>1, RestsGenuine DEF Whole
<1>9. QED
  BY <1>1, <1>7, <1>8 DEF Whole

\* A park's configuration stays.
LEMMA ParkConf ==
    ASSUME ParkOfOne, IInv, NEW c \in Configs, Boot(c) \/ BootInert(c)
    PROVE  conf' = c /\ c.park = conf.park /\ (conf'.park => conf' = conf)
BY DEF ParkOfOne, IInv, TypeOK, Boot, BootInert, Fresh

LEMMA BootWhole == ASSUME IInv, IInv', SInv, Whole, BootStep PROVE Whole'
<1>1. ASSUME NEW id \in Ids, ScanDiscard(id) PROVE Whole'
  <2>1. disk[id] # NoDir /\ index' = index /\ conf' = conf /\ orphans' = orphans
    BY <1>1 DEF ScanDiscard, Scanned, IInv, OnDisk
  <2>2. \A j \in Ids : Rests(j)
    BY <1>1, <2>1, RemovalRests DEF ScanDiscard
  <2>3. QED
    BY <2>1, <2>2, QuietWhole
<1>2. ASSUME NEW id \in Ids, ScanOrphan(id) PROVE Whole'
  <2>1. disk[id] # NoDir /\ index' = index /\ conf' = conf /\ disk' = disk
    BY <1>2 DEF ScanOrphan, Scanned, IInv, OnDisk
  <2>2. ~conf.park
    BY <1>2, <2>1 DEF ScanOrphan, NotOurs, Whole, Genuine
  <2>3. \A j \in Ids : Genuine(j)'
    BY <2>1, SameRests, RestsGenuine DEF Whole
  <2>4. QED
    BY <2>1, <2>2, <2>3 DEF Whole
<1>3. ASSUME NEW id \in Ids, ScanAdopt(id) PROVE Whole'
  BY <1>3, AdoptWhole
<1>4. CASE ScanDone \/ BootEvictDone \/ BootDone
  <2>1. disk' = disk /\ index' = index /\ conf' = conf /\ orphans' \subseteq orphans
    BY <1>4 DEF ScanDone, BootEvictDone, BootDone, disposable
  <2>2. QED
    BY <2>1, SameRests, QuietWhole
<1>5. ASSUME NEW id \in Ids, BootEvict(id) PROVE Whole'
  <2>1. id \in Live /\ disk[id] # NoDir /\ conf' = conf /\ orphans' = orphans
    BY <1>5 DEF BootEvict, IsVictim, IInv, OnDisk, bootVars
  <2>2. CASE EraseOk(id)
    BY <2>1, <2>2, EraseRests, QuietWhole
  <2>3. CASE ~EraseOk(id)
    <3>1. index' = index /\ \E left \in Leftovers(disk[id]) : disk' = [disk EXCEPT ![id] = left]
      BY <1>5, <2>3 DEF BootEvict
    <3>2. \A j \in Ids : Rests(j)
      BY <2>1, <3>1, RemovalRests
    <3>3. QED
      BY <2>1, <3>2, QuietWhole
  <2>4. QED
    BY <2>2, <2>3
<1>6. ASSUME NEW o \in orphans, BootGc(o) PROVE Whole'
  <2>1. o.id \in Ids /\ disk[o.id] # NoDir
    BY DEF IInv, TypeOK, OnDisk
  <2>2. index' = index /\ conf' = conf /\ orphans' \subseteq orphans
    BY <1>6 DEF BootGc
  <2>3. \A j \in Ids : Rests(j)
    BY <1>6, <2>1, <2>2, RemovalRests DEF BootGc
  <2>4. QED
    BY <2>2, <2>3, QuietWhole
<1>7. QED
  BY <1>1, <1>2, <1>3, <1>4, <1>5, <1>6 DEF BootStep

LEMMA CrashWhole == ASSUME IInv, IInv', SInv, Whole, Crash PROVE Whole'
<1>1. conf' = conf /\ orphans' = {} /\ index' = [id \in Ids |-> NoEntry]
  BY DEF Crash, Fresh
<1>2. CASE disk' = disk
  BY <1>1, <1>2, SameRests, QuietWhole
<1>3. CASE disk' # disk
  <2>1. pc \in Uncommitted
    BY <1>3 DEF Crash, Uncommitted
  <2>2. job.before = EmptyDir /\ disk[job.id] \in Directory /\ job.id \in Ids
    BY <2>1, HeldType DEF SInv, Filled
  <2>3. PICK t \in {disk[job.id].target, job.before.target},
             r \in {disk[job.id].draft, job.before.draft},
             m \in {disk[job.id].meta, job.before.meta} :
             disk' = [disk EXCEPT ![job.id] = [target |-> t, draft |-> r, meta |-> m]]
    BY <1>3 DEF Crash
  <2>4. [target |-> t, draft |-> r, meta |-> m] \in Leftovers(disk[job.id])
    BY <2>2 DEF Leftovers, EmptyDir
  <2>5. disk[job.id] # NoDir
    BY <2>2, Nothing
  <2>6. ASSUME NEW j \in Ids PROVE Rests(j)
    BY <1>1, <2>2, <2>3, <2>4, <2>5 DEF Rests, IInv, TypeOK
  <2>7. QED
    BY <1>1, <2>6, QuietWhole
<1>4. QED
  BY <1>2, <1>3

LEMMA NextWhole ==
    ASSUME ParkOfOne, IInv, IInv', SInv, VInv, Vouched, Whole, damage' = 0, [Next]_vars
    PROVE  Whole'
<1>1. CASE BootStep
  BY <1>1, BootWhole
<1>2. CASE \/ SaveAlloc \/ RenameTarget \/ RenameDraft \/ CommitMeta \/ SyncDir
           \/ AcceptLoad \/ \E id \in Ids : TouchHit(id)
  BY <1>2, FillWhole, CommitWhole, SyncWhole, TouchWhole
<1>3. CASE \/ RejectLoad
           \/ \E id \in Ids : \/ TouchReject(id) \/ Supersede(id) \/ Obsolete(id)
                              \/ Reclaim(id) \/ UpdateEvict(id)
                              \/ \E d \in Drafters : LoadReject(id, d)
  <2>1. PICK id \in Live : EraseOk(id) \/ EraseFail(id)
    BY <1>3 DEF RejectLoad, TouchReject, CanTouch, Usable, Supersede, Obsolete,
                IsObsolete, Reclaim, IsVictim, Sweep, UpdateEvict, LoadReject, Candidate,
                IInv, InHand
  <2>2. conf' = conf /\ orphans' = orphans
    BY <1>3 DEF RejectLoad, TouchReject, Supersede, Obsolete, Reclaim, Sweep,
                UpdateEvict, LoadReject, bootVars
  <2>3. QED
    BY <2>1, <2>2, EraseRests, QuietWhole
<1>4. CASE \/ SaveWrite \/ SaveSkip \/ SaveDone \/ UpdateBegin \/ UpdateDone
           \/ SupersedeDone \/ ObsoleteDone \/ Tick \/ UNCHANGED vars
           \/ \E p \in Prompts, d \in Drafters : SaveBegin(p, d)
           \/ \E id \in Ids, d \in Drafters : LoadOk(id, d)
  <2>1. disk' = disk /\ index' = index /\ conf' = conf /\ orphans' = orphans
    BY <1>4 DEF SaveWrite, SaveStep, SaveFail, SaveSkip, SaveDone, UpdateBegin, UpdateDone,
         SupersedeDone, ObsoleteDone, SweepDone, SaveBegin, LoadOk, Tick, vars, disposable,
         bootVars
  <2>2. QED
    BY <2>1, SameRests, QuietWhole
<1>5. ASSUME NEW c \in Configs, Boot(c) \/ BootInert(c) PROVE Whole'
  <2>1. disk' = disk /\ index' = [id \in Ids |-> NoEntry] /\ orphans' = {}
    BY <1>5 DEF Boot, BootInert, Fresh
  <2>2. QED
    BY <1>5, <2>1, ParkConf, SameRests, QuietWhole
<1>6. CASE Crash
  BY <1>6, CrashWhole
<1>7. ASSUME NEW id \in Ids, NEW part \in {"target", "draft", "meta"}, Damage(id, part)
      PROVE  Whole'
  BY <1>7 DEF Damage, IInv, TypeOK
<1>8. QED
  BY <1>1, <1>2, <1>3, <1>4, <1>5, <1>6, <1>7
     DEF Next, InProgress, SaveProgress, UpdateStep, Arrival

\* Damage is counted.
LEMMA DamageGrows == ASSUME IInv, [Next]_vars, damage' = 0 PROVE damage = 0
<1>1. damage \in Nat
  BY DEF IInv, TypeOK
<1>2. CASE NoFault \/ Fault \/ damage' = damage
  BY <1>2 DEF NoFault, Fault, budgets
<1>3. CASE BootStep
  BY <1>2, <1>3 DEF BootStep, ScanDiscard, ScanOrphan, ScanAdopt, ScanDone, BootEvict,
     EraseOk, BootEvictDone, BootGc, BootDone
<1>4. CASE SaveProgress
  BY <1>2, <1>4 DEF SaveProgress, TouchReject, TouchHit, RewriteMeta, SaveSkip, SaveAlloc,
     SaveWrite, RenameTarget, RenameDraft, CommitMeta, SyncDir, DropUncommitted, SaveStep,
     SaveFail, Supersede, Obsolete, Reclaim, Sweep, EraseOk, EraseFail, SupersedeDone,
     ObsoleteDone, SweepDone, SaveDone
<1>5. CASE UpdateStep \/ AcceptLoad \/ RejectLoad
  BY <1>2, <1>5 DEF UpdateStep, UpdateEvict, EraseOk, EraseFail, UpdateDone, SweepDone,
     AcceptLoad, RewriteMeta, RejectLoad
<1>6. CASE \E id \in Ids, part \in {"target", "draft", "meta"} : Damage(id, part)
  <2>1. damage' = damage + 1
    BY <1>6 DEF Damage
  <2>2. QED
    BY <1>1, <2>1
<1>7. CASE \/ \E c \in Configs : Boot(c) \/ BootInert(c)
           \/ Crash \/ Tick \/ UNCHANGED vars
  BY <1>2, <1>7 DEF Boot, BootInert, Crash, Tick, vars, budgets
<1>8. CASE Arrival
  <2>1. CASE UpdateBegin \/ \E p \in Prompts, d \in Drafters : SaveBegin(p, d)
    BY <1>2, <2>1 DEF SaveBegin, UpdateBegin, SweepDone
  <2>2. CASE \E id \in Ids, d \in Drafters : LoadOk(id, d) \/ LoadReject(id, d)
    BY <1>2, <2>2 DEF LoadOk, LoadReject, EraseOk, EraseFail
  <2>3. QED
    BY <1>6, <1>7, <1>8, <2>1, <2>2 DEF Arrival
<1>9. QED
  BY <1>3, <1>4, <1>5, <1>7, <1>8 DEF Next, InProgress

\* While nothing is damaged.
Undamaged == damage = 0 => Vouched /\ Whole

LEMMA NextUndamaged ==
    ASSUME ParkOfOne, IInv, IInv', SInv, VInv, Undamaged, [Next]_vars PROVE Undamaged'
<1>1. SUFFICES ASSUME damage' = 0 PROVE Vouched' /\ Whole'
  BY DEF Undamaged
<1>2. Vouched /\ Whole
  BY <1>1, DamageGrows DEF Undamaged
<1>3. QED
  BY <1>1, <1>2, NextVouched, NextWhole

\* What is listed and complete passes the checks of a touch and of a load.
LEMMA HeldServes ==
    ASSUME ParkOfOne, IInv, SInv, VInv, Whole, conf.park,
           NEW id \in Usable, Complete(disk[id])
    PROVE  /\ pc = "touch" => PairOk(id)
           /\ \A d \in conf.drafters : Servable(id, d)
<1> DEFINE e == index[id]
<1>1. /\ id \in Ids /\ id \in Live /\ e \in Entry /\ disk[id] \in Directory /\ disk[id] # NoDir
      /\ e.main # NoFile /\ OfServer(conf, e) /\ Files(disk[id], e)
  BY Nothing DEF Usable, Live, IInv, TypeOK, Entry, OnDisk, Whole, Genuine
<1>2. Describes(disk[id].meta, e)
  BY <1>1 DEF Complete, SInv, Sidecar
<1>3. SizeExact(disk[id].target, e.main) /\ SizeExact(disk[id].draft, e.drft)
  BY <1>2 DEF Complete, Describes
<1>4. Intact(id)
  BY <1>1, <1>3 DEF Intact, Files, SizeExact
<1>5. conf \in Configs /\ conf.drafting \in {{}, conf.drafters}
  BY PersistLibraryAssumption DEF IInv, TypeOK
<1>6. ASSUME NEW d \in conf.drafters PROVE Servable(id, d)
  <2>1. TagCompatible(e.drafter, d)
    BY <1>1, <1>5 DEF ParkOfOne, OfServer
  <2>2. QED
    BY <1>1, <1>4, <2>1, IntactServable DEF OfServer
<1>7. ASSUME pc = "touch" PROVE PairOk(id)
  <2>1. job.drafter \in conf.drafters
    BY <1>7 DEF VInv, SavedBefore, IInv, InHand, SaveSteps
  <2>2. (job.drafter \in conf.drafting) = (e.drft # NoFile)
    BY <1>1, <1>5, <2>1 DEF OfServer
  <2>3. QED
    BY <1>1, <1>3, <2>2 DEF PairOk, OfServer
<1>8. QED
  BY <1>6, <1>7

\* A hit leaves a complete directory complete.
LEMMA TouchComplete ==
    ASSUME IInv, SInv, NEW id \in Live, Complete(disk[id]),
           disk' = [disk EXCEPT ![id].meta = MetaOf(Touched(index[id]))]
    PROVE  Complete(disk'[id])
<1> DEFINE t == Touched(index[id])
<1>1. /\ id \in Ids /\ index[id] \in Entry /\ disk[id] \in Directory /\ disk[id] # NoDir
      /\ t \in Entry /\ t.main = index[id].main /\ t.drft = index[id].drft
  BY Nothing, TouchedType DEF IInv, TypeOK, Live, OnDisk, Touched, Entry
<1>2. MetaOf(t) \in Meta /\ MetaOf(t).main = index[id].main /\ MetaOf(t).drft = index[id].drft
  BY <1>1, MetaType DEF IInv, MetaOf
<1> HIDE DEF t
<1>3. /\ disk'[id] \in Directory /\ disk'[id].meta = MetaOf(t)
      /\ disk'[id].target = disk[id].target /\ disk'[id].draft = disk[id].draft
  <2>1. disk' = [disk EXCEPT ![id].meta = MetaOf(t)]
    BY DEF t
  <2>2. QED
    BY <1>1, <1>2, <2>1 DEF IInv, TypeOK, Directory
<1>4. Describes(disk[id].meta, index[id])
  BY <1>1 DEF SInv, Sidecar, Complete
<1>5. QED
  BY <1>2, <1>3, <1>4, Nothing DEF Complete, Describes

\* The last complete directory stays, or another one does.
LEMMA HeldStays ==
    ASSUME ParkOfOne, IInv, SInv, VInv, Vouched, Whole, conf.park, Next, damage' = 0,
           pc \notin {"evict", "update", "restored"}, NEW h \in Ids, Held(h)
    PROVE  \E id \in Ids : Complete(disk'[id])
<1>1. Complete(disk[h]) /\ disk[h] # NoDir /\ disk[h].meta # NoFile
  BY DEF Held, Complete
<1> SUFFICES ASSUME disk'[h] # disk[h] PROVE \E id \in Ids : Complete(disk'[id])
  BY <1>1
<1>2. CASE BootStep
  <2>1. ASSUME NEW id \in Ids, ScanDiscard(id) PROVE FALSE
    <3>1. \A j \in Ids \ {id} : disk'[j] = disk[j]
      BY <2>1 DEF ScanDiscard, IInv, TypeOK
    <3>2. id = h
      BY <3>1
    <3>3. QED
      BY <1>1, <2>1, <3>2 DEF ScanDiscard
  <2>2. ASSUME NEW o \in orphans, BootGc(o) PROVE FALSE
    BY DEF Whole
  <2>3. QED
    BY <1>2, <2>1, <2>2 DEF BootStep, ScanOrphan, ScanAdopt, ScanDone, BootEvict,
         BootEvictDone, BootDone
<1>3. ASSUME NEW id \in Live, EraseOk(id) \/ EraseFail(id)
      PROVE  id = h
  <2>1. \A j \in Ids \ {id} : disk'[j] = disk[j]
    BY <1>3, EraseShrinks DEF Shrinks
  <2>2. QED
    BY <2>1
<1>4. ASSUME NEW id \in Ids, TouchReject(id) PROVE FALSE
  <2>1. id \in Usable /\ id \in Live /\ pc = "touch"
    BY <1>4 DEF TouchReject, CanTouch, Usable
  <2>2. id = h
    BY <1>3, <1>4, <2>1 DEF TouchReject
  <2>3. QED
    BY <1>1, <1>4, <2>1, <2>2, HeldServes DEF TouchReject
<1>5. ASSUME NEW id \in Ids, NEW d \in Drafters, LoadReject(id, d) PROVE FALSE
  <2>1. id \in Usable /\ id \in Live /\ d \in conf.drafters
    BY <1>5 DEF LoadReject, Candidate, Usable
  <2>2. id = h
    BY <1>3, <1>5, <2>1 DEF LoadReject
  <2>3. QED
    BY <1>1, <1>5, <2>1, <2>2, HeldServes DEF LoadReject
<1>6. ASSUME NEW id \in Ids, Supersede(id) \/ Obsolete(id) \/ Reclaim(id)
      PROVE  \E k \in Ids : Complete(disk'[k])
  <2>1. id \in Live \ {job.id} /\ pc \in Sweeping /\ (EraseOk(id) \/ EraseFail(id))
    BY <1>6 DEF Supersede, Obsolete, IsObsolete, Reclaim, IsVictim, Sweep, Sweeping
  <2>2. job.id \in Ids /\ Complete(disk[job.id])
    BY <2>1 DEF Vouched, Adoptable, IInv, InHand, Sweeping, SaveSteps
  <2>3. disk'[job.id] = disk[job.id]
    BY <2>1, <2>2, EraseShrinks DEF Shrinks
  <2>4. QED
    BY <2>2, <2>3
<1>7. ASSUME NEW id \in Ids, TouchHit(id) PROVE \E k \in Ids : Complete(disk'[k])
  <2>1. id \in Live /\ RewriteMeta(id, Touched(index[id]))
    BY <1>7 DEF TouchHit, CanTouch, Usable
  <2>2. disk' = [disk EXCEPT ![id].meta = MetaOf(Touched(index[id]))]
    BY <2>1 DEF RewriteMeta
  <2>3. id = h
    BY <2>2 DEF IInv, TypeOK
  <2>4. QED
    BY <1>1, <2>1, <2>2, <2>3, TouchComplete
<1>8. CASE SaveAlloc \/ RenameTarget \/ RenameDraft \/ CommitMeta \/ SyncDir
  <2>1. h \in Live
    BY <1>8 DEF Held, Operating, SaveAlloc, RenameTarget, RenameDraft, CommitMeta, SyncDir
  <2>2. CASE SaveAlloc
    <3>1. nextId \in Ids /\ nextId \notin Live
      BY <2>2, AllocFresh DEF SaveAlloc
    <3>2. \A j \in Ids \ {nextId} : disk'[j] = disk[j]
      BY <2>2, <3>1 DEF SaveAlloc, IInv, TypeOK
    <3>3. QED
      BY <2>1, <3>1, <3>2
  <2>3. CASE RenameTarget \/ RenameDraft \/ CommitMeta \/ SyncDir
    <3>1. pc \in Uncommitted
      BY <2>3 DEF RenameTarget, RenameDraft, CommitMeta, SyncDir, Uncommitted
    <3>2. job.id \in Ids /\ job.id \notin Live
      BY <3>1, HeldType
    <3>3. \A j \in Ids \ {job.id} : disk'[j] = disk[j]
      BY <2>3, <3>2 DEF RenameTarget, RenameDraft, CommitMeta, SyncDir, DropUncommitted,
           IInv, TypeOK
    <3>4. QED
      BY <2>1, <3>2, <3>3
  <2>4. QED
    BY <1>8, <2>2, <2>3
<1>9. CASE Crash
  <2>1. pc \in Uncommitted /\ job.id \in Ids /\ Shrinks(job.id)
    BY <1>9, CrashShrinks
  <2>2. job.id \notin Live /\ h \in Live
    BY <2>1, HeldType DEF Held, Operating, Uncommitted
  <2>3. QED
    BY <2>1, <2>2 DEF Shrinks
<1>10. ASSUME NEW id \in Ids, NEW part \in {"target", "draft", "meta"}, Damage(id, part)
       PROVE  FALSE
  BY <1>10 DEF Damage, IInv, TypeOK
<1>11. ~AcceptLoad /\ ~RejectLoad /\ \A id \in Ids : ~UpdateEvict(id)
  BY DEF AcceptLoad, RejectLoad, UpdateEvict
<1>12. CASE \/ SaveWrite \/ SaveSkip \/ SaveDone \/ UpdateBegin \/ UpdateDone
            \/ SupersedeDone \/ ObsoleteDone \/ Tick
            \/ \E c \in Configs : Boot(c) \/ BootInert(c)
            \/ \E p \in Prompts, d \in Drafters : SaveBegin(p, d)
            \/ \E id \in Ids, d \in Drafters : LoadOk(id, d)
  BY <1>12 DEF SaveWrite, SaveSkip, SaveDone, UpdateBegin, UpdateDone,
       SupersedeDone, ObsoleteDone, SweepDone, SaveBegin, LoadOk, Tick, Boot, BootInert
<1>13. QED
  BY <1>2, <1>4, <1>5, <1>6, <1>7, <1>8, <1>9, <1>10, <1>11, <1>12
     DEF Next, InProgress, SaveProgress, UpdateStep, Arrival

\* A park that holds a committed entry, listed while it operates, loses its
\* last one only to the budget, to a restore that the contexts refused or to
\* a damaged file, as long as boots can read their directory and the park is
\* operated by one configuration whose drafters serve each other's entries:
\* not in a crash or to a failing call anywhere in a save, not to its sweeps
\* and not to the checks of a touch or a load (persist_park_supersede).
THEOREM ParkKeepsOne ==
    ASSUME ScanMayFail = FALSE, ParkOfOne PROVE Spec => ParkNeverMissing
<1>1. Init => Undamaged
  <2>1. SUFFICES ASSUME Init PROVE Vouched /\ Whole
    BY DEF Undamaged
  <2>2. Live = {}
    BY <2>1 DEF Init, Live
  <2>3. QED
    BY <2>1, <2>2 DEF Init, Vouched, Renamed, Sweeping, Usable, Whole, Genuine
<1>2. IInv /\ IInv' /\ SInv /\ VInv /\ Undamaged /\ [Next]_vars => Undamaged'
  BY NextUndamaged
<1>3. IInv /\ SInv /\ VInv /\ Undamaged /\ [Next]_vars => [~LosesPark]_vars
  <2>1. SUFFICES ASSUME IInv, SInv, VInv, Undamaged, Next, LosesPark PROVE FALSE
    OBVIOUS
  <2>2. damage = 0
    BY <2>1, DamageGrows DEF LosesPark
  <2>3. PICK h \in Ids : Held(h)
    BY <2>1 DEF LosesPark
  <2>4. QED
    BY <2>1, <2>2, <2>3, HeldStays DEF LosesPark, Undamaged
<1>4. QED
  BY <1>1, <1>2, <1>3, Inductive, StoreInvariant, ServedInvariant, PTL
     DEF Spec, ParkNeverMissing

-----------------------------------------------------------------------------
(* The storage, while no system call has failed.                           *)

FileBytes(id) ==
    IF disk[id] = NoDir THEN 0 ELSE Bytes(disk[id].target) + Bytes(disk[id].draft)
FileWeights == [id \in Ids |-> FileBytes(id)]

\* A directory that is neither listed nor being filled.
Stray(id) ==
    disk[id] # NoDir /\ id \notin Live /\ ~(pc \in Uncommitted /\ id = job.id)
StrayWeights == [id \in Ids |-> IF Stray(id) THEN FileBytes(id) ELSE 0]
StraySum == SumOf(StrayWeights)

\* What the boot has set aside for each id.
OrphanWeights ==
    [id \in Ids |-> IF \E o \in orphans : o.id = id
                    THEN (CHOOSE o \in orphans : o.id = id).bytes ELSE 0]
OrphanSum == SumOf(OrphanWeights)

\* The files of directory d are no larger than these payloads.
Within(d, main, drft) == Bytes(d.target) <= Bytes(main) /\ Bytes(d.draft) <= Bytes(drft)

\* The files of a directory are as large as its sidecar and its entry say, or
\* gone.
Sized ==
    /\ \A id \in Ids : disk[id] # NoDir /\ disk[id].meta # NoFile =>
           Within(disk[id], disk[id].meta.main, disk[id].meta.drft)
    /\ \A id \in Live : Within(disk[id], index[id].main, index[id].drft)
    /\ pc \in Uncommitted => Within(disk[job.id], TargetPayload(job.tokens),
                                    DraftPayload(job.tokens, job.drafter))

\* A boot knows every stray that its scan has passed, and weighs it.
Weighed ==
    pc \in BootSteps =>
        /\ \A id \in Ids : Stray(id) => id \in unscanned \/ \E o \in orphans : o.id = id
        /\ \A o \in orphans : FileBytes(o.id) <= o.bytes
        /\ orphanBytes = OrphanSum

\* What other configurations left fits a budget of its own, and the list fits
\* the budget but during the sweeps of a save.
Spared == pc \in Operating => StraySum <= Limit
InBudget == ~disabled /\ (pc \in ({"gc"} \cup Operating) \ Sweeping => total <= Limit)

BInv == Sized /\ Weighed /\ Spared /\ InBudget

LEMMA PrimedSums == StraySum' = SumOf(StrayWeights') /\ OrphanSum' = SumOf(OrphanWeights')
BY DEF StraySum, OrphanSum, SumOf

\* The numbers of bytes are natural numbers.
LEMMA FileBytesType ==
    ASSUME IInv, NEW id \in Ids
    PROVE  /\ FileBytes(id) \in Nat
           /\ disk[id] # NoDir =>
                 Bytes(disk[id].target) \in Nat /\ Bytes(disk[id].draft) \in Nat
<1>1. disk[id] \in Directory \cup {NoDir}
  BY DEF IInv, TypeOK
<1>2. CASE disk[id] # NoDir
  <2>1. disk[id].target \in Component /\ disk[id].draft \in Component
    BY <1>1, <1>2 DEF Directory
  <2>2. Bytes(disk[id].target) \in Nat /\ Bytes(disk[id].draft) \in Nat
    BY <2>1, BytesType
  <2>3. QED
    BY <1>2, <2>2 DEF FileBytes
<1>3. QED
  BY <1>2 DEF FileBytes

LEMMA StrayType ==
    ASSUME IInv PROVE StrayWeights \in [Ids -> Int] /\ FileWeights \in [Ids -> Int]
<1>1. \A id \in Ids : FileBytes(id) \in Int
  BY FileBytesType
<1>2. QED
  BY <1>1 DEF StrayWeights, FileWeights

\* An id has at most one orphan.
LEMMA OrphanWeight ==
    ASSUME IInv
    PROVE  /\ OrphanWeights \in [Ids -> Int]
           /\ \A o \in orphans : o.id \in Ids /\ o.bytes \in Nat /\ OrphanWeights[o.id] = o.bytes
           /\ \A id \in Ids : (\A o \in orphans : o.id # id) => OrphanWeights[id] = 0
           /\ \A id \in Ids : OrphanWeights[id] \in Nat
<1>1. \A o \in orphans : o.id \in Ids /\ o.bytes \in Nat
  BY DEF IInv, TypeOK
<1>2. ASSUME NEW o \in orphans PROVE OrphanWeights[o.id] = o.bytes
  <2>1. (CHOOSE q \in orphans : q.id = o.id) = o
    <3>1. \A q \in orphans : q.id = o.id => q = o
      BY DEF IInv, OnDisk
    <3>2. QED
      BY <3>1
  <2>2. QED
    BY <1>1, <2>1 DEF OrphanWeights
<1>3. ASSUME NEW id \in Ids, \A o \in orphans : o.id # id PROVE OrphanWeights[id] = 0
  BY <1>3 DEF OrphanWeights
<1>4. ASSUME NEW id \in Ids PROVE OrphanWeights[id] \in Nat
  BY <1>1, <1>2, <1>3
<1>5. OrphanWeights = [id \in Ids |-> OrphanWeights[id]]
  BY DEF OrphanWeights
<1>6. OrphanWeights \in [Ids -> Int]
  BY <1>4, <1>5
<1>7. QED
  BY <1>1, <1>2, <1>3, <1>4, <1>6

LEMMA PrimedTypes ==
    ASSUME IInv' PROVE StrayWeights' \in [Ids -> Int] /\ OrphanWeights' \in [Ids -> Int]
<1>1. (IInv => StrayWeights \in [Ids -> Int] /\ OrphanWeights \in [Ids -> Int])'
  BY StrayType, OrphanWeight, PTL
<1>2. QED
  BY <1>1

LEMMA NoFaultNow == ASSUME IInv, faults' = 0 PROVE ~Fault
BY DEF Fault, IInv, TypeOK

\* No file grows, and no sidecar is new.
Smaller ==
    \A id \in Ids : disk'[id] # NoDir =>
        /\ disk[id] # NoDir
        /\ Bytes(disk'[id].target) <= Bytes(disk[id].target)
        /\ Bytes(disk'[id].draft) <= Bytes(disk[id].draft)
        /\ disk'[id].meta \in {disk[id].meta, NoFile}

LEMMA SameSmaller == ASSUME IInv, disk' = disk PROVE Smaller
BY FileBytesType DEF Smaller

LEMMA ShrinkSmaller == ASSUME IInv, NEW id \in Ids, Shrinks(id) PROVE Smaller
<1>1. ASSUME NEW j \in Ids, disk'[j] # NoDir, j # id
      PROVE  /\ disk[j] # NoDir
             /\ Bytes(disk'[j].target) <= Bytes(disk[j].target)
             /\ Bytes(disk'[j].draft) <= Bytes(disk[j].draft)
             /\ disk'[j].meta \in {disk[j].meta, NoFile}
  <2>1. disk'[j] = disk[j]
    BY <1>1 DEF Shrinks
  <2>2. Bytes(disk[j].target) \in Nat /\ Bytes(disk[j].draft) \in Nat
    BY <1>1, <2>1, FileBytesType
  <2>3. QED
    BY <1>1, <2>1, <2>2
<1>2. ASSUME disk'[id] # NoDir
      PROVE  /\ disk[id] # NoDir
             /\ Bytes(disk'[id].target) <= Bytes(disk[id].target)
             /\ Bytes(disk'[id].draft) <= Bytes(disk[id].draft)
             /\ disk'[id].meta \in {disk[id].meta, NoFile}
  <2>1. disk[id] # NoDir /\ Fewer(disk[id], disk'[id])
    BY <1>2 DEF Shrinks
  <2>2. Bytes(disk[id].target) \in Nat /\ Bytes(disk[id].draft) \in Nat
    BY <2>1, FileBytesType
  <2>3. Bytes(NoFile) = 0
    BY DEF Bytes
  <2>4. /\ Bytes(disk'[id].target) \in {0, Bytes(disk[id].target)}
        /\ Bytes(disk'[id].draft) \in {0, Bytes(disk[id].draft)}
        /\ disk'[id].meta \in {disk[id].meta, NoFile}
    BY <2>1, <2>3 DEF Fewer
  <2>5. QED
    BY <2>1, <2>2, <2>4
<1>3. QED
  BY <1>1, <1>2 DEF Smaller

\* The listed entries stay, or some go; a save goes on, or ends.
ListKept ==
    \A id \in Live' : /\ id \in Live /\ index'[id].main = index[id].main
                      /\ index'[id].drft = index[id].drft
FillKept ==
    pc' \in Uncommitted =>
        /\ pc \in Uncommitted /\ job'.id = job.id /\ conf' = conf
        /\ job'.tokens = job.tokens /\ job'.drafter = job.drafter

LEMMA SmallerBytes ==
    ASSUME IInv, IInv', Smaller, NEW id \in Ids PROVE FileBytes(id)' <= FileBytes(id)
<1>1. FileBytes(id) \in Nat
  BY FileBytesType
<1>2. CASE disk'[id] = NoDir
  BY <1>1, <1>2 DEF FileBytes
<1>3. CASE disk'[id] # NoDir
  <2>1. /\ disk[id] # NoDir /\ Bytes(disk'[id].target) <= Bytes(disk[id].target)
        /\ Bytes(disk'[id].draft) <= Bytes(disk[id].draft)
    BY <1>3 DEF Smaller
  <2>2. /\ Bytes(disk[id].target) \in Nat /\ Bytes(disk[id].draft) \in Nat
        /\ Bytes(disk'[id].target) \in Nat /\ Bytes(disk'[id].draft) \in Nat
    <3>1. disk'[id] \in Directory
      BY <1>3 DEF IInv, TypeOK
    <3>2. disk'[id].target \in Component /\ disk'[id].draft \in Component
      BY <3>1 DEF Directory
    <3>3. QED
      BY <2>1, <3>2, BytesType, FileBytesType
  <2>3. /\ FileBytes(id)' = Bytes(disk'[id].target) + Bytes(disk'[id].draft)
        /\ FileBytes(id) = Bytes(disk[id].target) + Bytes(disk[id].draft)
    BY <1>3, <2>1 DEF FileBytes, Bytes
  <2>4. QED
    BY <2>1, <2>2, <2>3
<1>4. QED
  BY <1>2, <1>3

LEMMA SmallerSized ==
    ASSUME IInv, IInv', Sized, Smaller, ListKept, FillKept PROVE Sized'
<1>1. ASSUME NEW d \in Directory, NEW e \in Directory, NEW main \in Component, NEW drft \in Component,
             Bytes(e.target) <= Bytes(d.target), Bytes(e.draft) <= Bytes(d.draft),
             Within(d, main, drft)
      PROVE  Within(e, main, drft)
  <2>1. /\ d.target \in Component /\ d.draft \in Component
        /\ e.target \in Component /\ e.draft \in Component
    BY DEF Directory
  <2>2. /\ Bytes(d.target) \in Nat /\ Bytes(d.draft) \in Nat /\ Bytes(main) \in Nat
        /\ Bytes(e.target) \in Nat /\ Bytes(e.draft) \in Nat /\ Bytes(drft) \in Nat
    BY <2>1, BytesType
  <2>3. QED
    BY <1>1, <2>2 DEF Within
<1>2. \A id \in Ids : disk'[id] # NoDir => disk'[id] \in Directory /\ disk[id] \in Directory
  BY DEF IInv, TypeOK, Smaller
<1>3. ASSUME NEW id \in Ids, disk'[id] # NoDir, disk'[id].meta # NoFile
      PROVE  Within(disk'[id], disk'[id].meta.main, disk'[id].meta.drft)
  <2>1. /\ disk[id] # NoDir /\ disk'[id].meta = disk[id].meta
        /\ Bytes(disk'[id].target) <= Bytes(disk[id].target)
        /\ Bytes(disk'[id].draft) <= Bytes(disk[id].draft)
        /\ disk[id] \in Directory /\ disk'[id] \in Directory
    BY <1>2, <1>3 DEF Smaller
  <2>2. disk[id].meta.main \in Component /\ disk[id].meta.drft \in Component
    BY <1>3, <2>1 DEF Directory, Meta, Component
  <2>3. Within(disk[id], disk[id].meta.main, disk[id].meta.drft)
    BY <1>3, <2>1 DEF Sized
  <2>4. QED
    BY <1>1, <2>1, <2>2, <2>3
<1>4. ASSUME NEW id \in Live' PROVE Within(disk'[id], index'[id].main, index'[id].drft)
  <2>1. /\ id \in Ids /\ id \in Live /\ disk'[id] # NoDir /\ index[id] \in Entry
        /\ index'[id].main = index[id].main /\ index'[id].drft = index[id].drft
    BY DEF ListKept, IInv, TypeOK, OnDisk, Live
  <2>2. /\ Bytes(disk'[id].target) <= Bytes(disk[id].target)
        /\ Bytes(disk'[id].draft) <= Bytes(disk[id].draft)
        /\ disk[id] \in Directory /\ disk'[id] \in Directory
    BY <1>2, <2>1 DEF Smaller
  <2>3. index[id].main \in Component /\ index[id].drft \in Component
    BY <2>1 DEF Entry, Component
  <2>4. Within(disk[id], index[id].main, index[id].drft)
    BY <2>1 DEF Sized
  <2>5. QED
    BY <1>1, <2>1, <2>2, <2>3, <2>4
<1>5. ASSUME pc' \in Uncommitted
      PROVE  Within(disk'[job'.id], TargetPayload(job'.tokens),
                    DraftPayload(job.tokens, job.drafter)')
  <2>1. /\ pc \in Uncommitted /\ job'.id = job.id /\ conf' = conf
        /\ job'.tokens = job.tokens /\ job'.drafter = job.drafter
    BY <1>5 DEF FillKept
  <2>2. /\ job.id \in Ids /\ disk'[job.id] # NoDir
        /\ TargetPayload(job.tokens) \in Component
        /\ DraftPayload(job.tokens, job.drafter) \in Component
    BY <1>5, <2>1, HeldType DEF Component, IInv, InHand
  <2>3. /\ Bytes(disk'[job.id].target) <= Bytes(disk[job.id].target)
        /\ Bytes(disk'[job.id].draft) <= Bytes(disk[job.id].draft)
        /\ disk[job.id] \in Directory /\ disk'[job.id] \in Directory
    BY <1>2, <2>2 DEF Smaller
  <2>4. Within(disk[job.id], TargetPayload(job.tokens), DraftPayload(job.tokens, job.drafter))
    BY <2>1 DEF Sized
  <2>5. Within(disk'[job.id], TargetPayload(job.tokens), DraftPayload(job.tokens, job.drafter))
    BY <1>1, <2>2, <2>3, <2>4
  <2>6. DraftPayload(job.tokens, job.drafter)' = DraftPayload(job.tokens, job.drafter)
    BY <2>1 DEF DraftPayload
  <2>7. QED
    BY <2>1, <2>5, <2>6
<1>6. QED
  <2>1. (\A id \in Ids : disk[id] # NoDir /\ disk[id].meta # NoFile =>
            Within(disk[id], disk[id].meta.main, disk[id].meta.drft))'
    BY <1>3 DEF Within, Bytes
  <2>2. (\A id \in Live : Within(disk[id], index[id].main, index[id].drft))'
    BY <1>4 DEF Within, Bytes
  <2>3. (pc \in Uncommitted => Within(disk[job.id], TargetPayload(job.tokens),
                                     DraftPayload(job.tokens, job.drafter)))'
    BY <1>5 DEF Within, Bytes, TargetPayload, DraftPayload
  <2>4. QED
    BY <2>1, <2>2, <2>3 DEF Sized

\* Fewer or smaller strays need no more room.
LEMMA SparesKept ==
    ASSUME IInv, IInv', Spared, pc \in Operating,
           \A id \in Ids : Stray(id)' => Stray(id) /\ FileBytes(id)' <= FileBytes(id)
    PROVE  Spared'
<1>1. \A id \in Ids : StrayWeights'[id] <= StrayWeights[id]
  <2>1. \A id \in Ids : FileBytes(id) \in Nat
    BY FileBytesType
  <2>2. QED
    BY <2>1 DEF StrayWeights
<1>2. SumOf(StrayWeights') <= SumOf(StrayWeights)
  BY <1>1, StrayType, PrimedTypes, SumOfMonotone
<1>3. SumOf(StrayWeights') \in Int /\ SumOf(StrayWeights) \in Int /\ Limit \in Int
  <2>1. PICK f : SumsTo(f, StrayWeights') /\ SumOf(StrayWeights') = f[MaxId] /\ f[MaxId] \in Int
    BY PrimedTypes, SumOfExists
  <2>2. PICK g : SumsTo(g, StrayWeights) /\ SumOf(StrayWeights) = g[MaxId] /\ g[MaxId] \in Int
    BY StrayType, SumOfExists
  <2>3. QED
    BY <2>1, <2>2, PersistLibraryAssumption
<1>4. SumOf(StrayWeights) <= Limit
  BY DEF Spared, StraySum
<1>5. StraySum' <= Limit
  BY <1>2, <1>3, <1>4, PrimedSums
<1>6. QED
  BY <1>5 DEF Spared

LEMMA PhaseSets ==
    /\ Uncommitted \subseteq Operating /\ Sweeping \subseteq Operating
    /\ \A p \in Operating : p \notin BootSteps
    /\ \A p \in Uncommitted : p \notin Sweeping
BY DEF Uncommitted, Sweeping, Operating, BootSteps

\* A step of the operating server after which no file is larger.
LEMMA OperatingBounded ==
    ASSUME IInv, IInv', BInv, pc \in Operating, pc' \in Operating, Smaller, ListKept, FillKept,
           \A id \in Ids : Stray(id)' => Stray(id), disabled' = disabled,
           pc' \notin Sweeping => total' <= Limit
    PROVE  BInv'
<1>1. Sized'
  BY SmallerSized DEF BInv
<1>2. \A id \in Ids : Stray(id)' => Stray(id) /\ FileBytes(id)' <= FileBytes(id)
  BY SmallerBytes
<1>3. Spared'
  BY <1>2, SparesKept DEF BInv
<1>4. Weighed'
  BY PhaseSets DEF Weighed
<1>5. InBudget'
  BY DEF BInv, InBudget, Operating
<1>6. QED
  BY <1>1, <1>3, <1>4, <1>5 DEF BInv

\* Steps that touch neither the disk nor the list.
LEMMA IdleBounded ==
    ASSUME IInv, IInv', MInv, Accounting, Budgeted, BInv,
           \/ \E p \in Prompts, d \in Drafters : SaveBegin(p, d)
           \/ \E id \in Ids, d \in Drafters : LoadOk(id, d)
           \/ SaveSkip \/ SupersedeDone \/ ObsoleteDone \/ SaveDone
           \/ UpdateBegin \/ UpdateDone
           \/ SaveWrite /\ ~Fault
    PROVE  BInv'
<1>1. /\ UNCHANGED <<disk, index, conf, total, disabled>>
      /\ pc \in Operating /\ pc' \in Operating
  BY DEF SaveBegin, LoadOk, Candidate, SaveSkip, SupersedeDone, ObsoleteDone, SaveDone,
         UpdateBegin, UpdateDone, SweepDone, SaveWrite, SaveStep, SaveFail, disposable, Operating
<1>2. /\ pc' \in Uncommitted => pc \in Uncommitted
      /\ pc \in Uncommitted => pc' \in Uncommitted /\ SaveWrite
  BY DEF SaveBegin, LoadOk, Candidate, SaveSkip, SupersedeDone, ObsoleteDone, SaveDone,
         UpdateBegin, UpdateDone, SweepDone, SaveWrite, SaveStep, SaveFail, Uncommitted
<1>3. pc \in Uncommitted => /\ job'.id = job.id /\ job'.tokens = job.tokens
                            /\ job'.drafter = job.drafter
  <2>1. SUFFICES ASSUME pc \in Uncommitted
                 PROVE  /\ job'.id = job.id /\ job'.tokens = job.tokens
                        /\ job'.drafter = job.drafter
    OBVIOUS
  <2>2. job \in Job /\ SaveWrite /\ ~Fault
    BY <1>2, <2>1, HeldType DEF SaveBegin, LoadOk, Candidate, SaveSkip, SupersedeDone,
       ObsoleteDone, SaveDone, UpdateBegin, UpdateDone, Uncommitted
  <2>3. QED
    BY <2>2 DEF SaveWrite, SaveFail, Job
<1>4. Smaller /\ ListKept /\ FillKept
  BY <1>1, <1>2, <1>3, SameSmaller DEF ListKept, FillKept, Live
<1>5. \A id \in Ids : Stray(id)' => Stray(id)
  BY <1>1, <1>2, <1>3 DEF Stray, Live
<1>6. pc' \notin Sweeping => total' <= Limit
  <2>1. CASE pc \notin Sweeping
    BY <1>1, <2>1 DEF BInv, InBudget
  <2>2. CASE pc \in Sweeping
    <3>1. pc' \notin Sweeping => SaveDone
      BY <2>2 DEF SaveBegin, LoadOk, Candidate, SaveSkip, SupersedeDone, ObsoleteDone,
         UpdateBegin, UpdateDone, SweepDone, SaveWrite, Sweeping
    <3>2. SaveDone => job.reclaim
      BY DEF SaveDone, Budgeted, BInv, InBudget, SaveSteps
    <3>3. SaveDone => total <= Limit
      BY <3>2, NewestFits DEF SaveDone
    <3>4. QED
      BY <1>1, <3>1, <3>3
  <2>3. QED
    BY <2>1, <2>2
<1>7. QED
  BY <1>1, <1>4, <1>5, <1>6, OperatingBounded

\* Every erase outside the boot.
LEMMA AnyEraseBounded ==
    ASSUME IInv, IInv', BInv, ~Fault, NEW id \in Ids,
           \/ TouchReject(id) \/ Supersede(id) \/ Obsolete(id) \/ Reclaim(id)
           \/ UpdateEvict(id) \/ \E d \in Drafters : LoadReject(id, d)
           \/ RejectLoad /\ id = restore.id
    PROVE  BInv'
<1>1. /\ id \in Live /\ EraseOk(id) /\ conf' = conf
      /\ pc \in Operating \ Uncommitted /\ pc' \in Operating \ Uncommitted
      /\ pc \in Sweeping => pc' \in Sweeping
  BY DEF TouchReject, CanTouch, Usable, Supersede, Obsolete, IsObsolete, Reclaim,
         IsVictim, Sweep, UpdateEvict, LoadReject, Candidate, RejectLoad, EraseFail, IInv,
         InHand, Operating, Uncommitted, Sweeping
<1>2. /\ index[id] \in Entry /\ total \in Int /\ EntrySize(index[id]) \in Nat
      /\ total' = total - EntrySize(index[id]) /\ disabled' = disabled
  BY <1>1, EntrySizeType DEF IInv, TypeOK, Live, EraseOk
<1>3. /\ Shrinks(id) /\ \A j \in Ids \ {id} : index'[j] = index[j]
      /\ disk'[id] = NoDir /\ index'[id] = NoEntry
  BY <1>1, EraseShrinks DEF EraseOk, IInv, TypeOK
<1>4. Smaller
  BY <1>3, ShrinkSmaller
<1>5. ListKept /\ FillKept
  BY <1>1, <1>3 DEF ListKept, FillKept, Live
<1>6. \A j \in Ids : Stray(j)' => Stray(j)
  BY <1>1, <1>3 DEF Stray, Live, Shrinks
<1>7. pc' \notin Sweeping => total' <= Limit
  <2>1. pc' \notin Sweeping => total <= Limit
    BY <1>1 DEF BInv, InBudget
  <2>2. QED
    BY <1>2, <2>1, PersistLibraryAssumption
<1>8. QED
  BY <1>1, <1>2, <1>4, <1>5, <1>6, <1>7, OperatingBounded

\* The directory a save fills after the step.
LEMMA HeldNext ==
    (IInv /\ pc \in Uncommitted => /\ job.id \in Ids /\ index[job.id] = NoEntry
                                  /\ TargetPayload(job.tokens) \in Payload
                                  /\ DraftPayload(job.tokens, job.drafter) \in Component)'
<1>1. IInv /\ pc \in Uncommitted => /\ job.id \in Ids /\ index[job.id] = NoEntry
                                    /\ TargetPayload(job.tokens) \in Payload
                                    /\ DraftPayload(job.tokens, job.drafter) \in Component
  BY HeldType DEF IInv, InHand
<1>2. QED
  BY <1>1, PTL

\* A step that fills the directory of a save leaves the others alone.
LEMMA FillBounded ==
    ASSUME IInv, IInv', BInv, pc \in Operating \ Sweeping, pc' \in Uncommitted,
           UNCHANGED <<index, total, disabled>>,
           pc \in Uncommitted => job'.id = job.id,
           \A j \in Ids \ {job'.id} : disk'[j] = disk[j],
           disk'[job'.id].meta # NoFile =>
               Within(disk'[job'.id], disk'[job'.id].meta.main, disk'[job'.id].meta.drft),
           Within(disk'[job'.id], TargetPayload(job'.tokens),
                  DraftPayload(job.tokens, job.drafter)')
    PROVE  BInv'
<1>1. job'.id \in Ids /\ job'.id \notin Live /\ Live' = Live
  BY HeldNext DEF Live
<1>2. Sized'
  <2>1. (\A id \in Ids : disk[id] # NoDir /\ disk[id].meta # NoFile =>
            Within(disk[id], disk[id].meta.main, disk[id].meta.drft))'
    <3>1. \A id \in Ids : disk'[id] # NoDir /\ disk'[id].meta # NoFile =>
            Within(disk'[id], disk'[id].meta.main, disk'[id].meta.drft)
      BY DEF BInv, Sized
    <3>2. QED
      BY <3>1 DEF Within, Bytes
  <2>2. (\A id \in Live : Within(disk[id], index[id].main, index[id].drft))'
    <3>1. \A id \in Live' : Within(disk'[id], index'[id].main, index'[id].drft)
      BY <1>1 DEF BInv, Sized, Live
    <3>2. QED
      BY <3>1 DEF Within, Bytes
  <2>3. (pc \in Uncommitted => Within(disk[job.id], TargetPayload(job.tokens),
                                     DraftPayload(job.tokens, job.drafter)))'
    BY DEF Within, Bytes, TargetPayload, DraftPayload
  <2>4. QED
    BY <2>1, <2>2, <2>3 DEF Sized
<1>3. \A id \in Ids : Stray(id)' => Stray(id) /\ FileBytes(id)' <= FileBytes(id)
  <2>1. SUFFICES ASSUME NEW id \in Ids, Stray(id)'
                 PROVE  Stray(id) /\ FileBytes(id)' <= FileBytes(id)
    OBVIOUS
  <2>2. id # job'.id /\ disk'[id] = disk[id] /\ disk[id] # NoDir /\ id \notin Live
    BY <1>1, <2>1 DEF Stray
  <2>3. Stray(id)
    BY <2>2 DEF Stray
  <2>4. FileBytes(id)' = FileBytes(id) /\ FileBytes(id) \in Nat
    BY <2>2, FileBytesType DEF FileBytes, Bytes
  <2>5. QED
    BY <2>3, <2>4
<1>4. Spared'
  BY <1>3, SparesKept DEF BInv
<1>5. Weighed'
  BY PhaseSets DEF Weighed
<1>6. InBudget'
  BY PhaseSets DEF BInv, InBudget
<1>7. QED
  BY <1>2, <1>4, <1>5, <1>6 DEF BInv

\* No payload is smaller than a file that is gone.
LEMMA EmptyWithin ==
    ASSUME NEW main \in Component, NEW drft \in Component PROVE Within(EmptyDir, main, drft)
<1>1. Bytes(NoFile) = 0
  BY DEF Bytes
<1>2. QED
  BY <1>1, BytesType DEF Within, EmptyDir

LEMMA AllocBounded ==
    ASSUME IInv, IInv', SInv, BInv, ~Fault, SaveAlloc PROVE BInv'
<1>1. nextId \in Ids /\ nextId \notin Live /\ disk[nextId] = NoDir /\ pc = "touch"
  BY AllocFresh DEF SaveAlloc
<1>2. /\ disk' = [disk EXCEPT ![nextId] = EmptyDir]
      /\ job' = [job EXCEPT !.id = nextId, !.before = EmptyDir]
      /\ UNCHANGED <<index, total, disabled, conf>> /\ pc' = "write"
  BY <1>1 DEF SaveAlloc, SaveFail, SaveStep
<1>3. job'.id = nextId /\ disk'[nextId] = EmptyDir
      /\ \A j \in Ids \ {nextId} : disk'[j] = disk[j]
  BY <1>1, <1>2 DEF IInv, TypeOK, InHand, SaveSteps, Job
<1>4. TargetPayload(job'.tokens) \in Component /\ DraftPayload(job.tokens, job.drafter)' \in Component
  <2>1. TargetPayload(job.tokens)' = TargetPayload(job'.tokens)
    BY DEF TargetPayload
  <2>2. QED
    BY <1>2, <2>1, HeldNext DEF Uncommitted, Component
<1>5. EmptyDir.meta = NoFile
  BY DEF EmptyDir
<1>6. pc \in Operating \ Sweeping /\ pc \notin Uncommitted /\ pc' \in Uncommitted
  BY <1>1, <1>2 DEF Operating, Sweeping, Uncommitted
<1>7. QED
  BY <1>2, <1>3, <1>4, <1>5, <1>6, EmptyWithin, FillBounded

LEMMA RenameBounded ==
    ASSUME IInv, IInv', SInv, BInv, ~Fault, RenameTarget \/ RenameDraft PROVE BInv'
<1> DEFINE main == TargetPayload(job.tokens)
           drft == DraftPayload(job.tokens, job.drafter)
<1>1. /\ pc \in Uncommitted \ {"sync"} /\ pc \in Operating \ Sweeping /\ pc' \in Uncommitted
      /\ UNCHANGED <<index, total, disabled, conf, job>>
  BY DEF RenameTarget, RenameDraft, SaveFail, SaveStep, Uncommitted, Operating, Sweeping
<1>2. /\ job.id \in Ids /\ disk[job.id] \in Directory /\ disk[job.id].meta = NoFile
      /\ main \in Component /\ drft \in Component
  BY <1>1, HeldType DEF SInv, Filled, Component
<1>3. Within(disk[job.id], main, drft)
  BY <1>1 DEF BInv, Sized
<1>4. Bytes(main) \in Nat /\ Bytes(drft) \in Nat
  BY <1>2, BytesType
<1>5. /\ \A j \in Ids \ {job.id} : disk'[j] = disk[j]
      /\ disk'[job.id].meta = NoFile
      /\ disk'[job.id].target \in {disk[job.id].target, main}
      /\ disk'[job.id].draft \in {disk[job.id].draft, drft}
  <2>1. \/ disk' = [disk EXCEPT ![job.id].target = main]
        \/ disk' = [disk EXCEPT ![job.id].draft = drft]
    BY DEF RenameTarget, RenameDraft, SaveFail
  <2>2. disk \in [Ids -> Directory \cup {NoDir}]
    BY DEF IInv, TypeOK
  <2> HIDE DEF main, drft
  <2>3. QED
    BY <1>2, <2>1, <2>2 DEF Directory
<1>6. Within(disk'[job.id], main, drft)
  <2> HIDE DEF main, drft
  <2>1. QED
    BY <1>3, <1>4, <1>5 DEF Within
<1>7. main = TargetPayload(job'.tokens) /\ drft = DraftPayload(job.tokens, job.drafter)'
  BY <1>1 DEF DraftPayload
<1> HIDE DEF main, drft
<1>8. QED
  BY <1>1, <1>5, <1>6, <1>7, FillBounded

LEMMA CommitBounded ==
    ASSUME IInv, IInv', BInv, ~Fault, CommitMeta PROVE BInv'
<1> DEFINE main == TargetPayload(job.tokens)
           drft == DraftPayload(job.tokens, job.drafter)
<1>1. /\ pc = "meta" /\ pc \in Uncommitted /\ pc \in Operating \ Sweeping /\ pc' \in Uncommitted
      /\ UNCHANGED <<index, total, disabled, conf, job>>
      /\ disk' = [disk EXCEPT ![job.id].meta = MetaOf(NewEntry)]
  BY DEF CommitMeta, DropUncommitted, SaveFail, SaveStep, Uncommitted, Operating, Sweeping
<1>2. job.id \in Ids /\ disk[job.id] \in Directory
  BY <1>1, HeldType
<1>3. Within(disk[job.id], main, drft)
  BY <1>1 DEF BInv, Sized
<1>4. /\ \A j \in Ids \ {job.id} : disk'[j] = disk[j]
      /\ disk'[job.id].meta = MetaOf(NewEntry)
      /\ disk'[job.id].target = disk[job.id].target
      /\ disk'[job.id].draft = disk[job.id].draft
  BY <1>1, <1>2 DEF IInv, TypeOK, Directory
<1>5. MetaOf(NewEntry).main = main /\ MetaOf(NewEntry).drft = drft
  BY DEF MetaOf, NewEntry
<1>6. main = TargetPayload(job'.tokens) /\ drft = DraftPayload(job.tokens, job.drafter)'
  BY <1>1 DEF DraftPayload
<1> HIDE DEF main, drft
<1>7. Within(disk'[job.id], main, drft)
  BY <1>3, <1>4 DEF Within
<1>8. QED
  BY <1>1, <1>4, <1>5, <1>6, <1>7, FillBounded

\* A committed save is listed: its directory was no stray.
LEMMA SyncBounded ==
    ASSUME IInv, IInv', BInv, ~Fault, SyncDir PROVE BInv'
<1>1. /\ pc = "sync" /\ pc \in Uncommitted /\ pc \in Operating
      /\ pc' \in Sweeping /\ pc' \notin Uncommitted /\ pc' \in Operating
      /\ UNCHANGED <<disk, conf, disabled, job>>
      /\ index' = [index EXCEPT ![job.id] = NewEntry]
  BY DEF SyncDir, DropUncommitted, SaveFail, Uncommitted, Operating, Sweeping
<1>2. job.id \in Ids /\ NewEntry # NoEntry
  BY <1>1, HeldType, NewEntryType, Nothing
<1>3. index'[job.id] = NewEntry /\ \A j \in Ids \ {job.id} : index'[j] = index[j]
  BY <1>1, <1>2 DEF IInv, TypeOK
<1>4. Live' = Live \cup {job.id}
  BY <1>2, <1>3 DEF Live
<1>5. Sized'
  <2>1. (\A id \in Ids : disk[id] # NoDir /\ disk[id].meta # NoFile =>
            Within(disk[id], disk[id].meta.main, disk[id].meta.drft))'
    BY <1>1 DEF BInv, Sized, Within, Bytes
  <2>2. (\A id \in Live : Within(disk[id], index[id].main, index[id].drft))'
    <3>1. NewEntry.main = TargetPayload(job.tokens)
          /\ NewEntry.drft = DraftPayload(job.tokens, job.drafter)
      BY DEF NewEntry
    <3>2. Within(disk[job.id], index'[job.id].main, index'[job.id].drft)
      BY <1>1, <1>3, <3>1 DEF BInv, Sized
    <3>3. \A id \in Live' : Within(disk[id], index'[id].main, index'[id].drft)
      BY <1>3, <1>4, <3>2 DEF BInv, Sized, Live
    <3>4. QED
      BY <1>1, <3>3 DEF Within, Bytes
  <2>3. QED
    BY <1>1, <2>1, <2>2 DEF Sized
<1>6. \A id \in Ids : Stray(id)' => Stray(id) /\ FileBytes(id)' <= FileBytes(id)
  <2>1. \A id \in Ids : FileBytes(id)' = FileBytes(id) /\ FileBytes(id) \in Nat
    BY <1>1, FileBytesType DEF FileBytes, Bytes
  <2>2. \A id \in Ids : Stray(id)' => Stray(id)
    BY <1>1, <1>4 DEF Stray
  <2>3. QED
    BY <2>1, <2>2
<1>7. Spared'
  BY <1>1, <1>6, SparesKept DEF BInv
<1>8. Weighed' /\ InBudget'
  BY <1>1, PhaseSets DEF Weighed, BInv, InBudget
<1>9. QED
  BY <1>5, <1>7, <1>8 DEF BInv

\* Counting a hit rewrites a sidecar with the sizes of its entry.
LEMMA TouchBounded ==
    ASSUME IInv, IInv', BInv, ~Fault, AcceptLoad \/ \E id \in Ids : TouchHit(id) PROVE BInv'
<1>1. PICK id \in Live : /\ index' = [index EXCEPT ![id] = Touched(@)]
                         /\ disk' = [disk EXCEPT ![id].meta = MetaOf(Touched(index[id]))]
                         /\ UNCHANGED <<conf, total, disabled>>
                         /\ pc \in {"touch", "restored"} /\ pc' = "idle"
  BY DEF AcceptLoad, TouchHit, CanTouch, Usable, RewriteMeta, IInv, InHand
<1>2. /\ pc \in Operating \ Sweeping /\ pc \notin Uncommitted /\ pc' \in Operating
      /\ pc' \notin Sweeping /\ pc' \notin Uncommitted
  BY <1>1 DEF Operating, Sweeping, Uncommitted
<1>3. id \in Ids /\ index[id] \in Entry /\ disk[id] \in Directory /\ Live' = Live
  BY <1>1, TouchedIndex DEF IInv, TypeOK, Live, OnDisk
<1>4. /\ index'[id].main = index[id].main /\ index'[id].drft = index[id].drft
      /\ MetaOf(Touched(index[id])).main = index[id].main
      /\ MetaOf(Touched(index[id])).drft = index[id].drft
  BY <1>1, <1>3 DEF Touched, MetaOf, Entry, IInv, TypeOK
<1>5. /\ \A j \in Ids \ {id} : disk'[j] = disk[j] /\ index'[j] = index[j]
      /\ disk'[id].meta = MetaOf(Touched(index[id]))
      /\ disk'[id].target = disk[id].target /\ disk'[id].draft = disk[id].draft
      /\ disk[id] # NoDir /\ disk'[id] # NoDir
  <2>1. disk'[id] = [disk[id] EXCEPT !.meta = MetaOf(Touched(index[id]))]
        /\ \A j \in Ids \ {id} : disk'[j] = disk[j] /\ index'[j] = index[j]
    BY <1>1, <1>3 DEF IInv, TypeOK
  <2>2. disk[id] # NoDir /\ disk'[id] # NoDir
    BY <1>1, <1>3 DEF IInv, OnDisk
  <2>3. QED
    BY <1>3, <2>1, <2>2 DEF Directory
<1>6. Within(disk'[id], index[id].main, index[id].drft)
  BY <1>1, <1>5 DEF BInv, Sized, Within
<1>7. Sized'
  <2>1. \A j \in Ids : disk'[j] # NoDir /\ disk'[j].meta # NoFile =>
            Within(disk'[j], disk'[j].meta.main, disk'[j].meta.drft)
    <3>1. \A j \in Ids \ {id} : disk'[j] # NoDir /\ disk'[j].meta # NoFile =>
            Within(disk'[j], disk'[j].meta.main, disk'[j].meta.drft)
      BY <1>5 DEF BInv, Sized
    <3>2. QED
      BY <1>4, <1>5, <1>6, <3>1
  <2>2. \A j \in Live' : Within(disk'[j], index'[j].main, index'[j].drft)
    <3>1. \A j \in Live' \ {id} : Within(disk'[j], index'[j].main, index'[j].drft)
      BY <1>3, <1>5 DEF BInv, Sized, Live
    <3>2. QED
      BY <1>4, <1>6, <3>1
  <2>3. QED
    BY <1>2, <2>1, <2>2 DEF Sized, Within, Bytes
<1>8. \A j \in Ids : Stray(j)' => Stray(j) /\ FileBytes(j)' <= FileBytes(j)
  <2>1. \A j \in Ids : FileBytes(j)' = FileBytes(j) /\ FileBytes(j) \in Nat
    BY <1>3, <1>5, FileBytesType DEF FileBytes, Bytes
  <2>2. \A j \in Ids : Stray(j)' => Stray(j)
    BY <1>2, <1>3, <1>5 DEF Stray
  <2>3. QED
    BY <2>1, <2>2
<1>9. Spared'
  BY <1>2, <1>8, SparesKept DEF BInv
<1>10. Weighed' /\ InBudget'
  BY <1>1, <1>2, PhaseSets DEF Weighed, BInv, InBudget
<1>11. QED
  BY <1>7, <1>9, <1>10 DEF BInv

\* The numbers of bytes after the step are natural numbers, too.
LEMMA FileBytesNext == (IInv => \A id \in Ids : FileBytes(id) \in Nat)'
<1>1. IInv => \A id \in Ids : FileBytes(id) \in Nat
  BY FileBytesType
<1>2. QED
  BY <1>1, PTL

\* The orphans after the step, too, are one to an id.
LEMMA OrphanWeightNext ==
    (IInv => /\ OrphanWeights \in [Ids -> Int]
             /\ \A o \in orphans : o.id \in Ids /\ o.bytes \in Nat /\ OrphanWeights[o.id] = o.bytes
             /\ \A id \in Ids : (\A o \in orphans : o.id # id) => OrphanWeights[id] = 0)'
<1>1. IInv => /\ OrphanWeights \in [Ids -> Int]
              /\ \A o \in orphans : o.id \in Ids /\ o.bytes \in Nat /\ OrphanWeights[o.id] = o.bytes
              /\ \A id \in Ids : (\A o \in orphans : o.id # id) => OrphanWeights[id] = 0
  BY OrphanWeight
<1>2. QED
  BY <1>1, PTL

\* The same orphans weigh the same.
LEMMA SameOrphans == ASSUME orphans' = orphans PROVE OrphanSum' = OrphanSum
<1>1. OrphanWeights' = OrphanWeights
  BY DEF OrphanWeights
<1>2. QED
  BY <1>1, PrimedSums DEF OrphanSum

\* A boot step after which no file is larger and the orphans are the same.
LEMMA BootBounded ==
    ASSUME IInv, IInv', BInv, pc \in BootSteps, pc' \in BootSteps, Smaller, Sized',
           UNCHANGED <<orphans, orphanBytes, disabled>>,
           \A id \in Ids : Stray(id)' => Stray(id) /\ (id \in unscanned => id \in unscanned'),
           pc' = "gc" => total' <= Limit
    PROVE  BInv'
<1>1. \A id \in Ids : Stray(id)' => id \in unscanned' \/ \E o \in orphans' : o.id = id
  BY DEF BInv, Weighed
<1>2. \A o \in orphans' : FileBytes(o.id)' <= o.bytes
  <2>1. \A id \in Ids : /\ FileBytes(id)' <= FileBytes(id)
                        /\ FileBytes(id) \in Nat /\ FileBytes(id)' \in Nat
    BY SmallerBytes, FileBytesType, FileBytesNext
  <2>2. \A o \in orphans : o.id \in Ids /\ o.bytes \in Nat /\ FileBytes(o.id) <= o.bytes
    BY OrphanWeight DEF BInv, Weighed
  <2>3. \A o \in orphans : FileBytes(o.id)' <= o.bytes
    BY <2>1, <2>2
  <2>4. QED
    BY <2>3
<1>3. orphanBytes' = OrphanSum'
  BY SameOrphans DEF BInv, Weighed
<1>4. Weighed'
  BY <1>1, <1>2, <1>3 DEF Weighed, FileBytes, Bytes
<1>5. Spared'
  BY PhaseSets DEF Spared
<1>6. InBudget'
  BY DEF BInv, InBudget, BootSteps, Operating
<1>7. QED
  BY <1>4, <1>5, <1>6 DEF BInv

\* The environment, and steps that do nothing.
LEMMA StandBounded ==
    ASSUME IInv, IInv', BInv,
           \/ Tick \/ UNCHANGED vars
           \/ \E id \in Ids, part \in {"target", "draft", "meta"} : Damage(id, part)
    PROVE  BInv'
<1>1. UNCHANGED <<pc, conf, index, total, disabled, unscanned, orphans, orphanBytes, job>>
  BY DEF Tick, vars, Damage, disposable
<1>2. Smaller
  <2>1. CASE disk' = disk
    BY <2>1, SameSmaller
  <2>2. CASE disk' # disk
    <3>1. PICK id \in Ids, part \in {"target", "draft", "meta"} : Damage(id, part)
      BY <2>2 DEF Tick, vars
    <3>2. QED
      BY <3>1, DamageShrinks, ShrinkSmaller
  <2>3. QED
    BY <2>1, <2>2
<1>3. ListKept /\ FillKept
  BY <1>1 DEF ListKept, FillKept, Live
<1>4. Sized'
  BY <1>2, <1>3, SmallerSized DEF BInv
<1>5. \A id \in Ids : Stray(id)' => Stray(id)
  BY <1>1, <1>2 DEF Stray, Live, Smaller
<1>6. CASE pc \in BootSteps
  <2>1. \A id \in Ids : Stray(id)' => Stray(id) /\ (id \in unscanned => id \in unscanned')
    BY <1>1, <1>5
  <2>2. pc' = "gc" => total' <= Limit
    BY <1>1 DEF BInv, InBudget, Sweeping
  <2>3. QED
    BY <1>1, <1>2, <1>4, <1>6, <2>1, <2>2, BootBounded
<1>7. CASE pc \notin BootSteps
  <2>1. Weighed'
    BY <1>1, <1>7 DEF Weighed
  <2>2. Spared'
    <3>1. \A id \in Ids : Stray(id)' => Stray(id) /\ FileBytes(id)' <= FileBytes(id)
      BY <1>2, <1>5, SmallerBytes
    <3>2. CASE pc \in Operating
      BY <3>1, <3>2, SparesKept DEF BInv
    <3>3. CASE pc \notin Operating
      BY <1>1, <3>3 DEF Spared
    <3>4. QED
      BY <3>2, <3>3
  <2>3. InBudget'
    BY <1>1 DEF BInv, InBudget
  <2>4. QED
    BY <1>4, <2>1, <2>2, <2>3 DEF BInv
<1>8. QED
  BY <1>6, <1>7

\* A crash loses renames that no sync has made durable, and the list.
LEMMA CrashBounded == ASSUME IInv, IInv', SInv, BInv, Crash PROVE BInv'
<1>1. pc' = "down" /\ Live' = {} /\ disabled' = FALSE
  BY DEF Crash, Fresh, Live
<1>2. Smaller
  BY CrashShrinks, SameSmaller, ShrinkSmaller
<1>3. ListKept /\ FillKept
  BY <1>1 DEF ListKept, FillKept, Uncommitted
<1>4. Sized'
  BY <1>2, <1>3, SmallerSized DEF BInv
<1>5. Weighed' /\ Spared' /\ InBudget'
  BY <1>1 DEF Weighed, Spared, InBudget, BootSteps, Operating
<1>6. QED
  BY <1>4, <1>5 DEF BInv

\* A boot has every directory ahead of its scan.
LEMMA StartBounded ==
    ASSUME IInv, IInv', BInv, ~Fault, NEW c \in Configs, Boot(c) \/ BootInert(c) PROVE BInv'
<1>1. /\ pc' = "scan" /\ unscanned' = Existing /\ disk' = disk /\ disabled' = FALSE
      /\ orphans' = {} /\ orphanBytes' = 0
  BY DEF Boot, BootInert, Fresh
<1>2. Live' = {}
  BY DEF Boot, BootInert, Fresh, Live
<1>3. ListKept /\ FillKept
  BY <1>1, <1>2 DEF ListKept, FillKept, Uncommitted
<1>4. Sized'
  BY <1>1, <1>3, SameSmaller, SmallerSized DEF BInv
<1>5. OrphanSum' = 0
  <2>1. OrphanWeights' = [id \in Ids |-> 0]
    BY <1>1 DEF OrphanWeights
  <2>2. QED
    BY <2>1, PrimedSums, SumOfZero
<1>6. Weighed'
  BY <1>1, <1>5 DEF Weighed, Stray, Existing
<1>7. Spared' /\ InBudget'
  BY <1>1 DEF Spared, InBudget, Operating
<1>8. QED
  BY <1>4, <1>6, <1>7 DEF BInv

\* The steps of the boot that set no orphan aside and collect none.
LEMMA ScanBounded ==
    ASSUME IInv, IInv', Accounting, BInv, ~Fault,
           \/ \E id \in Ids : ScanDiscard(id) \/ BootEvict(id)
           \/ ScanDone \/ BootEvictDone
    PROVE  BInv'
<1>1. ASSUME NEW id \in Ids, ScanDiscard(id) PROVE BInv'
  <2>1. /\ pc = "scan" /\ pc' = "scan" /\ id \in unscanned /\ unscanned' = unscanned \ {id}
        /\ disk' = [disk EXCEPT ![id] = NoDir]
        /\ UNCHANGED <<conf, index, total, disabled, orphans, orphanBytes, job>>
    BY <1>1 DEF ScanDiscard, Scanned
  <2>2. disk[id] # NoDir /\ disk'[id] = NoDir
    BY <2>1 DEF IInv, OnDisk, TypeOK
  <2>3. Smaller
    BY <2>1, <2>2, RemovalShrinks, ShrinkSmaller
  <2>4. Sized'
    BY <2>1, <2>3, SmallerSized DEF BInv, ListKept, FillKept, Live, Uncommitted
  <2>5. \A j \in Ids : Stray(j)' => Stray(j) /\ (j \in unscanned => j \in unscanned')
    BY <2>1, <2>2, <2>3 DEF Stray, Live, Smaller
  <2>6. QED
    BY <2>1, <2>3, <2>4, <2>5, BootBounded DEF BootSteps
<1>2. ASSUME NEW id \in Ids, BootEvict(id) PROVE BInv'
  <2>1. /\ id \in Live /\ EraseOk(id) /\ pc = "evict" /\ pc' = "evict"
        /\ UNCHANGED <<conf, disabled, unscanned, orphans, orphanBytes, job>>
    BY <1>2 DEF BootEvict, IsVictim, EraseOk, bootVars
  <2>2. /\ Shrinks(id) /\ \A j \in Ids \ {id} : index'[j] = index[j]
        /\ disk'[id] = NoDir /\ index'[id] = NoEntry
    BY <2>1, EraseShrinks DEF EraseOk, IInv, TypeOK
  <2>3. Smaller
    BY <2>2, ShrinkSmaller
  <2>4. ListKept /\ FillKept
    BY <2>1, <2>2 DEF ListKept, FillKept, Live, Uncommitted
  <2>5. Sized'
    BY <2>3, <2>4, SmallerSized DEF BInv
  <2>6. \A j \in Ids : Stray(j)' => Stray(j) /\ (j \in unscanned => j \in unscanned')
    BY <2>1, <2>2 DEF Stray, Live, Shrinks
  <2>7. QED
    BY <2>1, <2>3, <2>5, <2>6, BootBounded DEF BootSteps
<1>3. CASE ScanDone \/ BootEvictDone
  <2>1. /\ pc \in BootSteps /\ pc' \in BootSteps
        /\ UNCHANGED <<disk, conf, index, total, disabled, unscanned, orphans, orphanBytes, job>>
    BY <1>3 DEF ScanDone, BootEvictDone, disposable, BootSteps
  <2>2. ListKept /\ FillKept
    BY <2>1 DEF ListKept, FillKept, Live, Uncommitted, BootSteps
  <2>3. Smaller /\ Sized'
    BY <2>1, <2>2, SameSmaller, SmallerSized DEF BInv
  <2>4. \A j \in Ids : Stray(j)' => Stray(j) /\ (j \in unscanned => j \in unscanned')
    BY <2>1 DEF Stray, Live, Uncommitted, BootSteps
  <2>5. pc' = "gc" => total' <= Limit
    BY <1>3, <2>1, NoneAccounted, PersistLibraryAssumption
       DEF ScanDone, BootEvictDone, Accounting
  <2>6. QED
    BY <2>1, <2>3, <2>4, <2>5, BootBounded
<1>4. QED
  BY <1>1, <1>2, <1>3

\* Another configuration's entry is weighed by its sidecar.
LEMMA OrphanBounded ==
    ASSUME IInv, IInv', BInv, NEW id \in Ids, ScanOrphan(id) PROVE BInv'
<1> DEFINE m == disk[id].meta
           size == Bytes(m.main) + Bytes(m.drft)
           orphan == [id |-> id, lastUsed |-> m.lastUsed, bytes |-> size]
<1>1. /\ pc = "scan" /\ pc' = "scan" /\ unscanned' = unscanned \ {id}
      /\ orphans' = orphans \cup {orphan} /\ orphanBytes' = orphanBytes + size
      /\ UNCHANGED <<disk, conf, index, disabled, total, job>>
      /\ m # NoFile
  BY DEF ScanOrphan, Scanned, NotOurs
<1>2. /\ disk[id] \in Directory /\ disk[id] # NoDir /\ \A o \in orphans : o.id # id
  BY ScannedType, Nothing DEF ScanOrphan
<1>3. m.main \in Component /\ m.drft \in Component
  BY <1>1, <1>2 DEF Directory, Meta, Component
<1>4. Bytes(m.main) \in Nat /\ Bytes(m.drft) \in Nat /\ size \in Nat
  BY <1>3, BytesType
<1>5. FileBytes(id) <= size
  <2>1. Within(disk[id], m.main, m.drft)
    BY <1>1, <1>2 DEF BInv, Sized
  <2>2. Bytes(disk[id].target) \in Nat /\ Bytes(disk[id].draft) \in Nat
    BY <1>2, FileBytesType
  <2> HIDE DEF m
  <2>3. QED
    BY <1>2, <1>4, <2>1, <2>2 DEF Within, FileBytes
<1>6. orphan.id = id /\ orphan.bytes = size
  OBVIOUS
<1> HIDE DEF orphan, size, m
<1>7. Smaller /\ ListKept /\ FillKept
  BY <1>1, SameSmaller DEF ListKept, FillKept, Live, Uncommitted
<1>8. Sized'
  BY <1>7, SmallerSized DEF BInv
<1>9. \A j \in Ids : Stray(j)' => j \in unscanned' \/ \E o \in orphans' : o.id = j
  <2>1. \A j \in Ids : Stray(j)' => Stray(j)
    BY <1>1 DEF Stray, Live, Uncommitted
  <2>2. \A j \in Ids : Stray(j)' => j \in unscanned \/ \E o \in orphans : o.id = j
    BY <1>1, <2>1 DEF BInv, Weighed, BootSteps
  <2>3. QED
    BY <1>1, <1>6, <2>2
<1>10. \A o \in orphans' : FileBytes(o.id)' <= o.bytes
  <2>1. \A j \in Ids : FileBytes(j)' = FileBytes(j)
    BY <1>1 DEF FileBytes, Bytes
  <2>2. \A o \in orphans : o.id \in Ids /\ FileBytes(o.id) <= o.bytes
    BY <1>1, OrphanWeight DEF BInv, Weighed, BootSteps
  <2>3. \A o \in orphans' : o.id \in Ids /\ FileBytes(o.id) <= o.bytes
    BY <1>1, <1>5, <1>6, <2>2
  <2>4. QED
    BY <2>1, <2>3
<1>11. orphanBytes' = OrphanSum'
  <2>1. /\ OrphanWeights \in [Ids -> Int] /\ OrphanWeights' \in [Ids -> Int]
        /\ OrphanWeights[id] = 0 /\ OrphanWeights'[id] = size
    BY <1>1, <1>2, <1>6, OrphanWeight, OrphanWeightNext
  <2>2. \A j \in Ids \ {id} : OrphanWeights'[j] = OrphanWeights[j]
    <3>1. ASSUME NEW j \in Ids \ {id} PROVE OrphanWeights'[j] = OrphanWeights[j]
      <4>1. CASE \E o \in orphans : o.id = j
        <5>1. PICK o \in orphans : o.id = j
          BY <4>1
        <5>2. o \in orphans'
          BY <1>1
        <5>3. OrphanWeights[o.id] = o.bytes /\ OrphanWeights'[o.id] = o.bytes
          BY <5>2, OrphanWeight, OrphanWeightNext
        <5>4. QED
          BY <5>1, <5>3
      <4>2. CASE \A o \in orphans : o.id # j
        <5>1. \A o \in orphans' : o.id # j
          BY <1>1, <1>6, <3>1, <4>2
        <5>2. QED
          BY <4>2, <5>1, OrphanWeight, OrphanWeightNext
      <4>3. QED
        BY <4>1, <4>2
    <3>2. QED
      BY <3>1
  <2>3. SumOf(OrphanWeights') = SumOf(OrphanWeights) + OrphanWeights'[id] - OrphanWeights[id]
    BY <2>1, <2>2, SumOfChange
  <2>4. orphanBytes = SumOf(OrphanWeights) /\ orphanBytes \in Int
    BY <1>1 DEF BInv, Weighed, OrphanSum, BootSteps, IInv, TypeOK
  <2>5. QED
    BY <1>1, <1>4, <2>1, <2>3, <2>4, PrimedSums
<1>12. Weighed'
  BY <1>9, <1>10, <1>11 DEF Weighed, FileBytes, Bytes
<1>13. Spared' /\ InBudget'
  BY <1>1 DEF Spared, BInv, InBudget, Operating
<1>14. QED
  BY <1>8, <1>12, <1>13 DEF BInv

\* An adopted entry is as large as its sidecar says.
LEMMA AdoptBounded ==
    ASSUME IInv, IInv', BInv, NEW id \in Ids, ScanAdopt(id) PROVE BInv'
<1> DEFINE m == disk[id].meta
           e == [tokens |-> m.tokens, drafter |-> m.drafter, spec |-> m.spec,
                 main |-> m.main, drft |-> m.drft, usable |-> TRUE,
                 hits |-> m.hits, lastUsed |-> m.lastUsed]
<1>1. /\ pc = "scan" /\ pc' = "scan" /\ unscanned' = unscanned \ {id}
      /\ UNCHANGED <<disk, conf, disabled, orphans, orphanBytes, job>>
      /\ index' = [index EXCEPT ![id] = e] /\ Complete(disk[id])
      /\ pc \in BootSteps /\ pc \notin Uncommitted
  BY DEF ScanAdopt, Scanned, BootSteps, Uncommitted
<1>2. disk[id] # NoDir /\ m # NoFile /\ m \in Meta
  BY <1>1 DEF Complete, IInv, TypeOK, Directory
<1>3. e \in Entry /\ e.main = m.main /\ e.drft = m.drft
  BY <1>2 DEF Meta, Entry
<1> HIDE DEF e
<1>4. index'[id] = e /\ \A j \in Ids \ {id} : index'[j] = index[j]
  BY <1>1 DEF IInv, TypeOK
<1>5. Live' = Live \cup {id}
  BY <1>3, <1>4, Nothing DEF Live
<1>6. Sized'
  <2>1. (\A j \in Ids : disk[j] # NoDir /\ disk[j].meta # NoFile =>
            Within(disk[j], disk[j].meta.main, disk[j].meta.drft))'
    BY <1>1 DEF BInv, Sized, Within, Bytes
  <2>2. (\A j \in Live : Within(disk[j], index[j].main, index[j].drft))'
    <3>1. Within(disk[id], index'[id].main, index'[id].drft)
      BY <1>2, <1>3, <1>4 DEF BInv, Sized
    <3>2. \A j \in Live' : Within(disk[j], index'[j].main, index'[j].drft)
      BY <1>4, <1>5, <3>1 DEF BInv, Sized, Live
    <3>3. QED
      BY <1>1, <3>2 DEF Within, Bytes
  <2>3. QED
    BY <1>1, <2>1, <2>2 DEF Sized
<1>7. Smaller
  BY <1>1, SameSmaller
<1>8. Weighed'
  <2>1. \A j \in Ids : Stray(j)' => Stray(j) /\ j # id
    BY <1>1, <1>5 DEF Stray
  <2>2. \A j \in Ids : Stray(j)' => j \in unscanned' \/ \E o \in orphans' : o.id = j
    BY <1>1, <2>1 DEF BInv, Weighed
  <2>3. \A o \in orphans' : FileBytes(o.id)' <= o.bytes
    <3>1. \A j \in Ids : FileBytes(j)' = FileBytes(j)
      BY <1>1 DEF FileBytes, Bytes
    <3>2. \A o \in orphans : o.id \in Ids /\ FileBytes(o.id) <= o.bytes
      BY <1>1, OrphanWeight DEF BInv, Weighed
    <3>3. QED
      BY <1>1, <3>1, <3>2
  <2>4. orphanBytes' = OrphanSum'
    BY <1>1, SameOrphans DEF BInv, Weighed
  <2>5. QED
    BY <2>2, <2>3, <2>4 DEF Weighed, FileBytes, Bytes
<1>9. Spared' /\ InBudget'
  BY <1>1 DEF Spared, BInv, InBudget, Operating
<1>10. QED
  BY <1>6, <1>8, <1>9 DEF BInv

\* An orphan that is collected is no stray any more.
LEMMA GcBounded ==
    ASSUME IInv, IInv', BInv, ~Fault, NEW o \in orphans, BootGc(o) PROVE BInv'
<1>1. /\ pc = "gc" /\ pc' = "gc" /\ pc \in BootSteps /\ pc' \notin Operating /\ pc' \notin Uncommitted
      /\ orphans' = orphans \ {o} /\ orphanBytes' = orphanBytes - o.bytes
      /\ disk' = [disk EXCEPT ![o.id] = NoDir]
      /\ UNCHANGED <<conf, index, total, disabled, unscanned, job>>
  BY DEF BootGc, BootSteps, Operating, Uncommitted
<1>2. o.id \in Ids /\ o.bytes \in Nat /\ disk[o.id] # NoDir
  BY OrphanWeight DEF IInv, OnDisk
<1>3. disk'[o.id] = NoDir /\ \A j \in Ids \ {o.id} : disk'[j] = disk[j]
  BY <1>1, <1>2 DEF IInv, TypeOK
<1>4. Smaller
  BY <1>1, <1>2, RemovalShrinks, ShrinkSmaller
<1>5. Sized'
  <2>1. ListKept /\ FillKept
    BY <1>1 DEF ListKept, FillKept, Live
  <2>2. QED
    BY <1>4, <2>1, SmallerSized DEF BInv
<1>6. \A j \in Ids : Stray(j)' => j \in unscanned' \/ \E q \in orphans' : q.id = j
  <2>1. \A j \in Ids : Stray(j)' => Stray(j) /\ j # o.id
    BY <1>1, <1>3, <1>4 DEF Stray, Live, Smaller
  <2>2. \A j \in Ids : Stray(j)' => j \in unscanned \/ \E q \in orphans : q.id = j
    BY <1>1, <2>1 DEF BInv, Weighed
  <2>3. QED
    BY <1>1, <2>1, <2>2
<1>7. \A q \in orphans' : FileBytes(q.id)' <= q.bytes
  <2>1. \A j \in Ids : /\ FileBytes(j)' <= FileBytes(j)
                       /\ FileBytes(j) \in Nat /\ FileBytes(j)' \in Nat
    BY <1>4, SmallerBytes, FileBytesType, FileBytesNext
  <2>2. \A q \in orphans : q.id \in Ids /\ q.bytes \in Nat /\ FileBytes(q.id) <= q.bytes
    BY <1>1, OrphanWeight DEF BInv, Weighed
  <2>3. \A q \in orphans' : q.id \in Ids /\ q.bytes \in Nat /\ FileBytes(q.id) <= q.bytes
    BY <1>1, <2>2
  <2>4. QED
    BY <2>1, <2>3
<1>8. orphanBytes' = OrphanSum'
  <2>1. \A q \in orphans' : q.id # o.id
    BY <1>1 DEF IInv, OnDisk
  <2>2. /\ OrphanWeights \in [Ids -> Int] /\ OrphanWeights' \in [Ids -> Int]
        /\ OrphanWeights[o.id] = o.bytes /\ OrphanWeights'[o.id] = 0
    BY <1>2, <2>1, OrphanWeight, OrphanWeightNext
  <2>3. ASSUME NEW j \in Ids \ {o.id} PROVE OrphanWeights'[j] = OrphanWeights[j]
    <3>1. CASE \E q \in orphans' : q.id = j
      <4>1. PICK q \in orphans' : q.id = j
        BY <3>1
      <4>2. q \in orphans
        BY <1>1, <4>1
      <4>3. OrphanWeights[q.id] = q.bytes /\ OrphanWeights'[q.id] = q.bytes
        BY <4>2, OrphanWeight, OrphanWeightNext
      <4>4. QED
        BY <4>1, <4>3
    <3>2. CASE \A q \in orphans' : q.id # j
      <4>1. \A q \in orphans : q.id # j
        BY <1>1, <2>3, <3>2
      <4>2. QED
        BY <3>2, <4>1, OrphanWeight, OrphanWeightNext
    <3>3. QED
      BY <3>1, <3>2
  <2>4. SumOf(OrphanWeights') = SumOf(OrphanWeights) + OrphanWeights'[o.id] - OrphanWeights[o.id]
    BY <1>2, <2>2, <2>3, SumOfChange
  <2>5. orphanBytes = SumOf(OrphanWeights) /\ orphanBytes \in Int
    BY <1>1 DEF BInv, Weighed, OrphanSum, IInv, TypeOK
  <2>6. QED
    BY <1>1, <1>2, <2>2, <2>4, <2>5, PrimedSums
<1>9. Weighed'
  BY <1>6, <1>7, <1>8 DEF Weighed, FileBytes, Bytes
<1>10. Spared' /\ InBudget'
  BY <1>1 DEF Spared, BInv, InBudget
<1>11. QED
  BY <1>5, <1>9, <1>10 DEF BInv

\* The list never weighs less than nothing.
LEMMA TotalNatural == ASSUME IInv, Accounting PROVE total \in Nat
<1> DEFINE X == [id \in Ids |-> 0]
           z == [n \in 0..MaxId |-> 0]
<1>1. X \in [Ids -> Int] /\ SumsTo(z, X) /\ z[MaxId] = 0 /\ \A id \in Ids : X[id] = 0
  BY Bounds DEF SumsTo, Ids
<1>2. \A id \in Ids : Weights[id] >= 0 /\ Weights[id] \in Int
  <2>1. \A id \in Ids : index[id] # NoEntry => EntrySize(index[id]) \in Nat
    BY EntrySizeType DEF IInv, TypeOK
  <2>2. QED
    BY <2>1 DEF Weights
<1> HIDE DEF X, z
<1>3. \A id \in Ids : X[id] <= Weights[id] + X[id]
  BY <1>1, <1>2
<1>4. z[MaxId] <= AccountedUpTo[MaxId] + z[MaxId]
  BY <1>1, <1>3, WeightsType, AccountedSums, SumLess
<1>5. total \in Int
  BY DEF IInv, TypeOK
<1>6. QED
  BY <1>1, <1>4, <1>5 DEF Accounting

\* What is left when the boot has collected fits the budget.
LEMMA BootDoneBounded == ASSUME IInv, IInv', Accounting, BInv, BootDone PROVE BInv'
<1>1. /\ pc = "gc" /\ pc' = "idle"
      /\ orphans = {} \/ total + orphanBytes <= Limit
      /\ UNCHANGED <<disk, conf, index, total, disabled, unscanned, job>>
      /\ pc \in BootSteps /\ pc \notin Uncommitted /\ pc' \notin Uncommitted
      /\ pc' \notin BootSteps
  BY DEF BootDone, BootSteps, Uncommitted
<1>2. Sized'
  BY <1>1, SameSmaller, SmallerSized DEF BInv, ListKept, FillKept, Live
<1>3. \A id \in Ids : StrayWeights'[id] <= OrphanWeights[id]
  <2>1. \A id \in Ids : /\ Stray(id)' => Stray(id)
                        /\ FileBytes(id)' = FileBytes(id) /\ FileBytes(id) \in Nat
    BY <1>1, FileBytesType DEF Stray, Live, FileBytes, Bytes
  <2>2. unscanned = {}
    BY <1>1 DEF IInv, OnDisk
  <2>3. /\ \A o \in orphans : /\ o.id \in Ids /\ OrphanWeights[o.id] = o.bytes
                              /\ FileBytes(o.id) <= o.bytes
        /\ \A id \in Ids : OrphanWeights[id] \in Nat
    BY <1>1, OrphanWeight DEF BInv, Weighed
  <2>4. \A id \in Ids : Stray(id) => FileBytes(id) <= OrphanWeights[id]
    BY <1>1, <2>2, <2>3 DEF BInv, Weighed
  <2>5. \A id \in Ids : StrayWeights'[id] = IF Stray(id)' THEN FileBytes(id)' ELSE 0
    BY DEF StrayWeights
  <2>6. QED
    BY <2>1, <2>3, <2>4, <2>5
<1>4. SumOf(StrayWeights') <= OrphanSum
  BY <1>3, OrphanWeight, PrimedTypes, SumOfMonotone DEF OrphanSum
<1>5. OrphanSum <= Limit
  <2>1. CASE orphans = {}
    <3>1. OrphanWeights = [id \in Ids |-> 0]
      BY <2>1 DEF OrphanWeights
    <3>2. QED
      BY <3>1, SumOfZero, PersistLibraryAssumption DEF OrphanSum
  <2>2. CASE total + orphanBytes <= Limit
    <3>1. orphanBytes = OrphanSum /\ orphanBytes \in Int
      BY <1>1 DEF BInv, Weighed, IInv, TypeOK
    <3>2. QED
      BY <2>2, <3>1, TotalNatural, PersistLibraryAssumption
  <2>3. QED
    BY <1>1, <2>1, <2>2
<1>6. Spared'
  <2>1. PICK f : SumOf(StrayWeights') = f[MaxId] /\ f[MaxId] \in Int
    BY PrimedTypes, SumOfExists
  <2>2. OrphanSum \in Int
    BY <1>1 DEF BInv, Weighed, IInv, TypeOK
  <2>3. StraySum' <= Limit
    BY <1>4, <1>5, <2>1, <2>2, PrimedSums, PersistLibraryAssumption
  <2>4. QED
    BY <2>3 DEF Spared
<1>7. Weighed' /\ InBudget'
  <2>1. pc = "gc" /\ pc \notin Sweeping
    BY <1>1 DEF Sweeping
  <2>2. total <= Limit
    BY <2>1 DEF BInv, InBudget
  <2>3. QED
    BY <1>1, <2>2 DEF Weighed, BInv, InBudget
<1>8. QED
  BY <1>2, <1>6, <1>7 DEF BInv

LEMMA NextBounded ==
    ASSUME IInv, IInv', SInv, MInv, Accounting, Budgeted, BInv, faults' = 0, [Next]_vars
    PROVE  BInv'
<1>1. ~Fault
  BY NoFaultNow
<1>2. CASE BootStep
  BY <1>1, <1>2, ScanBounded, OrphanBounded, AdoptBounded, GcBounded, BootDoneBounded
     DEF BootStep
<1>3. CASE SaveProgress
  BY <1>1, <1>3, AnyEraseBounded, TouchBounded, IdleBounded, AllocBounded, RenameBounded,
     CommitBounded, SyncBounded DEF SaveProgress
<1>4. CASE UpdateStep \/ AcceptLoad
  BY <1>1, <1>4, AnyEraseBounded, TouchBounded, IdleBounded DEF UpdateStep
<1>5. CASE RejectLoad
  <2>1. restore.id \in Ids
    BY <1>5 DEF RejectLoad, IInv, InHand, Live
  <2>2. QED
    BY <1>1, <1>5, <2>1, AnyEraseBounded
<1>6. CASE Arrival
  BY <1>1, <1>6, StartBounded, IdleBounded, AnyEraseBounded, CrashBounded, StandBounded
     DEF Arrival
<1>7. CASE UNCHANGED vars
  BY <1>7, StandBounded
<1>8. QED
  BY <1>2, <1>3, <1>4, <1>5, <1>6, <1>7 DEF Next, InProgress

\* DiskBytes holds the partial sums of the sizes of the directories.
LEMMA DiskSums == ASSUME IInv PROVE SumsTo(DiskBytes, FileWeights)
<1>1. \E f : SumsTo(f, FileWeights)
  BY StrayType, SumExists
<1>2. \A n \in 0..MaxId : n # 0 => n \in Ids
  BY Bounds DEF Ids
<1>3. PICK f : f = [n \in 0..MaxId |-> IF n = 0 THEN 0 ELSE
                     f[n - 1] + (IF disk[n] = NoDir THEN 0
                                 ELSE Bytes(disk[n].target) + Bytes(disk[n].draft))]
  <2>1. PICK f : SumsTo(f, FileWeights)
    BY <1>1
  <2>2. f = [n \in 0..MaxId |-> IF n = 0 THEN 0 ELSE
               f[n - 1] + (IF disk[n] = NoDir THEN 0
                           ELSE Bytes(disk[n].target) + Bytes(disk[n].draft))]
    BY <1>2, <2>1 DEF SumsTo, FileWeights, FileBytes
  <2>3. QED
    BY <2>2
<1>4. DiskBytes = [n \in 0..MaxId |-> IF n = 0 THEN 0 ELSE
         DiskBytes[n - 1] + (IF disk[n] = NoDir THEN 0
                             ELSE Bytes(disk[n].target) + Bytes(disk[n].draft))]
  BY <1>3 DEF DiskBytes
<1>5. QED
  BY <1>2, <1>4 DEF SumsTo, FileWeights, FileBytes

LEMMA BoundedStorage ==
    ASSUME IInv, Accounting, BInv, pc = "idle" PROVE DiskBytes[MaxId] <= 2 * Limit
<1>1. pc \in Operating \ Sweeping /\ pc \notin Uncommitted /\ Limit \in Nat
  BY PersistLibraryAssumption DEF Operating, Sweeping, Uncommitted
<1>2. \A id \in Ids : FileWeights[id] <= Weights[id] + StrayWeights[id]
  <2>1. SUFFICES ASSUME NEW id \in Ids PROVE FileWeights[id] <= Weights[id] + StrayWeights[id]
    OBVIOUS
  <2>2. FileWeights[id] = FileBytes(id) /\ FileBytes(id) \in Nat
    BY FileBytesType DEF FileWeights
  <2>3. CASE id \in Live
    <3>1. disk[id] # NoDir /\ index[id] \in Entry /\ index[id] # NoEntry
      BY <2>3 DEF IInv, TypeOK, OnDisk, Live
    <3>2. /\ Bytes(disk[id].target) <= Bytes(index[id].main)
          /\ Bytes(disk[id].draft) <= Bytes(index[id].drft)
      BY <2>3 DEF BInv, Sized, Within
    <3>3. /\ Bytes(index[id].main) \in Nat /\ Bytes(index[id].drft) \in Nat
          /\ Bytes(disk[id].target) \in Nat /\ Bytes(disk[id].draft) \in Nat
      BY <3>1, BytesType, FileBytesType DEF Entry, Component
    <3>4. FileBytes(id) = Bytes(disk[id].target) + Bytes(disk[id].draft)
      BY <3>1 DEF FileBytes
    <3>5. Weights[id] = Bytes(index[id].main) + Bytes(index[id].drft)
      BY <3>1 DEF Weights, EntrySize
    <3>6. StrayWeights[id] = 0
      BY <2>3 DEF StrayWeights, Stray
    <3>7. QED
      BY <2>2, <3>2, <3>3, <3>4, <3>5, <3>6
  <2>4. CASE id \notin Live
    <3>1. Weights[id] = 0
      BY <2>4 DEF Weights, Live
    <3>2. StrayWeights[id] = FileBytes(id)
      BY <1>1, <2>4 DEF StrayWeights, Stray, FileBytes
    <3>3. QED
      BY <2>2, <3>1, <3>2
  <2>5. QED
    BY <2>3, <2>4
<1>3. PICK h : SumsTo(h, StrayWeights) /\ SumOf(StrayWeights) = h[MaxId] /\ h[MaxId] \in Int
  BY StrayType, SumOfExists
<1>4. DiskBytes[MaxId] <= AccountedUpTo[MaxId] + h[MaxId]
  BY <1>2, <1>3, StrayType, WeightsType, DiskSums, AccountedSums, SumLess
<1>5. AccountedUpTo[MaxId] <= Limit
  BY <1>1 DEF Accounting, BInv, InBudget
<1>6. h[MaxId] <= Limit
  BY <1>1, <1>3 DEF BInv, Spared, StraySum
<1>7. AccountedUpTo[MaxId] \in Int /\ DiskBytes[MaxId] \in Int
  <2>1. MaxId \in 0..MaxId
    BY Bounds
  <2>2. QED
    BY <2>1, SumType, StrayType, WeightsType, DiskSums, AccountedSums
<1>8. QED
  BY <1>1, <1>3, <1>4, <1>5, <1>6, <1>7

\* The invariants of the storage hold until a system call fails.
Unfaulted == faults = 0 => SInv /\ BInv

LEMMA NextUnfaulted ==
    ASSUME IInv, IInv', MInv, Accounting, Budgeted, Unfaulted, [Next]_vars PROVE Unfaulted'
<1>1. SUFFICES ASSUME faults' = 0 PROVE SInv' /\ BInv'
  BY DEF Unfaulted
<1>2. SInv /\ BInv
  BY <1>1, FaultsGrow DEF Unfaulted
<1>3. QED
  BY <1>1, <1>2, NextStore, NextBounded

\* Without a failing system call an idle server stores at most twice its
\* budget, whatever crashes, damage and changes of configuration came before:
\* once for what it lists, once for what other configurations left, which
\* only a boot collects.
THEOREM StoresWithinBudgets == Spec => []StorageBound
<1>1. Init => Budgeted
  BY OutsideBudget DEF Init, Budgeted, SaveSteps, Uncommitted, Sweeping
<1>2. Init => Unfaulted
  BY InitStore DEF Unfaulted, Init, BInv, Sized, Weighed, Spared, InBudget, Live,
       Uncommitted, BootSteps, Operating
<1>3. IInv /\ Budgeted /\ [Next]_vars => Budgeted'
  BY NextBudget
<1>4. IInv /\ IInv' /\ MInv /\ Accounting /\ Budgeted /\ Unfaulted /\ [Next]_vars => Unfaulted'
  BY NextUnfaulted
<1>5. IInv /\ Accounting /\ Unfaulted => StorageBound
  BY BoundedStorage DEF StorageBound, Unfaulted
<1>6. QED
  BY <1>1, <1>2, <1>3, <1>4, <1>5, Inductive, MirrorInvariant, TotalIsSum, PTL DEF Spec
=============================================================================
