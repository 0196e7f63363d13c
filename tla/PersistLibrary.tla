--------------------------- MODULE PersistLibrary ---------------------------
(***************************************************************************)
(* One persistent prompt-cache library: the directory tree                 *)
(* <cache>/.llama-prompt-cache-v1/<subdir>/entry-<id>/ and the             *)
(* server_prompt_cache instance that owns it (boot_persist, save_disk,     *)
(* load_disk, accept/reject_disk_load, erase_disk_state, update_disk).     *)
(* The server's main loop runs these functions one at a time; what can     *)
(* come between two steps of one of them is a crash, a power loss, damage  *)
(* to a file, or a failing system call.                                    *)
(*                                                                         *)
(* A payload file is its token sequence, the drafter whose context wrote   *)
(* it and whether its bytes are still the ones written; its CRC is the     *)
(* payload itself.  Its size is the number of tokens.  Temporary files are *)
(* not represented: no code path reads one back.  The order of the         *)
(* in-memory list is left open: in this mode it only decides which of      *)
(* several eligible entries is handled first.                              *)
(***************************************************************************)
EXTENDS Integers, Sequences, FiniteSets

CONSTANTS
    Prompts,        \* token sequences a slot may hold
    Drafters,       \* drafter tags (common_speculative_type)
    NoDrafter,      \* COMMON_SPECULATIVE_TYPE_NONE, the wildcard tag
    Fingerprints,   \* identity fingerprints
    Configs,        \* what a server may be started with
    Limit,          \* persist_limit_size
    MinTokens,      \* persist_min_tokens
    MirrorLimit,    \* park_ram_mirror_limit
    ScanMayFail,    \* may opening the library directory for the scan fail?
    MaxId, MaxHits, MaxClock,               \* bounds of the instance
    MaxCrashes, MaxFaults, MaxDamage,       \* environment budgets
    NoFile, NoDir, NoEntry, NoJob, NoRestore, NoMirror

Ids == 1..MaxId

Payload == [tokens : Prompts, drafter : Drafters, intact : BOOLEAN]
Component == Payload \cup {NoFile}
Meta == [fp : Fingerprints, tokens : Prompts, drafter : Drafters,
         spec : BOOLEAN, main : Payload, drft : Component,
         hits : Nat, lastUsed : Nat]
Directory == [target : Component, draft : Component,
              meta : Meta \cup {NoFile}]
Entry == [tokens : Prompts, drafter : Drafters, spec : BOOLEAN,
          main : Payload, drft : Component, usable : BOOLEAN,
          hits : Nat, lastUsed : Nat]
Config == [fp : Fingerprints, drafters : SUBSET Drafters,
           drafting : SUBSET Drafters, stateful : BOOLEAN,
           park : BOOLEAN]   \* park_library
Job == [tokens : Prompts, drafter : Drafters, id : Ids \cup {0},
        before : Directory, mirror : BOOLEAN, reclaim : BOOLEAN]
Restore == [id : Ids, main : Component, drft : Component, active : Drafters]
Mirror == [id : Ids, main : Payload, drft : Component]

\* Prompts is a set of non-empty token sequences and the model values name
\* no data.  A server has a draft context for every drafter it routes to or
\* for none (load_model resets both when speculation does not start).
ASSUME PersistLibraryAssumption ==
    /\ \A p \in Prompts : p \in Seq(Nat) /\ p # << >>
    /\ NoDrafter \in Drafters
    /\ Configs \subseteq Config
    /\ \A c \in Configs : c.drafting \in {{}, c.drafters}
    /\ Limit \in Nat /\ MinTokens \in Nat /\ MirrorLimit \in Nat
    /\ ScanMayFail \in BOOLEAN
    /\ MaxId \in Nat /\ MaxHits \in Nat /\ MaxClock \in Nat
    /\ MaxCrashes \in Nat /\ MaxFaults \in Nat /\ MaxDamage \in Nat
    /\ NoFile \notin Payload \cup Meta
    /\ NoDir \notin Directory
    /\ NoEntry \notin Entry
    /\ NoJob \notin Job
    /\ NoRestore \notin Restore
    /\ NoMirror \notin Mirror

VARIABLES
    disk,       \* entry-<id>/ directories
    conf,       \* configuration of the running server
    pc,         \* where the cache code is
    index,      \* disk_states, by id
    total,      \* disk_size_total
    nextId,     \* disk_next_id
    disabled,   \* disk_save_disabled, the circuit breaker
    unscanned,  \* directories the boot scan has not reached
    maxScanned, \* max_scanned_id
    orphans,    \* other configurations' entries not yet collected at boot
    orphanBytes,\* orphan_bytes
    job,        \* the save in progress
    result,     \* what the last save_disk call returned
    restore,    \* a restore waiting for accept_disk_load/reject_disk_load
    mirror,     \* park_mirror
    clock,      \* wall clock, in half-lives of the eviction score
    crashes, faults, damage

disposable == <<conf, index, total, nextId, disabled, unscanned, maxScanned,
                orphans, orphanBytes, job, result, restore, mirror>>
budgets == <<crashes, faults, damage>>
vars == <<disk, pc, clock, disposable, budgets>>
bootVars == <<unscanned, maxScanned, orphans, orphanBytes>>

-----------------------------------------------------------------------------
(* Files, sizes and checksums. *)

EmptyDir == [target |-> NoFile, draft |-> NoFile, meta |-> NoFile]

Bytes(f) == IF f = NoFile THEN 0 ELSE Len(f.tokens)

\* server_prompt_cache_disk_size_exact: only the length is compared.
SizeExact(f, descriptor) ==
    /\ (f = NoFile) = (descriptor = NoFile)
    /\ Bytes(f) = Bytes(descriptor)

\* CRC verification against the sidecar: the bytes are the ones saved.
MutCrcMatches(f, descriptor) == TRUE
CrcMatches(f, descriptor) == f = descriptor

EntrySize(e) == Bytes(e.main) + Bytes(e.drft)

TargetPayload(p) == [tokens |-> p, drafter |-> NoDrafter, intact |-> TRUE]
DraftPayload(p, d) ==
    IF d \in conf.drafting
    THEN [tokens |-> p, drafter |-> d, intact |-> TRUE]
    ELSE NoFile

MutMetaOf(e) ==
    [fp |-> conf.fp, tokens |-> e.tokens, drafter |-> e.drafter,
     spec |-> e.spec, main |-> e.main, drft |-> e.drft,
     hits |-> 0, lastUsed |-> e.lastUsed]
MetaOf(e) == [fp |-> conf.fp, tokens |-> e.tokens, drafter |-> e.drafter,
              spec |-> e.spec, main |-> e.main, drft |-> e.drft,
              hits |-> e.hits, lastUsed |-> e.lastUsed]

\* What boot_persist requires of a directory of its own configuration.
Complete(d) ==
    /\ d # NoDir
    /\ d.meta # NoFile
    /\ SizeExact(d.target, d.meta.main)
    /\ SizeExact(d.draft, d.meta.drft)

\* The directory a failing remove_all leaves: any of its files may be gone.
Leftovers(d) == [target : {d.target, NoFile}, draft : {d.draft, NoFile},
                 meta : {d.meta, NoFile}]

Live == {id \in Ids : index[id] # NoEntry}
Usable == {id \in Live : index[id].usable}

SameDrafter(a, b) == a = b
TagCompatible(entry, active) ==
    entry = active \/ entry = NoDrafter \/ active = NoDrafter

\* llama_persist_eviction_score: hits halve with every half-life of age.
\* Comparing two scores at one instant needs no division.
Age(e) == IF clock <= e.lastUsed THEN 0 ELSE clock - e.lastUsed
ScoreLess(a, b) == a.hits * 2^Age(b) < b.hits * 2^Age(a)

\* persist_pick_victim: i goes before j.
EvictBefore(i, j) ==
    LET a == index[i]  b == index[j] IN
    \/ ScoreLess(a, b)
    \/ /\ ~ScoreLess(b, a)
       /\ a.lastUsed < b.lastUsed \/ (a.lastUsed = b.lastUsed /\ i < j)
MutIsVictim(id, exclude) ==
    /\ id \in Live
    /\ \A j \in Live \ {id} : EvictBefore(id, j)
IsVictim(id, exclude) ==
    /\ id \in Live \ {exclude}
    /\ \A j \in Live \ {exclude, id} : EvictBefore(id, j)

Prefix(p, q) == Len(p) <= Len(q) /\ SubSeq(q, 1, Len(p)) = p

Fault == faults < MaxFaults /\ faults' = faults + 1 /\ UNCHANGED <<crashes, damage>>
NoFault == UNCHANGED budgets

-----------------------------------------------------------------------------
(* erase_disk_state: the entry is quarantined first, its mirror dropped,  *)
(* then its whole directory removed.  A failed removal keeps the entry     *)
(* listed, unusable and accounted, and every caller opens the breaker.     *)

EraseOk(id) ==
    /\ disk' = [disk EXCEPT ![id] = NoDir]
    /\ index' = [index EXCEPT ![id] = NoEntry]
    /\ total' = total - EntrySize(index[id])
    /\ UNCHANGED disabled
    /\ NoFault

MutEraseFailAccounts(id) ==
    /\ \E left \in Leftovers(disk[id]) : disk' = [disk EXCEPT ![id] = left]
    /\ index' = [index EXCEPT ![id].usable = FALSE]
    /\ disabled' = TRUE
    /\ total' = total - EntrySize(index[id])
    /\ Fault
MutEraseFailSilent(id) ==
    /\ \E left \in Leftovers(disk[id]) : disk' = [disk EXCEPT ![id] = left]
    /\ index' = [index EXCEPT ![id].usable = FALSE]
    /\ UNCHANGED <<disabled, total>>
    /\ Fault
EraseFail(id) ==
    /\ \E left \in Leftovers(disk[id]) : disk' = [disk EXCEPT ![id] = left]
    /\ index' = [index EXCEPT ![id].usable = FALSE]
    /\ disabled' = TRUE
    /\ UNCHANGED total
    /\ Fault

MutDropMirror(id) == UNCHANGED mirror
DropMirror(id) ==
    mirror' = IF mirror # NoMirror /\ mirror.id = id THEN NoMirror ELSE mirror

\* persist_write_meta for an entry whose bookkeeping becomes e.
RewriteMeta(id, e) ==
    \/ /\ disk' = [disk EXCEPT ![id].meta = MetaOf(e)]
       /\ NoFault
    \/ UNCHANGED disk /\ Fault

Touched(e) == [e EXCEPT !.hits = @ + 1, !.lastUsed = clock]

-----------------------------------------------------------------------------
(* Boot: the constructor and boot_persist.                                 *)

Fresh(c) ==
    /\ conf' = c
    /\ index' = [id \in Ids |-> NoEntry]
    /\ total' = 0
    /\ nextId' = 1
    /\ disabled' = FALSE
    /\ maxScanned' = 0
    /\ orphans' = {}
    /\ orphanBytes' = 0
    /\ job' = NoJob
    /\ result' = "none"
    /\ restore' = NoRestore
    /\ mirror' = NoMirror

Existing == {id \in Ids : disk[id] # NoDir}

\* Directory, lock and fingerprint are in order; the scan begins.  A park has
\* a directory of its own, which no other library opens.  When the
\* directory iterator cannot be opened the loop sees no entry at all.
Boot(c) ==
    /\ pc = "down" /\ c.park = conf.park
    /\ pc' = "scan"
    /\ Fresh(c)
    /\ \/ unscanned' = Existing /\ NoFault
       \/ ScanMayFail /\ unscanned' = {} /\ Fault
    /\ UNCHANGED <<disk, clock>>

\* The "disable" exits of steps 1-3: the library stays inert for this run.
BootInert(c) ==
    /\ pc = "down" /\ c.park = conf.park
    /\ pc' = "inert"
    /\ Fresh(c)
    /\ unscanned' = {}
    /\ Fault
    /\ UNCHANGED <<disk, clock>>

MutLargerOffByOne(m, n) == IF m > n THEN m ELSE n + 1
Larger(m, n) == IF m > n THEN m ELSE n

Scanned(id) ==
    /\ pc = "scan"
    /\ id \in unscanned
    /\ unscanned' = unscanned \ {id}
    /\ maxScanned' = Larger(maxScanned, id)

NotOurs(id) == disk[id].meta # NoFile /\ disk[id].meta.fp # conf.fp

\* No sidecar, or files that do not match it.
ScanDiscard(id) ==
    /\ Scanned(id)
    /\ ~NotOurs(id) /\ ~Complete(disk[id])
    /\ \/ disk' = [disk EXCEPT ![id] = NoDir] /\ NoFault
       \/ /\ \E left \in Leftovers(disk[id]) : disk' = [disk EXCEPT ![id] = left]
          /\ Fault
    /\ UNCHANGED <<conf, pc, index, total, nextId, disabled, orphans,
                   orphanBytes, job, result, restore, mirror, clock>>

\* Another configuration's entry: kept, only weighed by the collection below.
ScanOrphan(id) ==
    /\ Scanned(id)
    /\ NotOurs(id)
    /\ LET m == disk[id].meta
           size == Bytes(m.main) + Bytes(m.drft)
       IN /\ orphans' = orphans \cup
                {[id |-> id, lastUsed |-> m.lastUsed, bytes |-> size]}
          /\ orphanBytes' = orphanBytes + size
    /\ NoFault
    /\ UNCHANGED <<disk, conf, pc, index, total, nextId, disabled, job,
                   result, restore, mirror, clock>>

ScanAdopt(id) ==
    /\ Scanned(id)
    /\ ~NotOurs(id) /\ Complete(disk[id])
    /\ LET m == disk[id].meta
           e == [tokens |-> m.tokens, drafter |-> m.drafter, spec |-> m.spec,
                 main |-> m.main, drft |-> m.drft, usable |-> TRUE,
                 hits |-> m.hits, lastUsed |-> m.lastUsed]
       IN /\ index' = [index EXCEPT ![id] = e]
          /\ total' = total + EntrySize(e)
    /\ NoFault
    /\ UNCHANGED <<disk, conf, pc, nextId, disabled, orphans, orphanBytes,
                   job, result, restore, mirror, clock>>

ScanDone ==
    /\ pc = "scan" /\ unscanned = {}
    /\ pc' = "evict"
    /\ NoFault
    /\ UNCHANGED <<disk, disposable, clock>>

\* Step 6.  A failing removal ends the loop, and unlike erase_disk_state it
\* leaves the entry usable.
BootEvict(id) ==
    /\ pc = "evict" /\ total > Limit /\ IsVictim(id, 0)
    /\ \/ EraseOk(id) /\ UNCHANGED pc
       \/ /\ \E left \in Leftovers(disk[id]) : disk' = [disk EXCEPT ![id] = left]
          /\ pc' = "gc"
          /\ Fault
          /\ UNCHANGED <<index, total, disabled>>
    /\ UNCHANGED <<conf, nextId, bootVars, job, result, restore, mirror, clock>>

BootEvictDone ==
    /\ pc = "evict" /\ (total <= Limit \/ Live = {})
    /\ pc' = "gc"
    /\ NoFault
    /\ UNCHANGED <<disk, disposable, clock>>

OlderOrphan(a, b) ==
    a.lastUsed < b.lastUsed \/ (a.lastUsed = b.lastUsed /\ a.id <= b.id)

\* Step 7: oldest orphan first; one that cannot be removed stays accounted.
BootGc(o) ==
    /\ pc = "gc" /\ total + orphanBytes > Limit
    /\ o \in orphans
    /\ \A other \in orphans : OlderOrphan(o, other)
    /\ orphans' = orphans \ {o}
    /\ \/ /\ disk' = [disk EXCEPT ![o.id] = NoDir]
          /\ orphanBytes' = orphanBytes - o.bytes
          /\ NoFault
       \/ /\ \E left \in Leftovers(disk[o.id]) :
                disk' = [disk EXCEPT ![o.id] = left]
          /\ UNCHANGED orphanBytes
          /\ Fault
    /\ UNCHANGED <<conf, pc, index, total, nextId, disabled, unscanned,
                   maxScanned, job, result, restore, mirror, clock>>

\* Step 8; the locals of boot_persist go out of scope.
MutBootDone ==
    /\ pc = "gc"
    /\ pc' = "idle"
    /\ nextId' = maxScanned + 1
    /\ maxScanned' = 0 /\ orphans' = {} /\ orphanBytes' = 0
    /\ NoFault
    /\ UNCHANGED <<disk, conf, index, total, disabled, unscanned, job,
                   result, restore, mirror, clock>>
BootDone ==
    /\ pc = "gc" /\ (orphans = {} \/ total + orphanBytes <= Limit)
    /\ pc' = "idle"
    /\ nextId' = maxScanned + 1
    /\ maxScanned' = 0 /\ orphans' = {} /\ orphanBytes' = 0
    /\ NoFault
    /\ UNCHANGED <<disk, conf, index, total, disabled, unscanned, job,
                   result, restore, mirror, clock>>

-----------------------------------------------------------------------------
(* save_disk.                                                              *)

\* The guards before the touch scan; the bound on the hits of an entry the
\* prompt may touch is the instance's.
SaveBegin(p, d) ==
    /\ pc = "idle"
    /\ d \in conf.drafters
    /\ Len(p) >= MinTokens
    /\ nextId <= MaxId
    /\ \A id \in Live : Prefix(p, index[id].tokens) => index[id].hits < MaxHits
    /\ pc' = "touch"
    /\ job' = [tokens |-> p, drafter |-> d, id |-> 0, before |-> EmptyDir,
               mirror |-> FALSE, reclaim |-> TRUE]
    /\ result' = "pending"
    /\ NoFault
    /\ UNCHANGED <<disk, conf, index, total, nextId, disabled, bootVars,
                   restore, mirror, clock>>

\* A stateful blob is valid only at its exact boundary; otherwise any entry
\* that contains the prompt will do.
CanTouch(id) ==
    /\ id \in Usable
    /\ SameDrafter(index[id].drafter, job.drafter)
    /\ IF conf.stateful THEN index[id].tokens = job.tokens
                        ELSE Prefix(job.tokens, index[id].tokens)

PairOk(id) ==
    /\ (job.drafter \in conf.drafting) = (index[id].drft # NoFile)
    /\ conf.stateful => index[id].spec
    /\ SizeExact(disk[id].target, index[id].main)
    /\ index[id].drft # NoFile => SizeExact(disk[id].draft, index[id].drft)

TouchReject(id) ==
    /\ pc = "touch" /\ CanTouch(id) /\ ~PairOk(id)
    /\ EraseOk(id) \/ EraseFail(id)
    /\ DropMirror(id)
    /\ UNCHANGED <<conf, pc, nextId, bootVars, job, result, restore, clock>>

\* The sidecar rewrite is best effort: save_disk returns true either way.
TouchHit(id) ==
    /\ pc = "touch" /\ CanTouch(id) /\ PairOk(id)
    /\ index' = [index EXCEPT ![id] = Touched(@)]
    /\ RewriteMeta(id, Touched(index[id]))
    /\ pc' = "idle" /\ job' = NoJob /\ result' = "saved"
    /\ UNCHANGED <<conf, total, nextId, disabled, bootVars, restore, mirror, clock>>

PredictedSize == Bytes(TargetPayload(job.tokens))
                    + Bytes(DraftPayload(job.tokens, job.drafter))

NoTouch == \A id \in Ids : ~CanTouch(id)

\* Circuit open, or larger than the whole budget.
SaveSkip ==
    /\ pc = "touch" /\ NoTouch
    /\ disabled \/ PredictedSize > Limit
    /\ pc' = "idle" /\ job' = NoJob /\ result' = "skipped"
    /\ NoFault
    /\ UNCHANGED <<disk, conf, index, total, nextId, disabled, bootVars,
                   restore, mirror, clock>>

\* disable_disk_saves followed by "return false".
MutSaveFail ==
    /\ pc' = "idle" /\ job' = NoJob /\ result' = "skipped"
    /\ Fault
    /\ UNCHANGED <<conf, index, total, disabled, bootVars, restore, mirror, clock>>
SaveFail ==
    /\ disabled' = TRUE
    /\ pc' = "idle" /\ job' = NoJob /\ result' = "skipped"
    /\ Fault
    /\ UNCHANGED <<conf, index, total, bootVars, restore, mirror, clock>>

SaveStep(next) ==
    /\ pc' = next
    /\ NoFault
    /\ UNCHANGED <<conf, index, total, disabled, bootVars, result, restore,
                   mirror, clock>>

\* create_directories succeeds on a directory that is already there.
SaveAlloc ==
    /\ pc = "touch" /\ NoTouch /\ ~disabled /\ PredictedSize <= Limit
    /\ nextId' = nextId + 1
    /\ \/ LET dir == IF disk[nextId] = NoDir THEN EmptyDir ELSE disk[nextId] IN
          /\ disk' = [disk EXCEPT ![nextId] = dir]
          /\ job' = [job EXCEPT !.id = nextId, !.before = dir]
          /\ SaveStep("write")
       \/ UNCHANGED disk /\ SaveFail

\* park_mirror_admits; the capture itself may still be given up.
MayMirror == conf.park /\ MirrorLimit > 0 /\ PredictedSize <= MirrorLimit

\* Both temporary files written and synced; on failure they are removed and
\* the entry directory stays.
SaveWrite ==
    /\ pc = "write"
    /\ \/ \E m \in {FALSE, MayMirror} :
          job' = [job EXCEPT !.mirror = m] /\ SaveStep("rename")
       \/ SaveFail
    /\ UNCHANGED <<disk, nextId>>

RenameTarget ==
    /\ pc = "rename"
    /\ \/ /\ disk' = [disk EXCEPT ![job.id].target = TargetPayload(job.tokens)]
          /\ SaveStep(IF job.drafter \in conf.drafting THEN "renameDraft" ELSE "meta")
          /\ UNCHANGED job
       \/ UNCHANGED disk /\ SaveFail
    /\ UNCHANGED nextId

RenameDraft ==
    /\ pc = "renameDraft"
    /\ \/ /\ disk' = [disk EXCEPT ![job.id].draft =
                        DraftPayload(job.tokens, job.drafter)]
          /\ SaveStep("meta")
          /\ UNCHANGED job
       \/ /\ \E left \in {NoFile, disk[job.id].target} :
                disk' = [disk EXCEPT ![job.id].target = left]
          /\ SaveFail
    /\ UNCHANGED nextId

NewEntry == [tokens |-> job.tokens, drafter |-> job.drafter,
             spec |-> conf.stateful, main |-> TargetPayload(job.tokens),
             drft |-> DraftPayload(job.tokens, job.drafter),
             usable |-> TRUE, hits |-> 0, lastUsed |-> clock]

\* remove_all of the entry directory after a failed commit.
DropUncommitted ==
    /\ \E left \in Leftovers(disk[job.id]) \cup {NoDir} :
            disk' = [disk EXCEPT ![job.id] = left]
    /\ SaveFail

\* persist_write_meta: the rename of the sidecar is the commit point.
CommitMeta ==
    /\ pc = "meta"
    /\ \/ /\ disk' = [disk EXCEPT ![job.id].meta = MetaOf(NewEntry)]
          /\ SaveStep("sync")
          /\ UNCHANGED job
       \/ DropUncommitted
    /\ UNCHANGED nextId

\* The entry directory is synced, then the entry is listed and accounted.
SyncDir ==
    /\ pc = "sync"
    /\ \/ /\ index' = [index EXCEPT ![job.id] = NewEntry]
          /\ total' = total + EntrySize(NewEntry)
          /\ pc' = IF conf.park THEN "supersede" ELSE "obsolete"
          /\ NoFault
          /\ UNCHANGED <<disk, conf, disabled, bootVars, job, result,
                         restore, mirror, clock>>
       \/ DropUncommitted
    /\ UNCHANGED nextId

\* One erase of a sweep of the committed save: a failure ends this sweep
\* and the reclaim after it.
Sweep(id, next) ==
    /\ \/ EraseOk(id) /\ UNCHANGED <<pc, job>>
       \/ EraseFail(id) /\ pc' = next /\ job' = [job EXCEPT !.reclaim = FALSE]
    /\ DropMirror(id)
    /\ UNCHANGED <<conf, nextId, bootVars, result, restore, clock>>

SweepDone(next) ==
    /\ pc' = next
    /\ NoFault
    /\ UNCHANGED <<disk, disposable, clock>>

\* persist_park_supersede: every entry but the one just committed.
MutSupersede(id) ==
    /\ pc = "supersede" /\ id \in Live
    /\ Sweep(id, "obsolete")
Supersede(id) ==
    /\ pc = "supersede" /\ id \in Live \ {job.id}
    /\ Sweep(id, "obsolete")

SupersedeDone ==
    /\ pc = "supersede" /\ Live \subseteq {job.id}
    /\ SweepDone("obsolete")

\* Shorter prefixes of the same drafter, for a stateless save only.
IsObsolete(id) ==
    /\ ~conf.stateful
    /\ id \in Live \ {job.id}
    /\ Prefix(index[id].tokens, job.tokens)
    /\ SameDrafter(index[id].drafter, job.drafter)

Obsolete(id) ==
    /\ pc = "obsolete" /\ IsObsolete(id)
    /\ Sweep(id, "reclaim")

ObsoleteDone ==
    /\ pc = "obsolete" /\ \A id \in Ids : ~IsObsolete(id)
    /\ SweepDone("reclaim")

\* Back under budget by score, never at the new entry's expense.
Reclaim(id) ==
    /\ pc = "reclaim" /\ job.reclaim /\ total > Limit
    /\ IsVictim(id, job.id)
    /\ Sweep(id, "reclaim")

MutSaveDone ==
    /\ pc = "reclaim"
    /\ total <= Limit \/ Live \subseteq {job.id}
    /\ pc' = "idle" /\ job' = NoJob /\ result' = "saved"
    /\ UNCHANGED mirror
    /\ NoFault
    /\ UNCHANGED <<disk, conf, index, total, nextId, disabled, bootVars,
                   restore, clock>>
SaveDone ==
    /\ pc = "reclaim"
    /\ ~job.reclaim \/ total <= Limit \/ Live \subseteq {job.id}
    /\ pc' = "idle" /\ job' = NoJob /\ result' = "saved"
    /\ mirror' = IF job.mirror
                 THEN [id |-> job.id, main |-> TargetPayload(job.tokens),
                       drft |-> DraftPayload(job.tokens, job.drafter)]
                 ELSE mirror
    /\ NoFault
    /\ UNCHANGED <<disk, conf, index, total, nextId, disabled, bootVars,
                   restore, clock>>

-----------------------------------------------------------------------------
(* load_disk, accept_disk_load, reject_disk_load, update_disk.  Which      *)
(* usable entry the prompt selection picks is left open.                   *)

DraftWanted(e, d) == e.drft # NoFile /\ TagCompatible(e.drafter, d)

\* The draft gate: an entry whose draft this load will not restore is not
\* served when it has a draft or a draft context is active.
DraftGate(e, d) ==
    DraftWanted(e, d) \/ (d \notin conf.drafting /\ e.drft = NoFile)

MutMirrorHit(id, d) ==
    /\ conf.park /\ MirrorLimit > 0 /\ mirror # NoMirror
    /\ Bytes(mirror.main) = Bytes(index[id].main)
    /\ DraftWanted(index[id], d) =>
            Bytes(mirror.drft) = Bytes(index[id].drft)
MirrorHit(id, d) ==
    /\ conf.park /\ MirrorLimit > 0
    /\ mirror # NoMirror /\ mirror.id = id
    /\ Bytes(mirror.main) = Bytes(index[id].main)
    /\ DraftWanted(index[id], d) =>
            Bytes(mirror.drft) = Bytes(index[id].drft)

\* Sizes, then the CRC of every component about to be restored.
Verified(f, descriptor) ==
    SizeExact(f, descriptor) /\ CrcMatches(f, descriptor)

MutFilesVerify(id, d) ==
    /\ Verified(disk[id].target, index[id].main)
    /\ DraftWanted(index[id], d) =>
          /\ d \in conf.drafting
          /\ Verified(disk[id].draft, index[id].main)
FilesVerify(id, d) ==
    /\ Verified(disk[id].target, index[id].main)
    /\ DraftWanted(index[id], d) =>
          /\ d \in conf.drafting
          /\ Verified(disk[id].draft, index[id].drft)

Servable(id, d) ==
    DraftGate(index[id], d) /\ (MirrorHit(id, d) \/ FilesVerify(id, d))

\* server_prompt_cache::load skips entries without a blob when it needs one.
Candidate(id, d) ==
    /\ pc = "idle" /\ id \in Usable /\ d \in conf.drafters
    /\ conf.stateful => index[id].spec
    /\ index[id].hits < MaxHits

LoadOk(id, d) ==
    /\ Candidate(id, d) /\ Servable(id, d)
    /\ LET main == IF MirrorHit(id, d) THEN mirror.main ELSE disk[id].target
           drft == IF MirrorHit(id, d) THEN mirror.drft ELSE disk[id].draft
       IN restore' = [id |-> id, main |-> main, active |-> d,
                      drft |-> IF DraftWanted(index[id], d) THEN drft ELSE NoFile]
    /\ pc' = "restored"
    /\ NoFault
    /\ UNCHANGED <<disk, conf, index, total, nextId, disabled, bootVars, job,
                   result, mirror, clock>>

LoadReject(id, d) ==
    /\ Candidate(id, d) /\ ~Servable(id, d)
    /\ EraseOk(id) \/ EraseFail(id)
    /\ DropMirror(id)
    /\ UNCHANGED <<conf, pc, nextId, bootVars, job, result, restore, clock>>

AcceptLoad ==
    /\ pc = "restored"
    /\ LET id == restore.id IN
       /\ index' = [index EXCEPT ![id] = Touched(@)]
       /\ RewriteMeta(id, Touched(index[id]))
    /\ pc' = "idle" /\ restore' = NoRestore
    /\ UNCHANGED <<conf, total, nextId, disabled, bootVars, job, result,
                   mirror, clock>>

\* A context did not take the payload it was handed (load_disk), or the
\* speculative state of the entry was refused (prompt_load).
RejectLoad ==
    /\ pc = "restored"
    /\ EraseOk(restore.id) \/ EraseFail(restore.id)
    /\ DropMirror(restore.id)
    /\ pc' = "idle" /\ restore' = NoRestore
    /\ UNCHANGED <<conf, nextId, bootVars, job, result, clock>>

UpdateBegin ==
    /\ pc = "idle" /\ total > Limit /\ Live # {}
    /\ SweepDone("update")

UpdateEvict(id) ==
    /\ pc = "update" /\ total > Limit /\ IsVictim(id, 0)
    /\ \/ EraseOk(id) /\ UNCHANGED pc
       \/ EraseFail(id) /\ pc' = "idle"
    /\ DropMirror(id)
    /\ UNCHANGED <<conf, nextId, bootVars, job, result, restore, clock>>

UpdateDone ==
    /\ pc = "update" /\ (total <= Limit \/ Live = {})
    /\ SweepDone("idle")

-----------------------------------------------------------------------------
(* The environment.                                                        *)

\* The process dies; a power loss may also undo the renames of an entry
\* directory that was not synced yet.
Crash ==
    /\ pc # "down" /\ crashes < MaxCrashes
    /\ crashes' = crashes + 1
    /\ pc' = "down"
    /\ Fresh(conf) /\ unscanned' = {}
    /\ \/ UNCHANGED disk
       \/ /\ pc \in {"renameDraft", "meta", "sync"}
          /\ \E t \in {disk[job.id].target, job.before.target},
                r \in {disk[job.id].draft, job.before.draft},
                m \in {disk[job.id].meta, job.before.meta} :
                disk' = [disk EXCEPT ![job.id] =
                            [target |-> t, draft |-> r, meta |-> m]]
    /\ UNCHANGED <<clock, faults, damage>>

\* A payload rots in place, or a file is lost or unreadable.
Damage(id, part) ==
    /\ damage < MaxDamage /\ damage' = damage + 1
    /\ disk[id] # NoDir /\ disk[id][part] # NoFile
    /\ \/ disk' = [disk EXCEPT ![id][part] = NoFile]
       \/ /\ part # "meta" /\ disk[id][part].intact
          /\ disk' = [disk EXCEPT ![id][part].intact = FALSE]
    /\ UNCHANGED <<pc, disposable, clock, crashes, faults>>

Tick ==
    /\ pc \in {"idle", "down"} /\ clock < MaxClock
    /\ clock' = clock + 1
    /\ UNCHANGED <<disk, pc, disposable, budgets>>

-----------------------------------------------------------------------------
Init ==
    /\ disk = [id \in Ids |-> NoDir]
    /\ conf \in Configs
    /\ pc = "down"
    /\ index = [id \in Ids |-> NoEntry]
    /\ total = 0 /\ nextId = 1 /\ disabled = FALSE
    /\ unscanned = {} /\ maxScanned = 0 /\ orphans = {} /\ orphanBytes = 0
    /\ job = NoJob /\ result = "none"
    /\ restore = NoRestore /\ mirror = NoMirror
    /\ clock = 0
    /\ crashes = 0 /\ faults = 0 /\ damage = 0

\* Steps of a cache function that has begun; the main loop does not leave it.
BootStep ==
    \/ \E id \in Ids : ScanDiscard(id) \/ ScanOrphan(id) \/ ScanAdopt(id)
    \/ ScanDone
    \/ \E id \in Ids : BootEvict(id)
    \/ BootEvictDone
    \/ \E o \in orphans : BootGc(o)
    \/ BootDone

SaveProgress ==
    \/ \E id \in Ids : TouchReject(id) \/ TouchHit(id)
    \/ SaveSkip \/ SaveAlloc \/ SaveWrite \/ RenameTarget \/ RenameDraft
    \/ CommitMeta \/ SyncDir
    \/ \E id \in Ids : Supersede(id) \/ Obsolete(id) \/ Reclaim(id)
    \/ SupersedeDone \/ ObsoleteDone \/ SaveDone

UpdateStep == (\E id \in Ids : UpdateEvict(id)) \/ UpdateDone

InProgress == BootStep \/ SaveProgress \/ UpdateStep \/ AcceptLoad \/ RejectLoad

\* What a request, an operator or the environment starts.
Arrival ==
    \/ \E c \in Configs : Boot(c) \/ BootInert(c)
    \/ \E p \in Prompts, d \in Drafters : SaveBegin(p, d)
    \/ \E id \in Ids, d \in Drafters : LoadOk(id, d) \/ LoadReject(id, d)
    \/ UpdateBegin
    \/ Crash \/ Tick
    \/ \E id \in Ids, part \in {"target", "draft", "meta"} : Damage(id, part)

Next == InProgress \/ Arrival

Spec == Init /\ [][Next]_vars
FairSpec == Spec /\ WF_vars(InProgress)


-----------------------------------------------------------------------------
(* What is checked.                                                        *)

Operating == {"idle", "touch", "write", "rename", "renameDraft", "meta",
              "sync", "supersede", "obsolete", "reclaim", "restored", "update"}
Locations == Operating \cup {"down", "scan", "evict", "gc", "inert"}

\* Every variable holds a value of its kind.
TypeOK ==
    /\ disk \in [Ids -> Directory \cup {NoDir}]
    /\ conf \in Configs
    /\ pc \in Locations
    /\ index \in [Ids -> Entry \cup {NoEntry}]
    /\ total \in Int /\ nextId \in 1..(MaxId + 1) /\ disabled \in BOOLEAN
    /\ unscanned \in SUBSET Ids /\ maxScanned \in 0..MaxId
    /\ orphans \in SUBSET [id : Ids, lastUsed : Nat, bytes : Nat]
    /\ orphanBytes \in Int
    /\ job \in Job \cup {NoJob}
    /\ result \in {"none", "pending", "saved", "skipped"}
    /\ restore \in Restore \cup {NoRestore}
    /\ mirror \in Mirror \cup {NoMirror}
    /\ clock \in Nat
    /\ crashes \in Nat /\ faults \in Nat /\ damage \in Nat

\* disk_size_total is the sum of the sizes of the listed entries, the
\* quarantined ones included, through saves, failed removals and boots: the
\* "accounting invariant failed" branch of erase_disk_state is dead code.
AccountedUpTo[n \in 0..MaxId] ==
    IF n = 0 THEN 0
    ELSE AccountedUpTo[n - 1] +
            (IF index[n] = NoEntry THEN 0 ELSE EntrySize(index[n]))
Accounting == total = AccountedUpTo[MaxId]

\* The contexts receive exactly the bytes that were saved for the entry's
\* tokens, whether they come from the files or from the park mirror, and
\* the active draft context is restored together with the target or the
\* load fails (verify-then-load and the draft gate of load_disk).
ServedIsSaved ==
    pc = "restored" =>
        LET e == index[restore.id] IN
        /\ restore.id \in Usable
        /\ restore.main = TargetPayload(e.tokens)
        /\ (restore.active \in conf.drafting) = (restore.drft # NoFile)
        /\ restore.drft # NoFile =>
              /\ restore.drft.tokens = e.tokens /\ restore.drft.intact
              /\ TagCompatible(restore.drft.drafter, restore.active)

\* The park's RAM mirror always answers for an entry that is still listed,
\* with that entry's bytes: it dies with every erase (park_ram_mirror).
MirrorCoherent ==
    mirror # NoMirror =>
        /\ mirror.id \in Live
        /\ mirror.main = index[mirror.id].main
        /\ mirror.drft = index[mirror.id].drft

\* An entry a later boot would adopt is listed, and so budgeted, as soon as
\* the server is idle, unless the circuit breaker has opened: no save or
\* removal leaks a complete directory (save_disk, erase_disk_state).
Adoptable(id) == Complete(disk[id]) /\ disk[id].meta.fp = conf.fp
NoLeak ==
    pc = "idle" /\ ~disabled => \A id \in Ids : Adoptable(id) => id \in Live

\* The bytes of the payload files on disk stay within twice the budget:
\* once for the listed entries, once for another configuration's orphans,
\* which only a boot collects (step 7), as long as no system call fails.
DiskBytes[n \in 0..MaxId] ==
    IF n = 0 THEN 0
    ELSE DiskBytes[n - 1] +
            (IF disk[n] = NoDir THEN 0
             ELSE Bytes(disk[n].target) + Bytes(disk[n].draft))
StorageBound == pc = "idle" /\ faults = 0 => DiskBytes[MaxId] <= 2 * Limit

\* When save_disk returns true, the prompt is in an entry that the next boot
\* of this configuration adopts: the supersede, obsolete-prefix and reclaim
\* sweeps after the commit never take it, and a touch never vouches for an
\* entry that is no longer complete ("the entry itself is intact").
Holds(id) ==
    /\ Adoptable(id)'
    /\ disk'[id].meta.drafter = job.drafter
    /\ Prefix(job.tokens, disk'[id].meta.tokens)
    /\ conf.stateful => disk'[id].meta.tokens = job.tokens
SavedIsAdoptable ==
    [][result = "pending" /\ result' = "saved" => \E id \in Ids : Holds(id)]_vars

\* A save that returns leaves the library within its budget, or the circuit
\* breaker open: the "no-victim" exit of the reclaim loop never happens.
SaveWithinBudget ==
    [][pc = "reclaim" /\ pc' = "idle" => total' <= Limit \/ disabled']_vars

\* A park that holds a committed entry, listed while it operates, loses its
\* last one only to the budget, to a restore that the contexts refused or to
\* a damaged file: not in a crash between the commit of a new entry and the
\* erase of the old one, a removal that fails, the sweeps of a save or a load
\* (persist_park_supersede).
Held(id) == Complete(disk[id]) /\ (pc \in Operating => id \in Live)
LosesPark ==
    /\ conf.park /\ damage' = 0 /\ pc \notin {"evict", "update", "restored"}
    /\ \E id \in Ids : Held(id)
    /\ \A id \in Ids : ~Complete(disk'[id])
ParkNeverMissing == [][~LosesPark]_vars

\* load_disk erases no entry whose files are exactly the ones saved, unless a
\* request may be routed to a drafter its tag excludes: then the draft gate
\* takes it.
Intact(id) ==
    /\ disk[id].target = index[id].main
    /\ disk[id].draft = index[id].drft
IntactSurvivesLoad ==
    [][\A id \in Usable : pc = "idle" /\ pc' = "idle" /\ id \notin Usable'
        => \/ ~Intact(id)
           \/ \E d \in conf.drafters : ~TagCompatible(index[id].drafter, d)]_vars

\* The listed entries are this configuration's own: saved for a drafter it
\* routes to, with a draft exactly where it has a draft context ("entries
\* written by a different config are never adopted").  The proofs rest
\* on it; it takes a fingerprint that tells the configurations apart.
AdoptsOwn ==
    \A id \in Live :
        /\ index[id].drafter \in conf.drafters
        /\ (index[id].drafter \in conf.drafting) = (index[id].drft # NoFile)
OneIdentity ==
    \A c, d \in Configs :
        c.fp = d.fp => c.drafters = d.drafters /\ c.drafting = d.drafting

\* Every boot, save and update that has begun ends, and the server serves
\* again (the loops of boot_persist, save_disk and update_disk).
Finishes == pc \in Locations \ {"idle", "down", "inert"} ~> pc \in {"idle", "down"}

\* The entries on disk are a store of whole, unchanging entries.
StoreView == [id \in Ids |->
    IF Complete(disk[id])
    THEN LET m == disk[id].meta IN
         [content |-> [fp |-> m.fp, tokens |-> m.tokens, drafter |-> m.drafter,
                       spec |-> m.spec, main |-> m.main, drft |-> m.drft],
          hits |-> m.hits, lastUsed |-> m.lastUsed]
    ELSE NoEntry]
Contents == [fp : Fingerprints, tokens : Prompts, drafter : Drafters,
             spec : BOOLEAN, main : Payload, drft : Component]
Store == INSTANCE EntryStore WITH store <- StoreView, Absent <- NoEntry

\* The library implements EntryStore: no crash, power loss, damage or failing
\* call ever shows a boot half an entry, or changes what an entry holds.
StoreSpec == Store!Spec
=============================================================================
