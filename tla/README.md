# Formal models of the server core

TLA+ modules, TLC configurations and TLAPS proofs for the parts of this
repository whose correctness depends on ordering, failure and shared state: the
fork of llama.cpp under `rocmfpx/`, chiefly `rocmfpx/tools/server`.
Paths below are relative to the repository.

## The system

`llama-server` is one process. HTTP worker threads turn requests into tasks and
wait for their results; one main loop pops tasks, assigns them to slots and runs
decode batches; slots hold the prompt a client continues and take it from, and
give it to, the prompt caches. Around it: memories (attention KV cells,
recurrent snapshots), speculative drafters, samplers, a disk store for
per-layer embeddings, and a router that supervises child servers.

| part | state it keeps | operations | talks to | what is hard |
|---|---|---|---|---|
| persistent prompt-cache library (`server-task.cpp`, `llama-persist-meta.cpp`) | `entry-<id>/` directories on disk; `disk_states`, `disk_size_total`, `disk_next_id`, the circuit breaker, the park's RAM mirror | `boot_persist`, `save_disk`, `load_disk`, `accept/reject_disk_load`, `erase_disk_state`, `update_disk`, `persist_park_supersede` | slots (save at a boundary, load at a task launch); the file system | crashes and power loss between two renames, removals that fail half way, rotten files, two configurations over one directory, stale mirror |
| RAM prompt cache and selection (`server-task.cpp`, `server-context.cpp`) | `states`, `limit_size`; per slot the prompt and the drafter | `save_ram`, `alloc`, `load`, `update`, `get_available_slot`, `prompt_clear`, `try_clear_idle_slots` | slots, both disk libraries, the memories | which of slot and entry serves a task; a drafter that changes between two tasks; allocations and restores that fail |
| per-run disk directory (`server-task.cpp`) | `run-*` directories with `.lock` and `.owner` | constructor's collection of dead runs, destructor | other server processes | two processes at one root, kills at any step |
| task and response queues (`server-queue.cpp`) | tasks, deferred tasks, sleep flags, waiting ids, results | `post`, `defer`, `pop_deferred_task`, `wait_until_no_sleep`, `start_loop`, `send`, `recv`, reader `next`/`stop` | HTTP threads, main loop | lost wake-ups, cancel racing the task, stranded tasks while sleeping, stale results |
| slots and scheduling (`server-context.cpp`) | slots, their state machine | launch, `update_slots`, release | queues, caches, memories | deferral, shared batches, children that wait for a parent |
| speculative decoding (`common/speculative.cpp`, `server-context.cpp`) | draft, checkpoint, sampler copy of a slot | draft, verify, accept, roll back, replay | target memory, sampler | memory, prompt and sampler must be put back to one position |
| reasoning budget (`common/reasoning-budget.cpp`) | sampler state machine | `accept`, `apply`, `clone` | sampling chain | tags split over tokens, forced endings, copies |
| per-layer embedding store (`llama-ple-store.cpp`) | cached shards, LRU order, byte budget | `read_block`, `ensure_cached`, fetch | model graph, disk, concurrent callers | eviction between prefetch and gather |
| recurrent memory (`llama-memory-recurrent.cpp`) | cells, tails, snapshot rows, pending rollbacks | `find_slot`, `seq_rm`, `seq_cp`, state read and write | contexts | cells that move, share and roll back |
| attention KV cache (`llama-kv-cache.cpp`, `llama-kv-cells.h`, `llama-batch.cpp`) | cells, streams, heads, pending copies and shifts | `seq_rm`, `seq_cp`, `seq_add`, `prepare`, `find_slot`, `apply_ubatch`, `update`, state read and write | contexts, slots | what is done at once and what later; cells taken from another sequence; placements that are undone |
| model router (`server-models.cpp`) | child servers, their status and three threads each | load, unload, LRU, reload, proxy, shutdown | child processes | processes that die or answer late, joins under the lock |
| logging worker (`common/log.cpp`) | a ring of entries | `add`, worker, `pause`, `resume` | every thread | growth while the ring wraps, end marks |

What makes each part correct is stated as properties of its module below; the
hazards with their lines are in `PROJECT.json`.

## Modules

`PersistLibrary` models one library and the `server_prompt_cache` that owns it.
The main loop runs the cache functions one at a time, so one action is the code
between two points at which the outside can interfere: a call that can fail, or
a moment at which the process or the machine can die. `pc` names the point.
A payload file is the token sequence it was saved from, the drafter whose
context wrote it and whether its bytes are still those written; its size is its
number of tokens and its CRC is the payload itself (a CRC is assumed not to
collide). Temporary files are left out because no code path reads one back. The
order of `disk_states` is left open: with a persistent library it only decides
which of several eligible entries is handled first, and the model allows any.

| code | model |
|---|---|
| `boot_persist` steps 1-3 | `Boot`, `BootInert` |
| step 4, the scan | `ScanDiscard`, `ScanOrphan`, `ScanAdopt`, `ScanDone` |
| steps 6, 7, 8 | `BootEvict`, `BootGc`, `BootDone` |
| `save_disk`: guards, touch scan | `SaveBegin`, `TouchReject`, `TouchHit`, `SaveSkip` |
| entry directory, temporary files | `SaveAlloc`, `SaveWrite` |
| renames, sidecar, directory sync | `RenameTarget`, `RenameDraft`, `CommitMeta`, `SyncDir` |
| supersede, obsolete prefixes, reclaim, mirror | `Supersede`, `Obsolete`, `Reclaim`, `SaveDone` |
| `erase_disk_state` and the breaker | `EraseOk`, `EraseFail`, `DropMirror` |
| `load_disk`, accept, reject | `LoadOk`, `LoadReject`, `AcceptLoad`, `RejectLoad` |
| `update_disk` | `UpdateBegin`, `UpdateEvict`, `UpdateDone` |
| crash, power loss, bit rot, clock | `Crash`, `Damage`, `Tick` |

`EntryStore` is the abstract promise: a set of whole entries that appear and
disappear one at a time, whose content never changes and whose usage only grows.
`StoreView` maps a library's directories to it (what a boot would adopt).
Whether a library is a park belongs to the server's configuration; a park has a
directory of its own, so every server that opens a directory agrees on it.
`MCPersistLibrary` gives the small instances; `PersistLibraryProofs` and, on top
of it, `PersistSaveProofs` hold the theorems.

`ServerTask`, `ServerQueue` and `ServerResponse` model what one method does
while it holds `mutex_tasks` or `mutex_results` (`Subsequences` is the list that a
loop of erasures leaves); `RequestFlow` says which thread
calls what, and when: the HTTP handlers of the reader protocol and the main
loop. Slots belong to the main loop alone. A request is a sequence of posted
tasks; a completion may have child tasks (`n_cmpl > 1`). What a slot computes is
left out: in any pass a prompt may be refused, go on or be done, and a
generating slot may send a partial result, end or fail.

| code | model |
|---|---|
| `server_queue::post`, `defer`, `pop_deferred_task`, `cleanup_pending_task` | `Post`, `PostFront`, `PostNextResponse`, `PostCancels`, `Defer`, `PopDeferred` |
| `wait_until_no_sleep`, the sleep of `start_loop`, `terminate` | `AskToWake`, `WaitAgain`, `FallAsleep`, `WakeUp`, `Terminate` |
| `server_response` | `AddWaiting`, `RemoveWaiting`, `Purge`, `Send`, `Take` |
| `create_response`, `post_task(s)` | `Arrive`, `Rouse`, `Register`, `PostTasks` |
| reader `next`, `stop` | `Receive`, `Leave`; `Disconnect`, `Unregister`, `PurgeResults`, `CancelTasks` |
| `start_loop` | `StartLoop`, `PopTask`, `EndLoop`, `EndRest`, `GoToSleep`, `Wake` |
| `process_single_task` | `ProcessNext`, `ProcessCancel`, `ProcessMetrics`, `ProcessSlotAction`, `DeferCompletion`, `Launch`, `LaunchFails` |
| `server_slot::release` | `Release` (it sends the slot back and pops one deferred task) |
| `update_slots` | `BeginUpdate`, `PostNext`, `Refuse`, `FillBatch`, `DecodeFails`, `FailSlot`, `PromptDone`, `GoOn`, `Finish`, `EndUpdate` |
| interrupt | `Interrupt` |

`blocked` holds the threads that wait on `condition_tasks` without a timeout and
have not been notified; `NotifyOne` takes any one of them, as `notify_one` may.
`MCRequestFlow` gives the small instances, `RequestFlowProofs` holds the theorems
(the sleep, the queues and the slots, then the results).

`Router` models `server_models`: handlers (proxy, load, unload, reload), the
managing thread, the log reader and the timeout monitor of every child, and the
child as its router sees it: it boots, reports, sleeps, obeys or ignores the
exit command, crashes, and can be waited for only some time after its output
has ended. An action is what a thread does while it holds the mutex, or one
system call. `last_used` is data (any active model may be the LRU victim), HTTP
traffic, exit codes and preset parsing are left out. `MCRouter` gives the
instances, `RouterProofs` the theorems.

| code | model |
|---|---|
| `router_validate_model`, `post_router_models_load/unload` | `AskProxy`, `AskLoad`, `AskUnload` |
| `load`, `unload_lru` | `CountActive`, `Evict`, `Evicted`, `CannotSpawn`, `Refused`, `Spawn` |
| `wait_until_loading_finished`, `proxy_request` | `WaitLoaded`, `Proxy`, `Touch` |
| `unload`, `unload_all`, shutdown | `Unload`, `Interrupt`, `UnloadAll`, `End` |
| `load_models` as a reload | `BeginReload`, `ReloadUnload`, `ReloadCollect`, `ReloadApply`, `Autoload` |
| managing thread | `StopMonitor`, `Reap`, `Report` |
| `stopping_thread` | `Watch`, `SendExit`, `AlreadyStopped`, `ForceKill` |
| log reader; the child | `ReadLine`; `Boots`, `FallsAsleep`, `WakesUp`, `Obeys`, `Fails`, `Exits` |

Eight components share no state with each other in the code; each has a module
of its own, and `MCComponents` explores them together, a behaviour belonging to
one of them. `ComponentProofs` holds the theorems about `LogRing`, `SpecDecode`,
`RunDirectories`, `PromptCache` and `PleStore`, `MemoryProofs` those about
`RecurrentMemory`, `KvCacheProofs` those about `KvCache`:

| module | code | how |
|---|---|---|
| `LogRing` | `common_log`: `LogAdd`, `Take`, `PrintEntry`, `Pause`, `Joined`, `Resume` | the ring with its two positions, doubled when it is full; the worker holds one entry at a time |
| `PleStore` | `ple_store_fetch` in its three passes (`Classify`, `Classified`, `Ensured`), `ensure_cached` (`FindCached`, `Insert`, `ReadFails`), `Gather`, `Served` | two concurrent callers, one lock per shard, blocks and rows as numbers |
| `RecurrentMemory`, `SequenceStates` | `llama_memory_recurrent`: `Ubatch`, `SeqRm`, `CopySeq`, `StateWrite`, `StateRead` | a state is the sequence of tokens it was computed from; `SequenceStates` promises each sequence a state of its own, `StatesPrivate` is the refinement; `fresh` is how many tokens the last ubatch added to each sequence, which is what its snapshots reach back over |
| `SpecDecode`, `ReasoningBudget` | one slot that drafts, decodes, verifies, keeps or restores (`DecodeNew`, `DecodeReplay`, `SampleNext`, `Verify`), its sampler with a budget (`BudgetAccept`, `BudgetForces`, `Clone`) | the model has an answer in mind and, if noisy, changes it in another batch shape; memories of the kinds PART, FULL and RS |
| `RunDirectories` | `server_prompt_cache`'s constructor (`Visit`, `Test`, `RemoveOne`, `Create`, `OpenLock`, `Lock`, `Publish`) and destructor (`Rename`, `Unlock`) | a directory is a set of files and a lock; `Kill` at every step |
| `PromptCache` | `get_available_slot`, `save_ram`, `alloc`, `load`, `update` (`Choose`), the loop over idle slots (`SaveIdle`), `Serve`, `Purge`, `Abandon` | a memory is the set of rows it holds; one or two drafters; allocations and restores that fail |
| `KvCache` | `llama_kv_cache` and `llama_batch_allocr` under `update_slots`, see below | |
| `Router` | its liveness, with one model and two handlers | |

`KvCache` keeps, per stream and cell, the metadata (`pos`, sequences, the shift
not yet applied) and apart from it the row the cell's tensors hold (which token
it was computed for, and for which position its key is rotated), so that what is
done at once and what an update does later can differ.

| code | model |
|---|---|
| `seq_rm`, `seq_cp`, `seq_add`, `update` | `SeqRmRange`, `SeqRmFrom`, `ClearedSeqs`, `SeqCp`, `SeqAdd`, `Copied`, `Updated` |
| `find_slot`, `apply_ubatch`, `prepare` | `FindSlot`, `ApplyUbatch`, `Try`, `Tried`, `Undone`, `Prepared` |
| `split_simple`, `split_equal`, `init_batch` | `SimpleSplit`, `EqualSplit` (`EqualUbatch`, `TakeSeq`), `Splits`, `InitBatch`, `Inconsistent` |
| the graph's rows and mask | `Computed`, `SeesItsText` |
| `state_write`, `state_read` | `Entry`, `LoadedEntry` |
| `process_single_task`, RAM cache | `Launch`, `Refreshed`, `SavedWith` |
| `update_slots` up to the batch | `FillBatch` (`ShiftContext`, `SampledToken`, `NPast`, `StartPrompt`) |
| `update_slots`, decoding | `Refused`, `DecodeBatch` (`NoRoom`, `DecodeView`, `DecodeFails`), `CopyState`, `ActivatedChildren`, `Release`, `Failed` |

A mode is a configuration: unified memory or a stream for each slot, cells,
window, context shifts, RAM cache, several completions. One `llama_kv_cache` is
modelled, either the whole memory or the windowed half of an iSWA pair. Which
slot a task gets and which entry serves it is left open here, `PromptCache`
models it.

Operators named `Mut...` are the definitions next to them with a bug that a
change of the code could plausibly introduce. No specification uses them; they
are there to confirm that each property notices its bug.

## Runs

`CHECK_DEADLOCK FALSE` is said everywhere, because the systems may really stop:
a server can be down with no crash left to spend, have answered every client of
the instance, or end its loop.

| run (`.cfg`) | result | what it shows |
|---|---|---|
| `PersistGeneral` | passes, 141 thousand states and their liveness | over a tree of three prompts, two crashes and one failing call: `disk_size_total` is the sum of what is listed (`Accounting`), what a boot would adopt is listed (`NoLeak`), a save that returned true is adoptable by the next boot (`SavedIsAdoptable`), the reclaim loop meets the budget (`SaveWithinBudget`), the library implements `EntryStore` (`StoreSpec`), and every sweep ends (`Finishes`) |
| `PersistModes` | passes, 2.4 million states | a crash, a failing call, a file that rots or vanishes and a directory scan that fails, over a directory used by an MTP and a dual-drafter server in turn, or over the park of an MTP server with a RAM mirror: only verified bytes of the right drafter reach the contexts (`ServedIsSaved`), a load destroys no intact entry (`IntactSurvivesLoad`, except as in divergence 4), what is on disk stays within what a boot admits (`StorageBound`), the park is never without an entry because of a replacement, a failed removal or a load (`ParkNeverMissing`), and a mirror answers only for the listed entry (`MirrorCoherent`) |
| `FlowServe` | passes | every request is answered (`Answered`), with deferral, a requested slot, two prompts in one request and a child task |
| `FlowCancel` | passes, 2.6 million states | disconnects at any poll, refused launches, failed decodes: no task is in two places (`OnePlace`), no result outlives its request (`NoStaleResult`), none is lost (`Answerable`) |
| `FlowSleep` | passes | the model is unloaded only when no slot works (`SleepsIdle`), `notify_one` reaches the main loop (`OnlyLoopWaits`), a handler that waits gets on (`Awakens`), a terminated loop ends (`LoopEnds`) |
| `Router` | passes, 3.1 million states | two models of which one may run, a handler that proxies and one that loads, unloads and reloads, children that crash, sleep, ignore the exit command, an interrupt: never more live processes than `models_max` (`ProcessesWithinLimit`), none left behind (`NoOrphan`), no join under the mutex waits for a thread that needs it (`JoinsAreFree`), a reload erases only what it joined (`ErasedIsJoined`) |
| `Components` | passes, 240 thousand states | the eight components, below |
| `FlowStranded` | violates `TaskWakes` | a task posted just after the loop fell asleep stays queued |
| `FlowAbort` | violates `NeverAborts` | a refused parent prompt leaves its child waiting; the passes without a token reach `GGML_ABORT` |
| `RouterHang` | violates `LoadingEnds` | a child's monitor misses the only notification that its output ended; the model stays LOADING |
| `RecurrentSplit` | violates `SnapshotsValid` | sequences that add different numbers of tokens are split over ubatches and the snapshots a rollback needs are not written (with even batches they can be lost as well, divergence 21) |
| `KvPending` | violates `AttendsToItsText` | a copy between streams that is still pending overwrites a prompt restored into its target |

`Components` checks:

- `NothingLost`, `PauseEnds` (`LogRing`): every message added is printed once
  and in order, those before a pause before it ends, whatever the ring's growth;
  a pause ends if the ring is not exactly full when it writes its end mark.
- `StoreCoherent` (`PleStore`): a shard's LRU list, block map and byte count
  agree and stay within the budget; a fetch that succeeds has the rows of its
  indices, one that cannot read a block fails, and no block is lost between the
  passes.
- `CellsCoherent`, `StatesPrivate` (`RecurrentMemory`): tails and cells point at
  each other and a cell's position is its state's length; the memory refines
  `SequenceStates`, so no sequence ever computes from another one's state or
  from a snapshot that is not its own.
- `OutputUnchanged`, `PassesJoin`, `ThinkingEnds`, `SpeculationEnds`
  (`SpecDecode`, `ReasoningBudget`): what a speculating slot sends is what it
  would send token by token; after each pass sampler, prompt and memory are at
  one position; a thought ends within its budget; and an answer ends although
  the model may reject the same replayed draft again and again.
- `LiveDirectoryKept`, `StaleCollected` (`RunDirectories`): a running server's
  directory is touched by nobody else; what a dead one left behind is collected
  by the next server that starts and is not killed.
- `MemoryHoldsPrompt` (`PromptCache`): what a slot or an entry calls its prompt
  is exactly what its target memory holds, and rows of one drafter never get
  into the context of another.
- `AttendsToItsText`, `MemoryWhole` (`KvCache`): each decoded token attends to
  the rows of its own slot's text, to all its window shows and to nothing else,
  each computed for its position; between batches a slot's cells end where its
  prompt does and have no holes, and a saved prompt's rows are those of its
  tokens.
- `UnloadEnds`, `ShutdownEnds` (`Router`): an unload that was asked for, and the
  shutdown, end, under the proviso the finding of `RouterHang` needs.

### Bounds, and why they are enough

- Library. `Prompts`: a chain (one prompt a prefix of another) exercises touch,
  supersede and obsolete-prefix; the branch adds two entries neither of which
  covers the other. The code compares prompts by prefix only. `MaxId` 3 or 4:
  enough for an adopted entry, an orphan, a quarantined entry and the one being
  written. `Limit` lets the prompts fit in part, so that evictions happen;
  `MaxHits` 1 and `MaxClock` 1 make ages and uses differ or tie. Two crashes
  (`PersistGeneral`) let a second boot meet the leftovers of the first; a violation that needs more
  faults is not excluded (divergence 9 is one).
- Request flow. Two or three clients over one or two slots make tasks wait for
  slots, launch a parent with its child, and leave the child without room.
  `MaxPasses` is how often a task may come back before it ends.
- Router. Two models and a limit of one force an eviction for every second
  load; two handlers are what every race in the code takes. `MaxLines` 1: one
  line of output is read while the child dies.
- `LogRing`: capacity 2, 6 messages, 2 pauses: the ring doubles twice while it
  wraps. `PleStore`: 9 rows in 5 blocks over 2 shards that hold two blocks each,
  two callers, 3 fetches, so that one fetch exceeds a shard's budget.
- `RecurrentMemory`: 3 cells and sequences, rollback depth 2, 4 operations;
  4 cells with 3 operations (232 thousand states) hold too, and the proofs cover any
  number.
  `SpecDecode`: drafts up to 3, answers up to 6 tokens, budget 2; the answers
  in mind contain blocks within and over the budget, an incomplete sequence at
  its end and two blocks.
- `RunDirectories`: two servers, three starts, one kill, and a directory left by
  an earlier kill; with four starts (485 thousand states) both properties hold
  too. `PromptCache`: two slots, three tasks, a limit of 8 rows.
- `KvCache`: two slots; 4 cells in four modes, 5 cells and a window in one (where
  a slot takes cells of the other and the purge matters), 5 cells of one stream
  with a cache in RAM in one (where a saved prompt is restored between cells of
  the other slot); prompts of one to three tokens, ubatches of 2, two launches. The
  first five also hold with three launches (up to 133 thousand states each), which
  does not fit in the run.

### Fairness

- `PersistLibrary`: weak fairness of `InProgress`. Once a cache function has
  begun, the single main loop runs it to its end; it is not assumed that anything
  is ever saved, loaded or crashes.
- `RequestFlow`: weak fairness of `LoopStep` and of each handler's `ClientStep`.
  They are operating-system threads, and each wait of theirs has a timeout
  or a notification that the model contains. Arrivals, disconnects, falling asleep and
  interrupts are not fair. Where a handler may disconnect or a task fail, only
  safety is claimed.
- `GoToSleep` is taken only when no notified handler is still to run. Time is
  not modelled, and `sleep_idle_seconds` is at least a second
  (`rocmfpx/common/arg.cpp:3348`): a notified thread is assumed to obtain the mutex within that
  time. Without it a handler could be put back to sleep for ever.
- `Router`: weak fairness of each handler, of each managing thread and monitor
  (threads; the monitor's wait has a timeout once a stop was asked for), of a
  child that was killed or ended getting its exit noticed (`Exits`, the kernel),
  and of a start that ends somehow (`EndsStart`). A child need not obey, be
  asked, or crash.
- `LogRing`: the worker thread (`Take`, `PrintEntry`) and a pause that can join
  (`Joined`). `SpecDecode`: the main loop's steps. `RunDirectories`: a server
  that has begun its collection goes on (`Cleans`) unless it is killed.

## Proofs

TLAPS proves, for every value of the constants that satisfies the modules' named
assumptions:

- `PersistLibraryProofs`, for any configurations, prompts, failures and crashes.
  `TypeCorrect`: `Spec => []TypeOK`. `TypeOK` alone is
  not inductive: a quarantined or evicted entry must still have a directory
  (`OnDisk`), a job or restore in hand must be one whenever `pc` is inside a
  save or a load (`InHand`), and scanned and allocated ids must stay below the
  bound (`Numbered`). `IInv` is their conjunction; `Inductive` has one step per
  action, and the lemmas `Erased`, `DroppedType`, `FreshType` and `BudgetType`
  say once what the operators shared by several actions do.
  `MirrorHolds`: `Spec => []MirrorCoherent`, relative to
  that `IInv`. It needs that from its commit to its end a save's entry is listed
  with the bytes it captured (`Committed`: no sweep takes it), and that a boot,
  whose evictions do not look at the mirror, has none (`NotYetMirrored`). Its
  lemmas say of each group of actions which entries it keeps (`Kept`).
  `NothingLeaks` (`NoLeak`) and `StoreRefined`
  (`StoreSpec`), where boots can read their directory (`ScanMayFail = FALSE`:
  divergence 6 is the other case). Their invariant `SInv` says that a sidecar
  on disk describes the entry the library lists (`Sidecar`), that after a scan
  every directory was numbered below the next id (`Counted`), that a save fills
  a directory that was not there and has no sidecar until its commit (`Filled`),
  and that what a boot would adopt is listed once the boot is over (`Listed`,
  of which `NoLeak` is the idle case). `StoreRefined` maps each action to `Add`,
  `Remove`, `Touch` or a stutter of `EntryStore`.
- `PersistSaveProofs`, with no hypothesis: `ServesWhatWasSaved`
  (`ServedIsSaved`), from what every payload on disk may be before and after
  damage (`VInv`). `VInv` also says of every sidecar which configurations can
  have written it, so that two more theorems follow if no two configurations
  with different drafters share a fingerprint (`OneIdentity`): `ListsItsOwn`
  (`AdoptsOwn`) and `LoadSparesTheIntact` (`IntactSurvivesLoad`). The code does
  not guarantee that hypothesis (divergence 20): without it TLC finds both violated.
- `PersistSaveProofs`, the sizes, again with no hypothesis. `TotalIsSum`
  (`Accounting`): the sum over the listed entries is compared with the running
  total by induction on the number of ids. `SavesWithinBudget`
  (`SaveWithinBudget`): the reclaim loop ends within the budget because an empty
  list has total zero and a single entry was checked to fit before it was
  written (`Budgeted`). `StoresWithinBudgets` (`StorageBound`): as long as no
  call has failed, an idle server stores at most twice its budget, through any
  crashes, damage and changes of configuration. Its invariant `BInv` says that no
  file is larger than its sidecar, its entry or its save says (`Sized`), that a
  boot weighs every directory it neither lists nor has still to scan
  (`Weighed`), and that what it leaves fits a budget of its own (`Spared`) beside
  the list (`InBudget`). It needs `SInv`, which holds without a failed call
  even where a scan may fail: the directory a save takes is a new one.
- `PersistSaveProofs`, `SavesAreAdoptable` (`SavedIsAdoptable`), for undamaged
  files, readable boots and at most one failing call: a second failing call can
  meet an entry whose files the first, a failed eviction of the boot, removed in
  part, and a hit on it that cannot rewrite its sidecar still reports success.
  Its invariant `Vouched` says that the entries a hit may choose are complete as
  long as no call failed, and what a save wrote is complete from its renames to
  its end.
- `PersistSaveProofs`, `ParkKeepsOne` (`ParkNeverMissing`), for any number of
  crashes and failing calls, readable boots and a park that is operated by one
  configuration whose drafters serve each other's entries (`ParkOfOne`). It adds
  to `Vouched` that the files of an undamaged directory are those its sidecar and
  its entry name, and that all of them are the park's own (`Whole`), so that a
  touch and a load find nothing to reject and a boot no orphan to collect. TLC
  finds `ParkNeverMissing` violated without either half of the hypothesis: on a park with
  two drafters the draft gate takes the only entry (divergence 4), and a second
  configuration collects what the first one parked.
- `RequestFlowProofs`, `OnlyLoopIsAsleep`:
  `Spec => []OnlyLoopWaits`, for every number of clients, tasks and slots. The
  inductive invariant adds where the main loop can be while `sleeping` holds:
  asleep, or on its way out of a terminated loop (`LoopAsleep`), and that nobody
  is blocked while the server is awake, nor any handler before a wake-up was
  asked for (`HandlersWait`). It is why
  `notify_one` in `wait_until_no_sleep` is enough although several kinds of
  thread share the condition variable.
  `UnloadsOnlyIdle` (`SleepsIdle`) and `TasksInOnePlace` (`OnePlace`) share the
  invariant `PInv`. A posted task is at most once in the main queue, at most once
  among the deferred, in the loop's hand or in one slot, and a child is in a slot
  only while its parent is not waiting for one (`OneEachPlace`); a task that works
  in a slot has a `NEXT_RESPONSE` coming (`Coming`), so a loop that finds its
  queues empty finds its slots idle (`Unloaded`). Neither is inductive alone:
  a task in two places and a slot that works without a message in the queue follow
  from each other's failure.
- `RequestFlowProofs`, the results: `ResultsAreRead` (`NoStaleResult`) and
  `AnswersAreOnTheirWay` (`Answerable`). `LInv` keeps the books of each request: the
  ids waited for are those of the requests that read (`Registered`), a
  queued result has a reader that takes or purges it (`Wanted`), the last word on
  a task comes after its partial results and after the task itself has ended (`LastWord`,
  `Ended`), a cancel is for a request whose handler has gone (`LeftBehind`), and a
  reader has counted exactly the tasks of which nothing more will come, unless an
  error ended it early (`Ledger`).
- `RouterProofs`, for any finite set of models, any handlers and any limit:
  `JoinsNeverBlock` (`JoinsAreFree`), `NobodyIsOrphaned` (`NoOrphan`),
  `LimitHolds` (`ProcessesWithinLimit`) and, if at most one handler reloads
  (`OneReloader`), `ReloadsAreSafe` (`ErasedIsJoined`). The inductive invariant
  `IInv` says of every model how its status, its process and its three threads
  fit together (`Managed`): a status that runs belongs to a managing thread
  that has yet to report, so a joinable thread of a model that does not run has
  made its last step. `LimitHolds` adds that the running models are within
  `models_max` (`WithinLimit`), by cardinality of finite sets; `ReloadsAreSafe`
  adds what a reload knows of the models it is about to erase (`Reloads`).
- `ComponentProofs`, the run directories: `RunningKept` (`LiveDirectoryKept`), for any number of
  servers, starts and kills. `IInv` adds to the types that no two servers own one
  directory (`Owners`), that a name not yet given is in nobody's hands
  (`Fresh`), and that whoever looks at a running server's directory has not
  passed the test of its lock (`Live`).
- `ComponentProofs`, the log: `LogLosesNothing` (`NothingLost`), for a ring of any
  capacity and any number of messages and pauses. The invariant `RingInvariant`
  counts along the ring: the entry k places after the head is the message
  k after those taken (`InOrder`), the end mark of a pause is the last entry, and a
  ring that looks empty while a pause waits is exactly full (`InRing`).
- `ComponentProofs`, speculation: `PassesFit` (`PassesJoin`) and
  `SpeculationIsInvisible` (`OutputUnchanged`), for any answers, drafts, memories
  and budgets. `PassInvariant` says that the memory always holds the prompt and a
  draft that may be taken back has a checkpoint (`Backed`), that before a pass the
  sampler has accepted exactly what was sent (`Ready`), that inside a pass all tokens
  accepted so far but the last are the draft's (`Sampling`), that there is room for
  the draft (`Going`), and that what was sent and accepted is what decoding token by
  token decides (`Decided`). A clone of the reasoning budget taken
  before a draft is the same budget (`CloneIsSame`, for the states a budget can be
  in), which is what makes the rollback of a sampler sound.
  `BlocksAreClosed` (`ThinkingEnds`) rests on `AnswersObey`: every token sent, with
  noise too, is one that the budget let pass after the tokens before it (`Obedient`).
  Along such an answer the tokens that a block has left (`Left`) start within its
  window and go down with each complete token, up to the token of the forced end that
  closes it (`Closing`, `AcceptIs`). Its hypothesis `PlainTags` is that a block starts at one
  token, which neither an end tag nor the forced end contains, and that the
  forced end has a token of an end tag; for a start tag of several tokens `Opens` does
  not say where a block begins.

- `ComponentProofs`, the RAM cache: `CacheHoldsPrompts` (`MemoryHoldsPrompt`), for any
  prompts, slots, drafters and limits, on the hypothesis that no restore of a draft
  context fails (`"draft" \notin Failing`; with it the property is violated, divergence 8).
  `CacheInv` says of each slot and each entry that its main rows are those of
  its prompt and that each drafter's context holds rows of its own only, and of an entry
  that its prompt is not empty. It needs that what a load
  selects is an entry of the list (`Best` folds over it) and that an eviction
  removes entries without touching the others.

- `ComponentProofs`, the embedding store: `StoreStaysCoherent` (`StoreCoherent`), for any
  table, shards, budget, callers and failing reads. In `PleInv` the LRU list of a
  shard decides its map and its byte count (`ShardsHold`), one fetch is in flight at a
  time (`Alone`), every row that a fetch lacks belongs to a block it has still to
  gather (`HasRows`), and the block it gathers from is cached (`Gathers`). The byte
  counts are compared as sums over lists: what an eviction subtracts is the weight of the
  part of the list it cuts (`FreedIs`), and a bump keeps the weight (`BumpHolds`).

- `MemoryProofs`, the recurrent memory: `CellsStayCoherent` (`CellsCoherent`) and the
  refinement `StatesArePrivate` (`StatesPrivate`), for any number of cells and
  snapshots. `MInv` says that tails and the sets of the cells agree (`Linked`), that a
  used cell takes its state from its own row while an empty one has an empty state or none
  (`Homes`), that a sequence which waits for a rollback, or has snapshots, has a cell of its
  own (`Pendings`), that a row is as long as its cell's position says (`Lengths`), and
  that the tokens of the last ubatch can be taken back (`Snapshots`). Most of the proof
  is `find_slot`: `OwnRuns` and `GatherRuns` turn its two loops into runs; by the pigeonhole
  principle there is an empty cell whenever a sequence has none of its own (`FreeCell`,
  the assertion on `empty_cell`), and a row to zero whenever a cell of the range has no
  state (`ZeroRow`; `ZeroRowIsFound` states that assertion as a theorem); after it, the cell
  of each sequence still refers to the row of that sequence's state (`Placement`). From
  that follow what a ubatch reads (`ReadsState`) and what each operation does to each
  sequence. `WritesOneState` says that `state_write_data` never meets the mixed rollbacks
  it would abort for. The hypothesis is `Trailing = FALSE`: only tokens of the last ubatch are
  rolled back. Without it `CellsCoherent` is violated (divergence 16).

- `KvCacheProofs`, the attention memory: `SeesItsWholeText` (`AttendsToItsText`) and
  `MemoryStaysWhole` (`MemoryWhole`), for any number of slots and cells, any prompts,
  batch and ubatch sizes, one stream or one for each slot, context shifts and a
  cache in RAM. The hypothesis `FullAttention` is that no configuration has a window
  or several completions of one prompt: with a window a sequence may take cells of
  another, and with several completions cells are shared or copied later, where the
  first property is violated (`KvPending`). `HoldsItsPrompt` is the invariant,
  `KvInv`, which TLC checked first on configurations of this kind. It says that every
  cell in use belongs to one sequence of its stream (`Owned`); that for some n the cells of a
  slot hold the first n tokens of its prompt, each in one cell, with a key that is rotated
  for the cell's position once the pending shift is done (`Held`); that the batch brings
  the other tokens in order (`Batched`); that a shift is pending only for a slot with
  a token in the batch (`Unshifted`); and that what the cache in RAM holds are whole
  prompts (`TrueEntry`). `find_slot` takes as many cells as the ubatch has tokens, all of them free
  (`FindSlotPlaces`); giving the trials of `prepare` back restores every cell
  (`PreparedFacts`); both splits bring each token of a batch once and in the order of its
  sequence (`SimpleDivides`, `EqualDivides`), by induction along the ubatches; from these follow
  the rows that one ubatch after another computes and sees.
  `StageRun` follows the loop over the slots that fills the batch, with its context
  shifts, its restarts and its prompts that start from a common prefix.

`SequenceFacts` holds what several of them need: induction stated as a fact about sets
of naturals (`NatInductionSet`, from the pigeonhole theorem on finite sets) and the
existence of functions defined by recursion and by folds (`RecursionExists`,
`FoldExists`), since the library's
theorems with an operator parameter cannot be instantiated here, and lemmas on
sums (`Total`) and on sequences from which elements are removed.

The proofs rest on the assumptions named in the modules, which TLC evaluates on
the instances: bounds and capacities are naturals (`PersistLibraryAssumption`,
`MaxModelsAssumption`, `BoundsAssumption`, `CapacityAssumption`,
`BudgetAssumption`, `MemoryAssumption`), and a recurrent memory has a cell
(`SizeAssumption`); the attention memory has cells, its slots are numbered from
0, a prompt has tokens and leaves room in the context, and a shift keeps less
than the context (`KvAssumption`); marks are no members of what they mark
(`NobodyAssumption`, `EndMarkAssumption`); the models are finitely many, and a
parent has fewer children than there are slots (`ModelsAssumption`,
`SourcesAssumption`, `ServerTaskAssumption`); ids are handed out once, and a
metrics request posts one task (`RequestFlowAssumption`: `get_new_id` counts
up); an answer in mind is a sequence of tokens, long enough for all that may be
predicted and drafted (`TextAssumption`, `PredictAssumption`); slots are
numbered, the drafter of the configuration is one of the server's, and prompts
are sequences (`CacheSlotsAssumption`, `DraftersAssumption`,
`PromptsAssumption`); a table has rows, a shard room for a block, and a fetch
asks for a sequence of rows (`TableAssumption`, `ShardAssumption`,
`FetchAssumption`). One theorem has the hypothesis `OneReloader`, two
`ScanMayFail = FALSE`, one that and that nothing is damaged and at most one call
fails, one that and `ParkOfOne`, two `OneIdentity`, one `PlainTags`, one that no
restore of a draft context fails, the four about the recurrent memory
`Trailing = FALSE`, and the three about the attention memory `FullAttention`.

Only model-checked: liveness (`Finishes`, `Answered`, `Awakens`, `LoopEnds` and
those of `Components`), which TLAPS does not reach. Of the safety properties,
`AttendsToItsText` and `MemoryWhole` where `FullAttention` does not hold: with a window,
where the invariant would also have to say which tokens the other sequences may have
taken, and with several completions of one prompt, where cells are shared and copies
between streams are carried out later. Every other safety property of a passing run is
stated by a theorem, under the hypotheses named above.

## Divergences seen while modelling

Five are runs, above; `PROJECT.json` quotes the lines. Others, in
`rocmfpx/tools/server` unless a path says otherwise, that have none:

1. A handler uses the vocabulary of the model (`server-context.cpp:5195`) after
   `create_response` found the server awake, while the main loop may unload it
   (the comment at `:5412` relies on `create_response` for the sleeping case).
2. A CANCEL posted between the pop of a task and its deferral finds nothing to
   remove (`server-queue.cpp:25`, `:435`); the task runs later for nobody.
3. `terminate()` before `start_loop` is undone at `server-queue.cpp:126`.
4. On a dual-drafter server the draft gate of `load_disk`
   (`server-task.cpp:3825`) erases intact entries written for the other drafter,
   which `server-task.h:1023` describes as kept. `IntactSurvivesLoad` excepts
   them.
5. When the budget is short, the boot eviction (`server-task.cpp:2742`) and
   `update_disk` may drop the fresh park entry and keep a stale or quarantined
   one that has hits. `ParkNeverMissing` excepts the two.
6. A boot scan that fails restarts the ids at 1 (`server-task.cpp:2800`), and a
   save may then write over a complete entry that is not listed.
7. The comment at `server-task.cpp:3473` speaks of a sidecar that did not survive,
   where it has just been renamed into place.
8. A restore from the RAM cache whose draft part fails leaves the entry behind
   with an empty main part (`server-task.cpp:4427`). A later load of it succeeds
   with zero bytes: the slot then claims tokens its memory lacks, and
   `server-context.cpp:3788` may abort ("should not happen"). `PromptCache` with
   `Failing = {"draft"}` violates `MemoryHoldsPrompt`.
9. With a second failing call, a touch vouches for an entry whose sidecar a failed
   boot eviction already removed: `PersistGeneral` with `MaxFaults` 2, `MaxId` 3,
   `MaxCrashes` 1 violates `SavedIsAdoptable`.
10. A deferred task can stay deferred while every slot is free
   (`NoneDeferredAtRest`), and a parent that its child's CANCEL missed is
   launched with the child and then cancelled alone (`ChildIsAwaited`,
   `server-context.cpp:2886`). Both are defined in `RequestFlow`; `FlowCancel`
   shows traces when they are added.
11. A server told to terminate while it sleeps does not notify the handlers that
   wait for the wake-up (`server-queue.cpp:187`), and the signal handler locks
   `mutex_tasks` on the thread it interrupts (`server.cpp:345`).
12. After a load whose tag does not match, the active drafter's context keeps
   rows of the old prompt, not only "whatever valid prefix it has"
   (`server-context.cpp:228`): `DraftsFollowPrompt` of `PromptCache` is violated.
   Drafts get worse, the output does not change.
13. Router (`server-models.cpp`, `vendor/sheredom/subprocess.h`): a child that
   `subprocess_alive` has waited for has pid 0, and `subprocess_terminate` then
   signals the router's process group (state "killed"); a reload erases a model a
   load waits for, and `operator[]` creates it without a process (state
   "crashed"); two concurrent reloads reach the assertion at
   `server-models.cpp:460`, although a comment at 724 lets a load wait for a
   reload (`Asks` r1 `{"reload"}`, r2 `{"load", "reload"}`); a stop request left in
   `stopping_models` stops the model's next instance.
14. `pause` at a ring with one free entry makes it look empty and waits for ever
   (`common/log.cpp:300`); `LogRing` marks it `Overrun` and `PauseEnds` excepts it.
15. `common/reasoning-budget.h:14` says of DONE "passthrough forever"; the code
   arms again at the next start tag.
16. `RecurrentMemory` with `Trailing` (the rollback of tokens older than the last
   ubatch, as for a prompt's tail, `server-context.cpp:3683`) violates
   `CellsCoherent`; and `seq_cp` does not copy a pending rollback.
17. On an exact repeat of a slot's prompt the window check is skipped:
   `server-context.cpp:3786` requires `n_past < slot.prompt.n_tokens()` although
   3784 has already allowed for the token that is evaluated again. If the other
   sequence has taken the first row of its window, that token attends to too few
   rows. `KvCache` with `repeats`, `unified` and a window of 2 violates
   `AttendsToItsText`; the modes with a window set `repeats` to FALSE.
18. A parent counts as done when its prompt is in the batch
   (`server-context.cpp:4098`), and its children are activated after the first
   view of that batch (4344). If the batch was halved for want of cells, they get
   a part of the prompt and the next batch is refused (`llama-batch.cpp:305`),
   which ends every task. `KvCache` with `unified` and `several` violates
   `EndsWithPrompt`.
19. `prepare` restores the heads by a stream's place in the ubatch, not by its
   number (`src/llama-kv-cache.cpp:808`), and does not give back what a failed
   trial purged; the first is a hint only, the second frees what the window has
   passed.
20. The fingerprint of a configuration covers the names and sizes of the model and
   of the drafter file, the KV types and the state version
   (`server-context.cpp:1597`), not the speculation type, although the comment at
   1568 says "entries written by a different config are never adopted". A server
   with the draft head of its own model (no drafter file, 1259) and one without
   speculation, or whose speculation did not start, share a fingerprint; each
   adopts the other's entries, and `load_disk` erases them although they are
   intact (`server-task.cpp:3860`, 3825). `PersistModes` with
   `Configs` the union `Mtp \cup Mono` violates `AdoptsOwn` and
   `IntactSurvivesLoad`.
21. Snapshots are lost even when all tokens of a sequence are in one ubatch. Let
   sequence 2 decode a token, then 0, 2 and 3 two each: `split_equal` makes ubatches of
   0 and of 2 with 3 (`llama-batch.cpp:537`), whose cells lie on both sides of the cell of 0;
   for the second one `find_slot` moves that cell, and `build_rs` copies its state
   but not its snapshot rows (`llama-graph.cpp:3125`). `RecurrentMemory` with `Size` 4,
   `Depth` 1 and even batches violates `SnapshotsValid`.

## Not modelled

- Library: the lock that keeps two processes out of one directory, the byte
  formats and their parsers, a CRC-32 collision, the early exit for states beyond
  the size field (`server-task.cpp:3373`), an error of `is_directory` in the
  middle of a scan, and temporary files, which nothing reads back.
- Request flow: everything a slot computes, the tokenization modes of the
  command-line client, a second interrupt (it exits the process), spurious
  wake-ups, a signal handled inside a locked section, and the failure of
  `common_speculative_process` (`server-context.cpp:4334`).
- Prompt cache: checkpoints, the trailing rollback, tasks that are no
  completions, requested slots, children. The disk half is `PersistLibrary`.
- Run directories: failing system calls of the constructor, which throws;
  removals that fail; directories whose server was killed between their creation
  and their marks, which no start collects (`unmarked`); systems without flock.
- Speculation: the drafters and their contexts, the context limit, sampling from
  draft distributions, the special caps of single model families. Budget: `reset`.
- Recurrent memory: `seq_keep`, `seq_add`, `seq_div`, `clear`, tokens of several
  sequences, the convolution state's own rows.
- Attention memory: `seq_keep`, `seq_div`, `clear`, M-RoPE, chunked and symmetric
  windows, checkpoints, chunk reuse, prompts of more than one batch, cancels, the
  pairing with a recurrent memory.
- Router: proxied traffic, preset sources, the exit code.
- HTTP, templates and tools; n-gram drafters; graphs, kernels, quantisation and
  model loading, which are by far the most lines: they are numeric or sequential
  code whose correctness is not a matter of order, failure or shared state.

## Plan

Done, in this order because a lost or wrong prompt state and a hung request are
the two worst things this server can do: the library and its abstract store, the
queues and the request flow, the router, the small components, the run
directories, the prompt cache in memory and the attention memory; the theorems
about the library, the queues, the router, the run directories, the log,
speculation, the cache in memory, the embedding store, the recurrent memory and the
attention memory without a window. What would come next:

1. Theorems about the attention memory with a window and with several completions.
2. `PromptCache` composed with two libraries seen through `EntryStore`.
3. Checkpoints of the windowed and recurrent memories, and prompts that take
   several batches, in `KvCache`.

The instances stay small enough for each run to end within minutes; questions about
one component share a run wherever one instance can answer them.
