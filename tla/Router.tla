------------------------------- MODULE Router -------------------------------
(***************************************************************************)
(* The model router (tools/server/server-models.cpp): one child server     *)
(* process per model, started on demand, at most MaxModels at a time.      *)
(* Threads: the HTTP handlers (h); per instance a managing thread that     *)
(* spawns a reader of the child's output and a monitor that waits for a    *)
(* stop request or the child's death (inst.mgr, inst.monitor).  One mutex  *)
(* guards mapping (known, inst), stopping_models and is_reloading; every   *)
(* action is one of its critical sections, or a step made without it.      *)
(*                                                                         *)
(* A child that ends closes its output first ("closed") and can be waited  *)
(* for later ("zombie"); subprocess_alive waits for it as a side effect,   *)
(* after which its pid is 0 ("reaped").  The time of the last use is data: *)
(* which of the running models is the oldest is left open.                 *)
(***************************************************************************)
EXTENDS Naturals, FiniteSets, Sequences

CONSTANTS
    Models,     \* the model names a source may list
    Requests,   \* the threads that run HTTP handlers
    Asks,       \* bound: the operations each of them is asked for
    MaxModels,  \* base_params.models_max (0: no limit)
    Sources,    \* what the preset sources may list at a reload: sets of models
    MaxLines,   \* bound: status lines a child may have unread in its output
    MayFail,    \* whether getting a port or spawning may fail
    NoModel     \* no model

ASSUME ModelsAssumption == IsFiniteSet(Models)
ASSUME MaxModelsAssumption == MaxModels \in Nat
ASSUME SourcesAssumption == Sources \subseteq (SUBSET Models) \ {{}}

VARIABLES
    router,     \* "up", "closing", "unloading", "ended", or how it died
    known,      \* the keys of mapping
    inst,       \* mapping: the instance of each known model and its threads
    stopping,   \* stopping_models
    reloading,  \* is_reloading
    h           \* what each handler is doing

vars == <<router, known, inst, stopping, reloading, h>>

Up == router \in {"up", "closing", "unloading"}

Statuses == {"UNLOADED", "LOADING", "LOADED", "SLEEPING"}
Children == {"null", "none", "booting", "serving", "asleep", "closed", "zombie", "reaped"}

(* An entry of mapping that add_model made, and one that operator[] made.  *)
Fresh == [status |-> "UNLOADED", joinable |-> FALSE, child |-> "none", lines |-> <<>>,
          exitSent |-> FALSE, mgr |-> "none", monitor |-> "none"]
Phantom == [Fresh EXCEPT !.child = "null"]

Idle == [at |-> "idle", op |-> "none", model |-> NoModel, victim |-> NoModel,
         keep |-> {}, drop |-> {}, todo |-> {}]

Init ==
    /\ router = "up"
    /\ known \in Sources
    /\ inst = [m \in Models |-> Fresh]
    /\ stopping = {}
    /\ reloading = FALSE
    /\ h = [r \in Requests |-> Idle]

Running(m) == m \in known /\ inst[m].status # "UNLOADED"
Active == {m \in Models : Running(m)}
AtLimit == MaxModels > 0 /\ Cardinality(Active) >= MaxModels

(* subprocess_alive: a child that can be waited for is waited for.         *)
Dead(c) == c \in {"zombie", "reaped"}
Waited(c) == IF c = "zombie" THEN "reaped" ELSE c

(* subprocess_terminate: SIGKILL to the pid, which is 0 (the process group *)
(* of the router) once the child was waited for.                           *)
Killed(c) == IF c \in {"booting", "serving", "asleep"} THEN "closed" ELSE c
AfterKill(c) == IF c = "reaped" THEN "killed" ELSE router

(* cv_stop.notify_all                                                      *)
Notified(f) == [m \in Models |-> [f[m] EXCEPT !.monitor = IF @ = "blocked" THEN "checking" ELSE @]]

(***************************************************************************)
(* The child process, and its two threads in the router.                   *)
(***************************************************************************)
Set(m, rec) == inst' = [inst EXCEPT ![m] = rec]

Says(m, from, to, line) ==
    /\ inst[m].child = from
    /\ Len(inst[m].lines) < MaxLines
    /\ Set(m, [inst[m] EXCEPT !.child = to, !.lines = Append(@, line)])
    /\ UNCHANGED <<router, known, stopping, reloading, h>>

Boots(m) == Up /\ Says(m, "booting", "serving", "LOADED")
FallsAsleep(m) == Up /\ Says(m, "serving", "asleep", "SLEEPING")
WakesUp(m) == Up /\ Says(m, "asleep", "serving", "LOADED")

(* The child reads the exit command once it listens to its input; it, or a *)
(* child that fails, closes its output ...                                 *)
Obeys(m) ==
    /\ Up
    /\ inst[m].exitSent /\ inst[m].child \in {"serving", "asleep"}
    /\ Set(m, [inst[m] EXCEPT !.child = "closed"])
    /\ UNCHANGED <<router, known, stopping, reloading, h>>

Fails(m) ==
    /\ Up
    /\ inst[m].child \in {"booting", "serving", "asleep"}
    /\ Set(m, [inst[m] EXCEPT !.child = "closed"])
    /\ UNCHANGED <<router, known, stopping, reloading, h>>

(* ... and is gone some time later.                                        *)
Exits(m) ==
    /\ Up
    /\ inst[m].child = "closed"
    /\ Set(m, [inst[m] EXCEPT !.child = "zombie"])
    /\ UNCHANGED <<router, known, stopping, reloading, h>>

(* log_thread: update_status(name, LOADED or SLEEPING, 0)                  *)
ReadLine(m) ==
    /\ Up
    /\ inst[m].mgr = "reading" /\ inst[m].lines # <<>>
    /\ Set(m, [inst[m] EXCEPT !.lines = Tail(@),
                              !.status = IF m \in known THEN Head(inst[m].lines) ELSE @])
    /\ UNCHANGED <<router, known, stopping, reloading, h>>

MutStopMonitor(m) ==
    /\ Up
    /\ inst[m].mgr = "reading" /\ inst[m].lines = <<>>
    /\ inst[m].child \in {"closed", "zombie", "reaped"}
    /\ stopping' = stopping \ {m}
    /\ inst' = Notified([inst EXCEPT ![m].mgr = "joining", ![m].status = "UNLOADED"])
    /\ UNCHANGED <<router, known, reloading, h>>

(* The output has ended: "stop the timeout monitoring thread".             *)
StopMonitor(m) ==
    /\ Up
    /\ inst[m].mgr = "reading" /\ inst[m].lines = <<>>
    /\ inst[m].child \in {"closed", "zombie", "reaped"}
    /\ stopping' = stopping \ {m}
    /\ inst' = Notified([inst EXCEPT ![m].mgr = "joining"])
    /\ UNCHANGED <<router, known, reloading, h>>

(* stopping_thread.join, then subprocess_join waits for the child.         *)
Reap(m) ==
    /\ Up
    /\ inst[m].mgr = "joining" /\ inst[m].monitor = "done" /\ Dead(inst[m].child)
    /\ Set(m, [inst[m] EXCEPT !.mgr = "reaping", !.child = "reaped"])
    /\ UNCHANGED <<router, known, stopping, reloading, h>>

(* update_status(name, UNLOADED, exit_code), the thread's last step        *)
Report(m) ==
    /\ Up
    /\ inst[m].mgr = "reaping"
    /\ Set(m, [inst[m] EXCEPT !.mgr = "done",
                              !.status = IF m \in known THEN "UNLOADED" ELSE @])
    /\ UNCHANGED <<router, known, stopping, reloading, h>>

(* stopping_thread: cv_stop.wait(lk, should_wake); is_stopping is asked    *)
(* before the child is.                                                    *)
Watch(m) ==
    /\ Up
    /\ inst[m].monitor = "checking"
    /\ IF m \in stopping
       THEN Set(m, [inst[m] EXCEPT !.monitor = "woken"])
       ELSE Set(m, [inst[m] EXCEPT !.monitor = IF Dead(inst[m].child) THEN "woken" ELSE "blocked",
                                   !.child = Waited(@)])
    /\ UNCHANGED <<router, known, stopping, reloading, h>>

SendExit(m) ==
    /\ Up
    /\ inst[m].monitor = "woken"
    /\ IF Dead(inst[m].child)
       THEN Set(m, [inst[m] EXCEPT !.monitor = "done", !.child = Waited(@)])
       ELSE Set(m, [inst[m] EXCEPT !.monitor = "polling", !.exitSent = TRUE])
    /\ UNCHANGED <<router, known, stopping, reloading, h>>

(* The loop that waits for the stop: over, or the timeout has passed.      *)
AlreadyStopped(m) ==
    /\ Up
    /\ inst[m].monitor = "polling" /\ m \notin stopping
    /\ Set(m, [inst[m] EXCEPT !.monitor = "done"])
    /\ UNCHANGED <<router, known, stopping, reloading, h>>

ForceKill(m) ==
    /\ Up
    /\ inst[m].monitor = "polling" /\ m \in stopping
    /\ Set(m, [inst[m] EXCEPT !.monitor = "done", !.child = Killed(@)])
    /\ router' = AfterKill(inst[m].child)
    /\ UNCHANGED <<known, stopping, reloading, h>>

Manager(m) == ReadLine(m) \/ StopMonitor(m) \/ Reap(m) \/ Report(m)
Monitor(m) == Watch(m) \/ SendExit(m) \/ AlreadyStopped(m) \/ ForceKill(m)

EndsStart(m) == inst[m].child = "booting" /\ (Boots(m) \/ Fails(m))

Child(m) == Boots(m) \/ FallsAsleep(m) \/ WakesUp(m) \/ Obeys(m) \/ Fails(m) \/ Exits(m)

(***************************************************************************)
(* The handlers.                                                           *)
(***************************************************************************)
At(r, where) == Up /\ h[r].at = where
Goto(r, where) == h' = [h EXCEPT ![r].at = where]
Finish(r) == h' = [h EXCEPT ![r] = Idle]

(* load() ends, one way or the other: a request for a model waits for it,  *)
(* a reload goes on with the next autoload, or is left by an exception.    *)
AfterLoad(r, threw) ==
    CASE h[r].op = "reload" /\ ~threw -> Goto(r, "autoload")
      [] h[r].op = "proxy" /\ ~threw -> Goto(r, "wait")
      [] OTHER -> Finish(r)

(* router_validate_model and ensure_model_ready of a proxied request, or   *)
(* the look-up of post_router_models_load and _unload: get_meta.           *)
Begin(r, op, m, where) == h' = [h EXCEPT ![r] = [Idle EXCEPT !.at = where, !.op = op, !.model = m]]

CanAsk(r, op) == router = "up" /\ h[r].at = "idle" /\ op \in Asks[r]

AskProxy(r, m) ==
    /\ CanAsk(r, "proxy")
    /\ m \in known
    /\ Begin(r, "proxy", m, CASE inst[m].status = "UNLOADED" -> "load"
                              [] inst[m].status = "LOADING" -> "wait"
                              [] OTHER -> "proxy")
    /\ UNCHANGED <<router, known, inst, stopping, reloading>>

AskLoad(r, m) ==
    /\ CanAsk(r, "load")
    /\ m \in known /\ ~Running(m)
    /\ Begin(r, "load", m, "load")
    /\ UNCHANGED <<router, known, inst, stopping, reloading>>

AskUnload(r, m) ==
    /\ CanAsk(r, "unload")
    /\ Running(m)
    /\ Begin(r, "unload", m, "unload")
    /\ UNCHANGED <<router, known, inst, stopping, reloading>>

MutStopModel(m) ==
    IF Running(m)
    THEN LET force == inst[m].status = "LOADING"
         IN /\ stopping' = stopping \union {m}
            /\ inst' = [inst EXCEPT ![m].child = IF force THEN Killed(@) ELSE @]
            /\ router' = IF force THEN AfterKill(inst[m].child) ELSE router
    ELSE UNCHANGED <<stopping, inst, router>>

(* unload(): also under the lock alone                                     *)
StopModel(m) ==
    IF Running(m)
    THEN LET force == inst[m].status = "LOADING"
         IN /\ stopping' = stopping \union {m}
            /\ inst' = Notified([inst EXCEPT ![m].child = IF force THEN Killed(@) ELSE @])
            /\ router' = IF force THEN AfterKill(inst[m].child) ELSE router
    ELSE UNCHANGED <<stopping, inst, router>>

Unload(r) ==
    /\ At(r, "unload")
    /\ StopModel(h[r].model)
    /\ Finish(r)
    /\ UNCHANGED <<known, reloading>>

(* load(): has_model, then unload_lru: the oldest running model, unless    *)
(* all were used within this very millisecond ...                          *)
CountActive(r) ==
    /\ At(r, "load")
    /\ \/ h[r].model \notin known /\ AfterLoad(r, TRUE)
       \/ h[r].model \in known /\ Goto(r, "spawn")
       \/ /\ h[r].model \in known /\ AtLimit
          /\ \E m \in Active : h' = [h EXCEPT ![r].at = "evict", ![r].victim = m]
    /\ UNCHANGED <<router, known, inst, stopping, reloading>>

(* ... stop it, and wait until it is UNLOADED ...                          *)
Evict(r) ==
    /\ At(r, "evict")
    /\ StopModel(h[r].victim)
    /\ Goto(r, "evicting")
    /\ UNCHANGED <<known, reloading>>

Evicted(r) ==
    /\ At(r, "evicting")
    /\ inst[h[r].victim].status = "UNLOADED"
    /\ known' = known \union {h[r].victim}
    /\ inst' = IF h[r].victim \in known THEN inst ELSE [inst EXCEPT ![h[r].victim] = Phantom]
    /\ h' = [h EXCEPT ![r].at = "spawn", ![r].victim = NoModel]
    /\ UNCHANGED <<router, stopping, reloading>>

(* ... and, once no reload runs: nothing to do, no room, no port or no     *)
(* process, or a new instance.  The thread of the previous one is joined   *)
(* with the lock held.  operator[] on an erased name leads to a            *)
(* null subprocess.                                                        *)
CannotSpawn(r) ==
    /\ At(r, "spawn") /\ ~reloading
    /\ Running(h[r].model)
    /\ AfterLoad(r, FALSE)
    /\ UNCHANGED <<router, known, inst, stopping, reloading>>

Refused(r) ==
    /\ At(r, "spawn") /\ ~reloading
    /\ ~Running(h[r].model)
    /\ AtLimit \/ MayFail
    /\ AfterLoad(r, TRUE)
    /\ known' = known \union {h[r].model}
    /\ inst' = IF h[r].model \in known THEN inst ELSE [inst EXCEPT ![h[r].model] = Phantom]
    /\ UNCHANGED <<router, stopping, reloading>>

MutSpawn(r) ==
    LET m == h[r].model
        old == IF m \in known THEN inst[m] ELSE Phantom
    IN /\ At(r, "spawn") /\ ~reloading
       /\ ~Running(m)
       /\ known' = known \union {m}
       /\ old.joinable => old.mgr = "done"
       /\ Set(m, [Fresh EXCEPT !.status = "LOADING", !.joinable = TRUE,
                               !.child = "booting", !.mgr = "reading", !.monitor = "checking"])
       /\ router' = IF old.child = "null" THEN "crashed" ELSE router
       /\ AfterLoad(r, FALSE)
       /\ UNCHANGED <<stopping, reloading>>

Spawn(r) ==
    LET m == h[r].model
        old == IF m \in known THEN inst[m] ELSE Phantom
    IN /\ At(r, "spawn") /\ ~reloading
       /\ ~Running(m) /\ ~AtLimit
       /\ known' = known \union {m}
       /\ old.joinable => old.mgr = "done"
       /\ Set(m, [Fresh EXCEPT !.status = "LOADING", !.joinable = TRUE,
                               !.child = "booting", !.mgr = "reading", !.monitor = "checking"])
       /\ router' = IF old.child = "null" THEN "crashed" ELSE router
       /\ AfterLoad(r, FALSE)
       /\ UNCHANGED <<stopping, reloading>>

(* wait_until_loading_finished; the check after it only refuses earlier    *)
(* what proxy_request refuses.                                             *)
WaitLoaded(r) ==
    /\ At(r, "wait")
    /\ h[r].model \in known /\ inst[h[r].model].status # "LOADING"
    /\ Goto(r, "proxy")
    /\ UNCHANGED <<router, known, inst, stopping, reloading>>

(* proxy_request: the look-up, then the time of the last use               *)
Proxy(r) ==
    /\ At(r, "proxy")
    /\ \/ Running(h[r].model) /\ Goto(r, "touch")      \* a POST
       \/ Finish(r)                                    \* a GET, or not running
    /\ UNCHANGED <<router, known, inst, stopping, reloading>>

Touch(r) ==
    /\ At(r, "touch")
    /\ known' = known \union {h[r].model}
    /\ inst' = IF h[r].model \in known THEN inst ELSE [inst EXCEPT ![h[r].model] = Phantom]
    /\ Finish(r)
    /\ UNCHANGED <<router, stopping, reloading>>

(***************************************************************************)
(* load_models of a reload: unload what was removed or changed, wait,      *)
(* join the threads without the lock, reconcile, load what is new.         *)
(***************************************************************************)
BeginReload(r) ==
    /\ CanAsk(r, "reload")
    /\ reloading' = TRUE
    /\ \E keep \in Sources : \E changed \in SUBSET (Active \intersect keep) :
           LET drop == (Active \ keep) \union changed
           IN h' = [h EXCEPT ![r] = [Idle EXCEPT !.at = "reload", !.op = "reload",
                                                 !.keep = keep, !.drop = drop, !.todo = drop]]
    /\ UNCHANGED <<router, known, inst, stopping>>

ReloadUnload(r) ==
    /\ At(r, "reload")
    /\ \E m \in h[r].todo :
          /\ StopModel(m)
          /\ h' = [h EXCEPT ![r].todo = @ \ {m}]
    /\ UNCHANGED <<known, reloading>>

MutReloadCollect(r) ==
    LET ended == h[r].drop
    IN /\ At(r, "reload")
       /\ h[r].todo = {}
       /\ \A m \in h[r].drop : ~Running(m)
       /\ inst' = [m \in Models |-> IF m \in ended THEN [inst[m] EXCEPT !.joinable = FALSE] ELSE inst[m]]
       /\ h' = [h EXCEPT ![r].at = "join", ![r].todo = {m \in ended : inst[m].joinable}]
       /\ UNCHANGED <<router, known, stopping, reloading>>

ReloadCollect(r) ==
    LET ended == h[r].drop \union {m \in known \ h[r].keep : ~Running(m)}
    IN /\ At(r, "reload")
       /\ h[r].todo = {}
       /\ \A m \in h[r].drop : ~Running(m)
       /\ inst' = [m \in Models |-> IF m \in ended THEN [inst[m] EXCEPT !.joinable = FALSE] ELSE inst[m]]
       /\ h' = [h EXCEPT ![r].at = "join", ![r].todo = {m \in ended : inst[m].joinable}]
       /\ UNCHANGED <<router, known, stopping, reloading>>

(* A removed model whose thread was not collected fails GGML_ASSERT.       *)
ReloadApply(r) ==
    LET gone == known \ h[r].keep
        new == h[r].keep \ known
    IN /\ At(r, "join")
       /\ \A m \in h[r].todo : inst[m].mgr = "done"
       /\ IF \E m \in gone : inst[m].joinable
          THEN /\ router' = "aborted"
               /\ UNCHANGED <<known, inst, stopping, reloading, h>>
          ELSE /\ known' = h[r].keep
               /\ inst' = [m \in Models |-> IF m \in gone \union new THEN Fresh
                                            ELSE inst[m]]
               /\ reloading' = FALSE
               /\ \E auto \in SUBSET new : h' = [h EXCEPT ![r].at = "autoload", ![r].todo = auto]
               /\ UNCHANGED <<router, stopping>>

Autoload(r) ==
    /\ At(r, "autoload")
    /\ \/ h[r].todo = {} /\ Finish(r)
       \/ \E m \in h[r].todo : h' = [h EXCEPT ![r].at = "load", ![r].model = m, ![r].todo = @ \ {m}]
    /\ UNCHANGED <<router, known, inst, stopping, reloading>>

(***************************************************************************)
(* Shutdown (tools/server/server.cpp): the HTTP server ends with its last  *)
(* handler, then clean_up unloads every model and joins every thread.      *)
(***************************************************************************)
Interrupt ==
    /\ router = "up"
    /\ router' = "closing"
    /\ UNCHANGED <<known, inst, stopping, reloading, h>>

MutUnloadAll ==
    /\ router = "closing"
    /\ \A r \in Requests : h[r].at = "idle"
    /\ router' = "unloading"
    /\ stopping' = stopping
    /\ inst' = Notified(inst)
    /\ UNCHANGED <<known, reloading, h>>

UnloadAll ==
    /\ router = "closing"
    /\ \A r \in Requests : h[r].at = "idle"
    /\ router' = "unloading"
    /\ stopping' = stopping \union Active
    /\ inst' = IF Active = {} THEN inst ELSE Notified(inst)
    /\ UNCHANGED <<known, reloading, h>>

MutEnd ==
    /\ router = "unloading"
    /\ router' = "ended"
    /\ UNCHANGED <<known, inst, stopping, reloading, h>>

End ==
    /\ router = "unloading"
    /\ \A m \in known : inst[m].joinable => inst[m].mgr = "done"
    /\ router' = "ended"
    /\ UNCHANGED <<known, inst, stopping, reloading, h>>

Ask(r) ==
    \/ \E m \in Models : AskProxy(r, m) \/ AskLoad(r, m) \/ AskUnload(r, m)
    \/ BeginReload(r)

Handle(r) ==
    \/ Unload(r) \/ CountActive(r) \/ Evict(r) \/ Evicted(r)
    \/ CannotSpawn(r) \/ Refused(r) \/ Spawn(r)
    \/ WaitLoaded(r) \/ Proxy(r) \/ Touch(r)
    \/ ReloadUnload(r) \/ ReloadCollect(r) \/ ReloadApply(r) \/ Autoload(r)

Next ==
    \/ \E r \in Requests : Ask(r) \/ Handle(r)
    \/ \E m \in Models : Child(m) \/ Manager(m) \/ Monitor(m)
    \/ Interrupt \/ UnloadAll \/ End

Spec == Init /\ [][Next]_vars

(* The router's and the children's threads run on, a child ends its start  *)
(* one way or the other, and its end becomes visible.  Nobody has to ask   *)
(* for anything.                                                           *)
FairSpec ==
    /\ Spec
    /\ \A r \in Requests : WF_vars(Handle(r))
    /\ \A m \in Models : /\ WF_vars(Manager(m)) /\ WF_vars(Monitor(m)) /\ WF_vars(Exits(m))
                       /\ WF_vars(EndsStart(m))
    /\ WF_vars(UnloadAll) /\ WF_vars(End)

(***************************************************************************)
(* Properties.                                                             *)
(***************************************************************************)
Instance ==
    [status : Statuses, joinable : BOOLEAN, child : Children,
     lines : Seq({"LOADED", "SLEEPING"}), exitSent : BOOLEAN,
     mgr : {"none", "reading", "joining", "reaping", "done"},
     monitor : {"none", "checking", "blocked", "woken", "polling", "done"}]

Places == {"idle", "load", "wait", "proxy", "unload", "spawn", "evict", "evicting", "touch",
           "reload", "join", "autoload"}

Handler ==
    [at : Places, op : {"none", "proxy", "load", "unload", "reload"},
     model : Models \union {NoModel}, victim : Models \union {NoModel},
     keep : SUBSET Models, drop : SUBSET Models, todo : SUBSET Models]

TypeOK ==
    /\ router \in {"up", "closing", "unloading", "ended", "killed", "crashed", "aborted"}
    /\ known \subseteq Models
    /\ inst \in [Models -> Instance]
    /\ stopping \subseteq Models
    /\ reloading \in BOOLEAN
    /\ h \in [Requests -> Handler]

(* No more than models_max child processes live at a time, those that are  *)
(* being stopped, or that have crashed without anyone noticing, included.  *)
Lives(m) == inst[m].child \in {"booting", "serving", "asleep", "closed"}
ProcessesWithinLimit == MaxModels > 0 => Cardinality({m \in Models : Lives(m)}) <= MaxModels

(* A process that lives belongs to a model that is listed as running and   *)
(* has a thread that will notice its end; when the router has ended, its   *)
(* children have.                                                          *)
NoOrphan ==
    \A m \in Models : Lives(m) =>
        /\ router # "ended"
        /\ router # "crashed" => Running(m) /\ inst[m].mgr \in {"reading", "joining"}

(* load and ~thread must never block on a managing thread that still needs *)
(* the mutex: load joins it with the mutex held, a reload may erase it.    *)
JoinsAreFree ==
    \A m \in known : inst[m].joinable /\ inst[m].status = "UNLOADED" => inst[m].mgr = "done"

Dies == router \in {"killed", "crashed", "aborted"}

(* The monitor waits for a notification that nobody will send: the output  *)
(* ended while the child could not be waited for yet, and the stop request *)
(* was withdrawn before the monitor looked.                                *)
Hung(m) == inst[m].mgr = "joining" /\ inst[m].monitor = "blocked"

(* An unload that found the model running is carried out, whatever the     *)
(* child does meanwhile, unless the monitor hangs.                         *)
UnloadEnds ==
    \A m \in Models : (m \in stopping /\ Running(m)) ~> (~Running(m) \/ Dies \/ Hung(m))

(* clean_up ends, unless a monitor hangs.                                  *)
ShutdownEnds == router = "unloading" ~> (router = "ended" \/ Dies \/ \E m \in Models : Hung(m))

(* A model leaves the state LOADING.                                       *)
LoadingEnds == \A m \in Models : inst[m].status = "LOADING" ~> (inst[m].status # "LOADING" \/ ~Up)

(* The assertion of a reload holds: the thread of a model that it erases   *)
(* "must have been joined above".  Two reloads at a time can break it: the *)
(* first to end clears is_reloading, and a load gets in between.           *)
OneReloader == \A r, s \in Requests : "reload" \in Asks[r] /\ "reload" \in Asks[s] => r = s
ErasedIsJoined == router # "aborted"
=============================================================================
