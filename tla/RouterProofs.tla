---------------------------- MODULE RouterProofs ----------------------------
(***************************************************************************)
(* Theorems about the model router, for any number of models and handlers, *)
(* any limit, and children that do as they like.                           *)
(***************************************************************************)
EXTENDS Router, FiniteSetTheorems, TLAPS

(***************************************************************************)
(* The inductive invariant.                                                *)
(***************************************************************************)
(* A handler that works on a model has one, and one that waits for an      *)
(* eviction has a victim.                                                  *)
Placed(k) ==
    /\ k.at \in {"load", "wait", "proxy", "unload", "spawn", "evict", "evicting", "touch"}
          => k.model \in Models
    /\ k.at \in {"evict", "evicting"} => k.victim \in Models

Located == \A r \in Requests : Placed(h[r])

(* A model is listed as running as long as its managing thread has not     *)
(* made its last report; before that report the thread has waited for the  *)
(* child; only the thread of a model that is not running was moved away.   *)
Managed(m) ==
    /\ m \notin known => inst[m] = Fresh
    /\ inst[m].status = "UNLOADED" <=> inst[m].mgr \in {"none", "done"}
    /\ inst[m].mgr = "none" => inst[m].joinable = FALSE
    /\ inst[m].mgr \in {"reading", "joining", "reaping"} => inst[m].joinable = TRUE
    /\ inst[m].mgr \in {"none", "reaping", "done"} =>
          inst[m].monitor \in {"none", "done"} /\ ~Lives(m)
    /\ router = "ended" => ~Lives(m)

Threads == \A m \in Models : Managed(m)

IInv == TypeOK /\ Located /\ Threads

Spawned == [Fresh EXCEPT !.status = "LOADING", !.joinable = TRUE,
                         !.child = "booting", !.mgr = "reading", !.monitor = "checking"]

LEMMA NewInstance == Fresh \in Instance /\ Phantom \in Instance /\ Spawned \in Instance
<1>1. <<>> \in Seq({"LOADED", "SLEEPING"})
  OBVIOUS
<1>2. Fresh \in Instance
  BY <1>1 DEF Fresh, Instance, Statuses, Children
<1>3. Phantom \in Instance
  BY <1>2 DEF Phantom, Instance, Children
<1>4. Spawned \in Instance
  BY <1>2 DEF Spawned, Instance, Statuses, Children
<1> QED
  BY <1>2, <1>3, <1>4

LEMMA IdleHandler == Idle \in Handler
BY DEF Idle, Handler, Places

LEMMA InitInv == Init => IInv
<1> SUFFICES ASSUME Init PROVE IInv
  OBVIOUS
<1>1. TypeOK
  BY SourcesAssumption, NewInstance, IdleHandler DEF Init, TypeOK
<1>2. Located
  BY DEF Init, Located, Placed, Idle
<1>3. Threads
  BY DEF Init, Threads, Managed, Lives, Fresh
<1> QED
  BY <1>1, <1>2, <1>3 DEF IInv

(***************************************************************************)
(* Steps that leave the state of the managing threads alone, or move one   *)
(* from reading to joining.                                                *)
(***************************************************************************)
Living == {"booting", "serving", "asleep", "closed"}

(* What such a step may do to an instance i, which becomes j.              *)
Quiet(i, j) ==
    /\ j.joinable = i.joinable
    /\ j.status = "UNLOADED" <=> i.status = "UNLOADED"
    /\ j.mgr = i.mgr \/ (i.mgr \in {"reading", "joining"} /\ j.mgr \in {"reading", "joining"})
    /\ j.child \in Living => i.child \in Living
    /\ j.monitor # i.monitor => i.monitor \notin {"none", "done"}

AllQuiet ==
    /\ inst' \in [Models -> Instance]
    /\ \A m \in Models : /\ Quiet(inst[m], inst'[m])
                         /\ m \notin known => inst'[m] = inst[m]

(* No model becomes running or gets a thread.                              *)
Shrinks ==
    \A m \in Models : /\ inst'[m].joinable = TRUE => inst[m].joinable = TRUE
                      /\ Running(m)' => Running(m)

LEMMA Unmoved == ASSUME NEW i PROVE Quiet(i, i)
BY DEF Quiet

LEMMA QuietThreads ==
    ASSUME IInv, AllQuiet, known' = known, router' = "ended" => router = "ended"
    PROVE Threads'
<1> SUFFICES ASSUME NEW m \in Models PROVE Managed(m)'
  BY DEF Threads
<1> DEFINE i == inst[m]
           j == inst'[m]
<1>1. Managed(m) /\ i \in Instance /\ j \in Instance
  BY DEF IInv, Threads, TypeOK, AllQuiet
<1>2. Quiet(i, j) /\ (m \notin known => j = i)
  BY DEF AllQuiet
<1>3. m \notin known' => j = Fresh
  BY <1>1, <1>2 DEF Managed
<1>4. j.status = "UNLOADED" <=> j.mgr \in {"none", "done"}
  BY <1>1, <1>2 DEF Managed, Quiet
<1>5. j.mgr = "none" => j.joinable = FALSE
  BY <1>1, <1>2 DEF Managed, Quiet
<1>6. j.mgr \in {"reading", "joining", "reaping"} => j.joinable = TRUE
  BY <1>1, <1>2 DEF Managed, Quiet
<1>7. j.mgr \in {"none", "reaping", "done"} => j.monitor \in {"none", "done"} /\ ~Lives(m)'
  BY <1>1, <1>2 DEF Managed, Quiet, Lives, Living
<1>8. router' = "ended" => ~Lives(m)'
  BY <1>1, <1>2 DEF Managed, Quiet, Lives, Living
<1> QED
  BY <1>3, <1>4, <1>5, <1>6, <1>7, <1>8 DEF Managed

(* One instance changes.                                                   *)
LEMMA OneQuiet ==
    ASSUME inst \in [Models -> Instance], NEW m \in Models, m \in known,
           NEW j \in Instance, Quiet(inst[m], j), Set(m, j)
    PROVE AllQuiet
<1>1. inst' = [inst EXCEPT ![m] = j]
  BY DEF Set
<1>2. inst' \in [Models -> Instance] /\ inst'[m] = j
  BY <1>1
<1>3. \A n \in Models : n # m => inst'[n] = inst[n]
  BY <1>1
<1> QED
  BY <1>2, <1>3, Unmoved DEF AllQuiet

(* The monitors are told to look again.                                    *)
Told(i) == [i EXCEPT !.monitor = IF @ = "blocked" THEN "checking" ELSE @]

LEMMA ToldQuiet ==
    ASSUME NEW i \in Instance
    PROVE Told(i) \in Instance /\ Quiet(i, Told(i)) /\ (i = Fresh => Told(i) = i)
<1>1. Told(i) \in Instance
  BY DEF Told, Instance
<1>2. Quiet(i, Told(i))
  BY DEF Told, Instance, Quiet
<1>3. i = Fresh => Told(i) = i
  BY DEF Told, Fresh
<1> QED
  BY <1>1, <1>2, <1>3

LEMMA NotifiedQuiet ==
    ASSUME IInv, NEW f \in [Models -> Instance], inst' = Notified(f),
           \A m \in Models : Quiet(inst[m], f[m]) /\ (m \notin known => f[m] = inst[m])
    PROVE AllQuiet
<1>1. inst' = [m \in Models |-> Told(f[m])]
  BY DEF Notified, Told
<1>2. inst' \in [Models -> Instance]
  BY <1>1, ToldQuiet
<1>3. ASSUME NEW m \in Models
      PROVE /\ Quiet(inst[m], inst'[m])
            /\ m \notin known => inst'[m] = inst[m]
  <2>1. inst'[m] = Told(f[m]) /\ f[m] \in Instance
    BY <1>1
  <2>2. Quiet(f[m], inst'[m]) /\ Quiet(inst[m], f[m]) /\ (f[m] = Fresh => inst'[m] = f[m])
    BY <2>1, ToldQuiet
  <2>3. Quiet(inst[m], inst'[m])
    BY <2>2 DEF Quiet
  <2>4. m \notin known => inst'[m] = inst[m]
    BY <2>2 DEF IInv, Threads, Managed
  <2> QED
    BY <2>3, <2>4
<1> QED
  BY <1>2, <1>3 DEF AllQuiet

LEMMA QuietInv ==
    ASSUME IInv, AllQuiet, known' = known,
           router' = router \/ router' \in {"closing", "unloading", "killed"},
           stopping' \subseteq Models, reloading' \in BOOLEAN,
           h' \in [Requests -> Handler], Located'
    PROVE IInv' /\ Shrinks
<1>1. Threads'
  BY QuietThreads
<1>2. router' \in {"up", "closing", "unloading", "ended", "killed", "crashed", "aborted"}
  BY DEF IInv, TypeOK
<1>3. known' \subseteq Models /\ inst' \in [Models -> Instance]
  BY DEF IInv, TypeOK, AllQuiet
<1>4. TypeOK'
  BY <1>2, <1>3 DEF TypeOK
<1>5. Shrinks
  BY DEF Shrinks, AllQuiet, Quiet, Running
<1> QED
  BY <1>1, <1>4, <1>5 DEF IInv

LEMMA SameHandlers ==
    ASSUME IInv, h' = h
    PROVE h' \in [Requests -> Handler] /\ Located'
BY DEF IInv, TypeOK, Located

(***************************************************************************)
(* The child and its threads.                                              *)
(***************************************************************************)
LEMMA LivingIsManaged ==
    ASSUME IInv, NEW m \in Models, inst[m].child \in Living
    PROVE m \in known /\ inst[m].mgr \in {"reading", "joining"}
<1>1. inst[m] \in Instance /\ Managed(m)
  BY DEF IInv, TypeOK, Threads
<1> QED
  BY <1>1 DEF Managed, Lives, Living, Instance, Fresh

LEMMA WatchedIsManaged ==
    ASSUME IInv, NEW m \in Models, inst[m].monitor \notin {"none", "done"}
    PROVE m \in known /\ inst[m].mgr \in {"reading", "joining"}
<1>1. inst[m] \in Instance /\ Managed(m)
  BY DEF IInv, TypeOK, Threads
<1> QED
  BY <1>1 DEF Managed, Instance, Fresh

(* What a step of the child does to its instance.                          *)
LEMMA ChildQuiet ==
    ASSUME IInv, NEW m \in Models, inst[m].child \in Living,
           NEW c \in Children, NEW ls \in Seq({"LOADED", "SLEEPING"}),
           inst' = [inst EXCEPT ![m] = [inst[m] EXCEPT !.child = c, !.lines = ls]]
    PROVE AllQuiet
<1> DEFINE j == [inst[m] EXCEPT !.child = c, !.lines = ls]
<1>1. inst[m] \in Instance /\ inst \in [Models -> Instance]
  BY DEF IInv, TypeOK
<1>2. j \in Instance
  BY <1>1 DEF Instance
<1>3. Quiet(inst[m], j)
  BY <1>1 DEF Instance, Quiet
<1>4. m \in known
  BY LivingIsManaged
<1>5. Set(m, j)
  BY DEF Set
<1> QED
  BY <1>1, <1>2, <1>3, <1>4, <1>5, OneQuiet

LEMMA SaysQuiet ==
    ASSUME IInv, NEW m \in Models, NEW from \in Living, NEW to \in Children,
           NEW line \in {"LOADED", "SLEEPING"}, Says(m, from, to, line)
    PROVE AllQuiet
<1>1. inst[m] \in Instance
  BY DEF IInv, TypeOK
<1>2. Append(inst[m].lines, line) \in Seq({"LOADED", "SLEEPING"})
  BY <1>1 DEF Instance
<1>3. inst[m].child \in Living
  BY DEF Says
<1>4. inst' = [inst EXCEPT ![m] = [inst[m] EXCEPT !.child = to,
                                                  !.lines = Append(inst[m].lines, line)]]
  BY DEF Says, Set
<1> QED
  BY <1>2, <1>3, <1>4, ChildQuiet

LEMMA EndsQuiet ==
    ASSUME IInv, NEW m \in Models, inst[m].child \in Living, NEW c \in Children,
           Set(m, [inst[m] EXCEPT !.child = c])
    PROVE AllQuiet
<1>1. inst[m] \in Instance
  BY DEF IInv, TypeOK
<1>2. inst[m].lines \in Seq({"LOADED", "SLEEPING"})
  BY <1>1 DEF Instance
<1>3. [inst[m] EXCEPT !.child = c] = [inst[m] EXCEPT !.child = c, !.lines = inst[m].lines]
  BY <1>1 DEF Instance
<1>4. inst' = [inst EXCEPT ![m] = [inst[m] EXCEPT !.child = c, !.lines = inst[m].lines]]
  BY <1>3 DEF Set
<1> QED
  BY <1>2, <1>4, ChildQuiet

LEMMA ChildInv == ASSUME IInv, NEW m \in Models, Child(m) PROVE IInv' /\ Shrinks
<1>1. AllQuiet
  <2>1. CASE Boots(m)
    BY <2>1, SaysQuiet DEF Boots, Living, Children
  <2>2. CASE FallsAsleep(m)
    BY <2>2, SaysQuiet DEF FallsAsleep, Living, Children
  <2>3. CASE WakesUp(m)
    BY <2>3, SaysQuiet DEF WakesUp, Living, Children
  <2>4. CASE Obeys(m)
    BY <2>4, EndsQuiet DEF Obeys, Living, Children
  <2>5. CASE Fails(m)
    BY <2>5, EndsQuiet DEF Fails, Living, Children
  <2>6. CASE Exits(m)
    BY <2>6, EndsQuiet DEF Exits, Living, Children
  <2> QED
    BY <2>1, <2>2, <2>3, <2>4, <2>5, <2>6 DEF Child
<1>2. UNCHANGED <<router, known, stopping, reloading, h>>
  BY DEF Child, Boots, FallsAsleep, WakesUp, Says, Obeys, Fails, Exits
<1>3. stopping' \subseteq Models /\ reloading' \in BOOLEAN
  BY <1>2 DEF IInv, TypeOK
<1> QED
  BY <1>1, <1>2, <1>3, SameHandlers, QuietInv

(* What a step of the monitor does to its instance.                        *)
LEMMA MonitorQuiet ==
    ASSUME IInv, NEW m \in Models, inst[m].monitor \notin {"none", "done"},
           NEW w \in {"checking", "blocked", "woken", "polling", "done"},
           NEW c \in Children, c \in Living => inst[m].child \in Living,
           NEW x \in BOOLEAN,
           inst' = [inst EXCEPT ![m] = [inst[m] EXCEPT !.monitor = w, !.child = c, !.exitSent = x]]
    PROVE AllQuiet
<1> DEFINE j == [inst[m] EXCEPT !.monitor = w, !.child = c, !.exitSent = x]
<1>1. inst[m] \in Instance /\ inst \in [Models -> Instance]
  BY DEF IInv, TypeOK
<1>2. j \in Instance
  BY <1>1 DEF Instance
<1>3. Quiet(inst[m], j)
  BY <1>1 DEF Instance, Quiet
<1>4. m \in known
  BY WatchedIsManaged
<1>5. Set(m, j)
  BY DEF Set
<1> QED
  BY <1>1, <1>2, <1>3, <1>4, <1>5, OneQuiet

LEMMA ChildAfter ==
    ASSUME NEW c \in Children
    PROVE /\ Waited(c) \in Children /\ (Waited(c) \in Living => c \in Living)
          /\ Killed(c) \in Children /\ (Killed(c) \in Living => c \in Living)
BY DEF Waited, Killed, Children, Living

LEMMA WatchQuiet ==
    ASSUME IInv, NEW m \in Models, Watch(m)
    PROVE AllQuiet
<1> DEFINE i == inst[m]
<1>1. i \in Instance
  BY DEF IInv, TypeOK
<1>2. i.child \in Children /\ i.exitSent \in BOOLEAN
  BY <1>1 DEF Instance
<1>3. i.monitor = "checking"
  BY DEF Watch
<1>4. CASE m \in stopping
  <2>1. [i EXCEPT !.monitor = "woken"]
           = [i EXCEPT !.monitor = "woken", !.child = i.child, !.exitSent = i.exitSent]
    BY <1>1 DEF Instance
  <2>2. inst' = [inst EXCEPT ![m] =
                     [i EXCEPT !.monitor = "woken", !.child = i.child, !.exitSent = i.exitSent]]
    BY <1>4, <2>1 DEF Watch, Set
  <2> QED
    BY <1>2, <1>3, <2>2, MonitorQuiet
<1>5. CASE m \notin stopping
  <2> DEFINE w == IF Dead(i.child) THEN "woken" ELSE "blocked"
  <2>1. [i EXCEPT !.monitor = w, !.child = Waited(i.child)]
           = [i EXCEPT !.monitor = w, !.child = Waited(i.child), !.exitSent = i.exitSent]
    BY <1>1 DEF Instance
  <2>2. inst' = [inst EXCEPT ![m] =
                     [i EXCEPT !.monitor = w, !.child = Waited(i.child), !.exitSent = i.exitSent]]
    BY <1>5, <2>1 DEF Watch, Set
  <2>3. w \in {"checking", "blocked", "woken", "polling", "done"}
    OBVIOUS
  <2> HIDE DEF w
  <2> QED
    BY <1>2, <1>3, <2>2, <2>3, ChildAfter, MonitorQuiet
<1> QED
  BY <1>4, <1>5

LEMMA SendExitQuiet ==
    ASSUME IInv, NEW m \in Models, SendExit(m)
    PROVE AllQuiet
<1> DEFINE i == inst[m]
<1>1. i \in Instance
  BY DEF IInv, TypeOK
<1>2. i.child \in Children /\ i.exitSent \in BOOLEAN
  BY <1>1 DEF Instance
<1>3. i.monitor = "woken"
  BY DEF SendExit
<1>4. CASE Dead(i.child)
  <2>1. [i EXCEPT !.monitor = "done", !.child = Waited(i.child)]
           = [i EXCEPT !.monitor = "done", !.child = Waited(i.child), !.exitSent = i.exitSent]
    BY <1>1 DEF Instance
  <2>2. inst' = [inst EXCEPT ![m] =
                   [i EXCEPT !.monitor = "done", !.child = Waited(i.child), !.exitSent = i.exitSent]]
    BY <1>4, <2>1 DEF SendExit, Set
  <2> QED
    BY <1>2, <1>3, <2>2, ChildAfter, MonitorQuiet
<1>5. CASE ~Dead(i.child)
  <2>1. [i EXCEPT !.monitor = "polling", !.exitSent = TRUE]
           = [i EXCEPT !.monitor = "polling", !.child = i.child, !.exitSent = TRUE]
    BY <1>1 DEF Instance
  <2>2. inst' = [inst EXCEPT ![m] =
                   [i EXCEPT !.monitor = "polling", !.child = i.child, !.exitSent = TRUE]]
    BY <1>5, <2>1 DEF SendExit, Set
  <2> QED
    BY <1>2, <1>3, <2>2, MonitorQuiet
<1> QED
  BY <1>4, <1>5

LEMMA PollingQuiet ==
    ASSUME IInv, NEW m \in Models, AlreadyStopped(m) \/ ForceKill(m)
    PROVE AllQuiet
<1> DEFINE i == inst[m]
<1>1. i \in Instance
  BY DEF IInv, TypeOK
<1>2. i.child \in Children /\ i.exitSent \in BOOLEAN
  BY <1>1 DEF Instance
<1>3. i.monitor = "polling"
  BY DEF AlreadyStopped, ForceKill
<1>4. CASE AlreadyStopped(m)
  <2>1. [i EXCEPT !.monitor = "done"]
           = [i EXCEPT !.monitor = "done", !.child = i.child, !.exitSent = i.exitSent]
    BY <1>1 DEF Instance
  <2>2. inst' = [inst EXCEPT ![m] =
                   [i EXCEPT !.monitor = "done", !.child = i.child, !.exitSent = i.exitSent]]
    BY <1>4, <2>1 DEF AlreadyStopped, Set
  <2> QED
    BY <1>2, <1>3, <2>2, MonitorQuiet
<1>5. CASE ForceKill(m)
  <2>1. [i EXCEPT !.monitor = "done", !.child = Killed(i.child)]
           = [i EXCEPT !.monitor = "done", !.child = Killed(i.child), !.exitSent = i.exitSent]
    BY <1>1 DEF Instance
  <2>2. inst' = [inst EXCEPT ![m] =
                   [i EXCEPT !.monitor = "done", !.child = Killed(i.child), !.exitSent = i.exitSent]]
    BY <1>5, <2>1 DEF ForceKill, Set
  <2> QED
    BY <1>2, <1>3, <2>2, ChildAfter, MonitorQuiet
<1> QED
  BY <1>4, <1>5

LEMMA KilledRouter ==
    ASSUME NEW c, Up, router' = AfterKill(c)
    PROVE router' = router \/ router' \in {"closing", "unloading", "killed"}
BY DEF AfterKill

LEMMA MonitorInv == ASSUME IInv, NEW m \in Models, Monitor(m) PROVE IInv' /\ Shrinks
<1>1. AllQuiet
  BY WatchQuiet, SendExitQuiet, PollingQuiet DEF Monitor
<1>2. UNCHANGED <<known, stopping, reloading, h>>
  BY DEF Monitor, Watch, SendExit, AlreadyStopped, ForceKill
<1>3. router' = router \/ router' \in {"closing", "unloading", "killed"}
  BY KilledRouter DEF Monitor, Watch, SendExit, AlreadyStopped, ForceKill
<1>4. stopping' \subseteq Models /\ reloading' \in BOOLEAN
  BY <1>2 DEF IInv, TypeOK
<1> QED
  BY <1>1, <1>2, <1>3, <1>4, SameHandlers, QuietInv

LEMMA ReadLineQuiet == ASSUME IInv, NEW m \in Models, ReadLine(m) PROVE AllQuiet
<1> DEFINE i == inst[m]
<1>1. i \in Instance /\ inst \in [Models -> Instance] /\ Managed(m)
  BY DEF IInv, TypeOK, Threads
<1>2. i.mgr = "reading" /\ i.lines # <<>>
  BY DEF ReadLine
<1>3. m \in known /\ i.status # "UNLOADED"
  BY <1>1, <1>2 DEF Managed, Fresh
<1>4. /\ Tail(i.lines) \in Seq({"LOADED", "SLEEPING"})
      /\ Head(i.lines) \in {"LOADED", "SLEEPING"}
  BY <1>1, <1>2 DEF Instance
<1> DEFINE j == [i EXCEPT !.lines = Tail(i.lines), !.status = Head(i.lines)]
<1>5. j \in Instance
  BY <1>1, <1>4 DEF Instance, Statuses
<1>6. Quiet(i, j)
  BY <1>1, <1>3, <1>4 DEF Instance, Quiet
<1>7. Set(m, j)
  BY <1>3 DEF ReadLine, Set
<1> QED
  BY <1>1, <1>3, <1>5, <1>6, <1>7, OneQuiet

LEMMA StopMonitorQuiet == ASSUME IInv, NEW m \in Models, StopMonitor(m) PROVE AllQuiet
<1> DEFINE i == inst[m]
           j == [i EXCEPT !.mgr = "joining"]
           f == [inst EXCEPT ![m] = j]
<1>1. i \in Instance /\ inst \in [Models -> Instance] /\ Managed(m) /\ i.mgr = "reading"
  BY DEF IInv, TypeOK, Threads, StopMonitor
<1>2. m \in known
  BY <1>1 DEF Managed, Fresh
<1>3. j \in Instance /\ Quiet(i, j)
  BY <1>1 DEF Instance, Quiet
<1>4. f \in [Models -> Instance] /\ f[m] = j /\ \A n \in Models : n # m => f[n] = inst[n]
  BY <1>1, <1>3
<1>5. inst' = Notified(f)
  BY <1>1 DEF StopMonitor
<1>6. \A n \in Models : Quiet(inst[n], f[n]) /\ (n \notin known => f[n] = inst[n])
  BY <1>2, <1>3, <1>4, Unmoved
<1> HIDE DEF f
<1> QED
  BY <1>4, <1>5, <1>6, NotifiedQuiet

(* A step that changes the managing thread of one model.                   *)
LEMMA OneManaged ==
    ASSUME IInv, NEW m \in Models, NEW j \in Instance, inst' = [inst EXCEPT ![m] = j],
           known' = known \union {m}, router' = "ended" => router = "ended",
           j.status = "UNLOADED" <=> j.mgr \in {"none", "done"},
           j.mgr = "none" => j.joinable = FALSE,
           j.mgr \in {"reading", "joining", "reaping"} => j.joinable = TRUE,
           j.mgr \in {"none", "reaping", "done"} =>
               j.monitor \in {"none", "done"} /\ j.child \notin Living,
           router' = "ended" => j.child \notin Living
    PROVE Threads' /\ inst' \in [Models -> Instance] /\ known' \subseteq Models
<1>1. inst \in [Models -> Instance] /\ known \subseteq Models
  BY DEF IInv, TypeOK
<1>2. inst' \in [Models -> Instance] /\ inst'[m] = j
  BY <1>1
<1>3. Managed(m)'
  BY <1>2 DEF Managed, Lives, Living
<1>4. ASSUME NEW n \in Models, n # m PROVE Managed(n)'
  <2>1. inst'[n] = inst[n] /\ (n \in known' <=> n \in known) /\ Managed(n)
    BY <1>1, <1>4 DEF IInv, Threads
  <2> QED
    BY <2>1 DEF Managed, Lives
<1> QED
  BY <1>1, <1>2, <1>3, <1>4 DEF Threads

LEMMA OneShrinks ==
    ASSUME IInv, NEW m \in Models, NEW j, inst' = [inst EXCEPT ![m] = j], known' = known,
           j.joinable = inst[m].joinable, j.status \in {inst[m].status, "UNLOADED"}
    PROVE Shrinks
<1>1. inst'[m] = j /\ \A n \in Models : n # m => inst'[n] = inst[n]
  BY DEF IInv, TypeOK
<1> QED
  BY <1>1 DEF Shrinks, Running

LEMMA ReapInv == ASSUME IInv, NEW m \in Models, Reap(m) PROVE IInv' /\ Shrinks
<1> DEFINE i == inst[m]
           j == [i EXCEPT !.mgr = "reaping", !.child = "reaped"]
<1>1. i \in Instance /\ Managed(m) /\ i.mgr = "joining" /\ i.monitor = "done"
  BY DEF IInv, TypeOK, Threads, Reap
<1>2. m \in known /\ i.joinable = TRUE /\ i.status # "UNLOADED"
  BY <1>1 DEF Managed, Fresh
<1>3. j \in Instance
  BY <1>1 DEF Instance, Children
<1>4. /\ j.mgr = "reaping" /\ j.joinable = TRUE /\ j.status # "UNLOADED"
      /\ j.monitor = "done" /\ j.child = "reaped"
  BY <1>1, <1>2 DEF Instance
<1>5. inst' = [inst EXCEPT ![m] = j] /\ UNCHANGED <<router, known, stopping, reloading, h>>
  BY DEF Reap, Set
<1>6. known' = known \union {m}
  BY <1>2, <1>5
<1>7. Threads' /\ inst' \in [Models -> Instance] /\ known' \subseteq Models
  <2> HIDE DEF j
  <2> QED
    BY <1>3, <1>4, <1>5, <1>6, OneManaged DEF Living
<1>8. TypeOK' /\ Located'
  BY <1>5, <1>7, SameHandlers DEF IInv, TypeOK
<1>9. Shrinks
  <2>1. j.joinable = i.joinable /\ j.status = i.status
    BY <1>1 DEF Instance
  <2> HIDE DEF j
  <2> QED
    BY <1>5, <2>1, OneShrinks
<1> QED
  BY <1>7, <1>8, <1>9 DEF IInv

LEMMA ReportInv == ASSUME IInv, NEW m \in Models, Report(m) PROVE IInv' /\ Shrinks
<1> DEFINE i == inst[m]
           j == [i EXCEPT !.mgr = "done", !.status = "UNLOADED"]
<1>1. i \in Instance /\ Managed(m) /\ i.mgr = "reaping"
  BY DEF IInv, TypeOK, Threads, Report
<1>2. m \in known /\ i.monitor \in {"none", "done"} /\ i.child \notin Living
  BY <1>1 DEF Managed, Fresh, Lives, Living
<1>3. j \in Instance
  BY <1>1 DEF Instance, Statuses
<1>4. /\ j.mgr = "done" /\ j.status = "UNLOADED"
      /\ j.monitor = i.monitor /\ j.child = i.child
  BY <1>1 DEF Instance
<1>5. inst' = [inst EXCEPT ![m] = j] /\ UNCHANGED <<router, known, stopping, reloading, h>>
  BY <1>2 DEF Report, Set
<1>6. known' = known \union {m}
  BY <1>2, <1>5
<1>7. Threads' /\ inst' \in [Models -> Instance] /\ known' \subseteq Models
  <2> HIDE DEF j
  <2> QED
    BY <1>2, <1>3, <1>4, <1>5, <1>6, OneManaged
<1>8. TypeOK' /\ Located'
  BY <1>5, <1>7, SameHandlers DEF IInv, TypeOK
<1>9. Shrinks
  <2>1. j.joinable = i.joinable
    BY <1>1 DEF Instance
  <2> HIDE DEF j
  <2> QED
    BY <1>4, <1>5, <2>1, OneShrinks
<1> QED
  BY <1>7, <1>8, <1>9 DEF IInv

LEMMA ManagerInv == ASSUME IInv, NEW m \in Models, Manager(m) PROVE IInv' /\ Shrinks
<1>1. CASE ReadLine(m) \/ StopMonitor(m)
  <2>1. AllQuiet
    BY <1>1, ReadLineQuiet, StopMonitorQuiet
  <2>2. UNCHANGED <<router, known, reloading, h>> /\ stopping' \subseteq stopping
    BY <1>1 DEF ReadLine, StopMonitor
  <2>3. stopping' \subseteq Models /\ reloading' \in BOOLEAN
    BY <2>2 DEF IInv, TypeOK
  <2> QED
    BY <2>1, <2>2, <2>3, SameHandlers, QuietInv
<1>2. CASE Reap(m) \/ Report(m)
  BY <1>2, ReapInv, ReportInv
<1> QED
  BY <1>1, <1>2 DEF Manager

(***************************************************************************)
(* The handlers.                                                           *)
(***************************************************************************)
(* unload() leaves the managing threads alone.                             *)
LEMMA StopQuiet ==
    ASSUME IInv, Up, NEW m \in Models, StopModel(m)
    PROVE /\ AllQuiet /\ stopping' \subseteq Models
          /\ router' = router \/ router' \in {"closing", "unloading", "killed"}
<1> DEFINE i == inst[m]
           force == i.status = "LOADING"
           j == [i EXCEPT !.child = IF force THEN Killed(i.child) ELSE i.child]
           f == [inst EXCEPT ![m] = j]
<1>1. inst \in [Models -> Instance] /\ i \in Instance /\ stopping \subseteq Models
  BY DEF IInv, TypeOK
<1>2. CASE Running(m)
  <2>1. /\ inst' = Notified(f) /\ stopping' = stopping \union {m}
        /\ router' = IF force THEN AfterKill(i.child) ELSE router
    BY <1>1, <1>2 DEF StopModel
  <2>2. i.child \in Children
    BY <1>1 DEF Instance
  <2> DEFINE c == IF force THEN Killed(i.child) ELSE i.child
  <2>3. c \in Children /\ (c \in Living => i.child \in Living)
    BY <2>2, ChildAfter
  <2>4. j = [i EXCEPT !.child = c]
    OBVIOUS
  <2> HIDE DEF c
  <2>5. j \in Instance /\ Quiet(i, j)
    BY <1>1, <2>3, <2>4 DEF Instance, Quiet
  <2> HIDE DEF j
  <2>6. f \in [Models -> Instance] /\ f[m] = j /\ \A n \in Models : n # m => f[n] = inst[n]
    BY <1>1, <2>5
  <2>7. \A n \in Models : Quiet(inst[n], f[n]) /\ (n \notin known => f[n] = inst[n])
    BY <1>2, <2>5, <2>6, Unmoved DEF Running
  <2> HIDE DEF f
  <2>8. AllQuiet
    BY <2>1, <2>6, <2>7, NotifiedQuiet
  <2>9. router' = router \/ router' \in {"closing", "unloading", "killed"}
    BY <2>1, KilledRouter
  <2> QED
    BY <1>1, <2>1, <2>8, <2>9
<1>3. CASE ~Running(m)
  <2>1. UNCHANGED <<stopping, inst, router>>
    BY <1>3 DEF StopModel
  <2>2. AllQuiet
    BY <1>1, <2>1, Unmoved DEF AllQuiet
  <2> QED
    BY <1>1, <2>1, <2>2
<1> QED
  BY <1>2, <1>3

LEMMA StillInv ==
    ASSUME IInv, UNCHANGED <<router, known, inst, stopping, reloading>>,
           h' \in [Requests -> Handler], Located'
    PROVE IInv' /\ Shrinks
<1>1. AllQuiet
  BY Unmoved DEF AllQuiet, IInv, TypeOK
<1>2. stopping' \subseteq Models /\ reloading' \in BOOLEAN
  BY DEF IInv, TypeOK
<1> QED
  BY <1>1, <1>2, QuietInv

(* One handler goes on.                                                    *)
LEMMA OneHandler ==
    ASSUME IInv, NEW r \in Requests, NEW k \in Handler, Placed(k), h' = [h EXCEPT ![r] = k]
    PROVE h' \in [Requests -> Handler] /\ Located'
<1>1. h \in [Requests -> Handler] /\ \A s \in Requests : Placed(h[s])
  BY DEF IInv, TypeOK, Located
<1>2. h'[r] = k /\ \A s \in Requests : s # r => h'[s] = h[s]
  BY <1>1
<1>3. \A s \in Requests : Placed(h'[s])
  BY <1>1, <1>2
<1> QED
  BY <1>1, <1>3 DEF Located

LEMMA Finishes ==
    ASSUME IInv, NEW r \in Requests, Finish(r)
    PROVE h' \in [Requests -> Handler] /\ Located'
<1>1. Placed(Idle)
  BY DEF Placed, Idle
<1> QED
  BY <1>1, IdleHandler, OneHandler DEF Finish

LEMMA Goes ==
    ASSUME IInv, NEW r \in Requests, NEW where \in Places, Goto(r, where),
           h[r].model \in Models \/ where \in {"reload", "join", "autoload"},
           where \in {"evict", "evicting"} => h[r].victim \in Models
    PROVE h' \in [Requests -> Handler] /\ Located'
<1> DEFINE k == [h[r] EXCEPT !.at = where]
<1>1. h \in [Requests -> Handler] /\ h[r] \in Handler
  BY DEF IInv, TypeOK
<1>2. k \in Handler
  BY <1>1 DEF Handler
<1>3. k.at = where /\ k.model = h[r].model /\ k.victim = h[r].victim
  BY <1>1 DEF Handler
<1>4. Placed(k)
  BY <1>3 DEF Placed
<1>5. h' = [h EXCEPT ![r] = k]
  BY DEF Goto
<1> QED
  BY <1>2, <1>4, <1>5, OneHandler

LEMMA LoadEnds ==
    ASSUME IInv, NEW r \in Requests, NEW threw \in BOOLEAN, AfterLoad(r, threw),
           h[r].model \in Models
    PROVE h' \in [Requests -> Handler] /\ Located'
<1>1. Goto(r, "autoload") \/ Goto(r, "wait") \/ Finish(r)
  BY DEF AfterLoad
<1> QED
  BY <1>1, Finishes, Goes DEF Places

LEMMA WorksOn ==
    ASSUME IInv, NEW r \in Requests,
           h[r].at \in {"load", "wait", "proxy", "unload", "spawn", "evict", "evicting", "touch"}
    PROVE h[r].model \in Models
BY DEF IInv, Located, Placed

LEMMA Begins ==
    ASSUME IInv, NEW r \in Requests, NEW m \in Models,
           NEW op \in {"proxy", "load", "unload"},
           NEW where \in {"load", "wait", "proxy", "unload"}, Begin(r, op, m, where)
    PROVE h' \in [Requests -> Handler] /\ Located'
<1> DEFINE k == [Idle EXCEPT !.at = where, !.op = op, !.model = m]
<1>1. k \in Handler
  BY IdleHandler DEF Handler, Places
<1>2. Placed(k)
  BY DEF Placed, Idle
<1>3. h' = [h EXCEPT ![r] = k]
  BY DEF Begin
<1> QED
  BY <1>1, <1>2, <1>3, OneHandler

LEMMA AskInv == ASSUME IInv, NEW r \in Requests, Ask(r) PROVE IInv' /\ Shrinks
<1>1. CASE \E m \in Models : AskProxy(r, m)
  <2>1. PICK m \in Models : AskProxy(r, m)
    BY <1>1
  <2>2. PICK where \in {"load", "wait", "proxy"} : Begin(r, "proxy", m, where)
    BY <2>1 DEF AskProxy
  <2> QED
    BY <2>1, <2>2, Begins, StillInv DEF AskProxy
<1>2. CASE \E m \in Models : AskLoad(r, m) \/ AskUnload(r, m)
  BY <1>2, Begins, StillInv DEF AskLoad, AskUnload
<1>3. CASE BeginReload(r)
  <2>1. PICK keep \in Sources : \E changed \in SUBSET (Active \intersect keep) :
            h' = [h EXCEPT ![r] = [Idle EXCEPT !.at = "reload", !.op = "reload",
                                      !.keep = keep,
                                      !.drop = (Active \ keep) \union changed,
                                      !.todo = (Active \ keep) \union changed]]
    BY <1>3 DEF BeginReload
  <2>2. PICK changed \in SUBSET (Active \intersect keep) :
            h' = [h EXCEPT ![r] = [Idle EXCEPT !.at = "reload", !.op = "reload",
                                      !.keep = keep,
                                      !.drop = (Active \ keep) \union changed,
                                      !.todo = (Active \ keep) \union changed]]
    BY <2>1
  <2> DEFINE drop == (Active \ keep) \union changed
             k == [Idle EXCEPT !.at = "reload", !.op = "reload", !.keep = keep,
                               !.drop = drop, !.todo = drop]
  <2>3. keep \in SUBSET Models /\ drop \in SUBSET Models
    BY SourcesAssumption DEF Active
  <2> HIDE DEF drop
  <2>4. k \in Handler
    BY <2>3, IdleHandler DEF Handler, Places
  <2>5. Placed(k)
    BY DEF Placed, Idle
  <2>6. h' = [h EXCEPT ![r] = k]
    BY <2>2 DEF drop
  <2>7. h' \in [Requests -> Handler] /\ Located'
    BY <2>4, <2>5, <2>6, OneHandler
  <2>8. AllQuiet
    BY <1>3, Unmoved DEF AllQuiet, IInv, TypeOK, BeginReload
  <2>9. stopping' \subseteq Models /\ reloading' = TRUE /\ known' = known /\ router' = router
    BY <1>3 DEF BeginReload, IInv, TypeOK
  <2> QED
    BY <2>7, <2>8, <2>9, QuietInv
<1> QED
  BY <1>1, <1>2, <1>3 DEF Ask

(* An entry that operator[] made.                                          *)
LEMMA PhantomManaged ==
    ASSUME IInv, NEW m \in Models, known' = known \union {m}, router' = router, router # "ended",
           inst' = IF m \in known THEN inst ELSE [inst EXCEPT ![m] = Phantom]
    PROVE Threads' /\ inst' \in [Models -> Instance] /\ known' \subseteq Models
<1>1. inst \in [Models -> Instance] /\ Managed(m) /\ inst[m] \in Instance
  BY DEF IInv, TypeOK, Threads
<1>2. CASE m \in known
  <2>1. UNCHANGED <<router, known, inst>>
    BY <1>2
  <2> QED
    BY <2>1 DEF IInv, TypeOK, Threads, Managed, Lives
<1>3. CASE m \notin known
  <2>1. inst' = [inst EXCEPT ![m] = Phantom]
    BY <1>3
  <2>2. /\ Phantom.status = "UNLOADED" /\ Phantom.mgr = "none" /\ Phantom.joinable = FALSE
        /\ Phantom.monitor = "none" /\ Phantom.child \notin Living
    BY DEF Phantom, Fresh, Living
  <2> QED
    BY <2>1, <2>2, NewInstance, OneManaged
<1> QED
  BY <1>2, <1>3

LEMMA ReservesInv ==
    ASSUME IInv, NEW r \in Requests, Evicted(r) \/ Refused(r) \/ Touch(r)
    PROVE IInv' /\ Shrinks
<1>1. ASSUME NEW m \in Models, known' = known \union {m},
             inst' = IF m \in known THEN inst ELSE [inst EXCEPT ![m] = Phantom],
             router' = router, Up, stopping' = stopping, reloading' = reloading,
             h' \in [Requests -> Handler], Located'
      PROVE IInv' /\ Shrinks
  <2>1. Threads' /\ inst' \in [Models -> Instance] /\ known' \subseteq Models
    BY <1>1, PhantomManaged DEF Up
  <2>2. Shrinks
    <3>1. inst \in [Models -> Instance]
      BY DEF IInv, TypeOK
    <3>2. CASE m \in known
      BY <1>1, <3>2 DEF Shrinks, Running
    <3>3. CASE m \notin known
      <4>1. inst'[m] = Phantom /\ \A n \in Models : n # m => inst'[n] = inst[n]
        BY <1>1, <3>1, <3>3
      <4>2. Phantom.joinable = FALSE /\ Phantom.status = "UNLOADED"
        BY DEF Phantom, Fresh
      <4> QED
        BY <1>1, <4>1, <4>2 DEF Shrinks, Running
    <3> QED
      BY <3>2, <3>3
  <2> QED
    BY <1>1, <2>1, <2>2 DEF IInv, TypeOK
<1>2. CASE Evicted(r)
  <2> DEFINE k == [h[r] EXCEPT !.at = "spawn", !.victim = NoModel]
  <2>1. h[r].at = "evicting" /\ Up /\ h[r] \in Handler /\ h \in [Requests -> Handler]
    BY <1>2 DEF Evicted, At, IInv, TypeOK
  <2>2. h[r].victim \in Models /\ h[r].model \in Models
    BY <2>1 DEF IInv, Located, Placed
  <2>3. k \in Handler /\ k.model = h[r].model /\ k.at = "spawn"
    BY <2>1 DEF Handler, Places
  <2>4. Placed(k)
    BY <2>2, <2>3 DEF Placed
  <2>5. h' = [h EXCEPT ![r] = k]
    BY <1>2 DEF Evicted
  <2>6. h' \in [Requests -> Handler] /\ Located'
    BY <2>3, <2>4, <2>5, OneHandler
  <2> QED
    BY <1>1, <1>2, <2>1, <2>2, <2>6 DEF Evicted
<1>3. CASE Refused(r)
  <2>1. Up /\ h[r].model \in Models
    BY <1>3, WorksOn DEF Refused, At
  <2>2. h' \in [Requests -> Handler] /\ Located'
    BY <1>3, <2>1, LoadEnds DEF Refused
  <2> QED
    BY <1>1, <1>3, <2>1, <2>2 DEF Refused
<1>4. CASE Touch(r)
  <2>1. Up /\ h[r].model \in Models
    BY <1>4, WorksOn DEF Touch, At
  <2>2. h' \in [Requests -> Handler] /\ Located'
    BY <1>4, Finishes DEF Touch
  <2> QED
    BY <1>1, <1>4, <2>1, <2>2 DEF Touch
<1> QED
  BY <1>2, <1>3, <1>4

LEMMA SpawnInv == ASSUME IInv, NEW r \in Requests, Spawn(r) PROVE IInv'
<1> DEFINE m == h[r].model
<1>1. m \in Models
  BY WorksOn DEF Spawn, At
<1>2. inst' = [inst EXCEPT ![m] = Spawned] /\ known' = known \union {m}
  BY DEF Spawn, Set, Spawned
<1>3. /\ Spawned.status = "LOADING" /\ Spawned.mgr = "reading" /\ Spawned.joinable = TRUE
  BY DEF Spawned, Fresh
<1>4. router' \in {router, "crashed"} /\ router \in {"up", "closing", "unloading"}
  BY DEF Spawn, At, Up
<1>5. Threads' /\ inst' \in [Models -> Instance] /\ known' \subseteq Models
  BY <1>1, <1>2, <1>3, <1>4, NewInstance, OneManaged
<1>6. h' \in [Requests -> Handler] /\ Located'
  BY <1>1, LoadEnds DEF Spawn
<1>7. UNCHANGED <<stopping, reloading>>
  BY DEF Spawn
<1>8. TypeOK'
  BY <1>4, <1>5, <1>6, <1>7 DEF IInv, TypeOK
<1> QED
  BY <1>5, <1>6, <1>8 DEF IInv

(* The steps that only look.                                               *)
LEMMA LooksInv ==
    ASSUME IInv, NEW r \in Requests,
           CountActive(r) \/ CannotSpawn(r) \/ WaitLoaded(r) \/ Proxy(r) \/ Autoload(r)
    PROVE IInv' /\ Shrinks
<1>1. UNCHANGED <<router, known, inst, stopping, reloading>>
  BY DEF CountActive, CannotSpawn, WaitLoaded, Proxy, Autoload
<1>2. h[r] \in Handler
  BY DEF IInv, TypeOK
<1>3. CASE CountActive(r)
  <2>1. h[r].at = "load" /\ h[r].model \in Models
    BY <1>3, WorksOn DEF CountActive, At
  <2>2. CASE AfterLoad(r, TRUE)
    BY <1>1, <2>1, <2>2, LoadEnds, StillInv
  <2>3. CASE Goto(r, "spawn")
    BY <1>1, <2>1, <2>3, Goes, StillInv DEF Places
  <2>4. CASE \E m \in Active : h' = [h EXCEPT ![r].at = "evict", ![r].victim = m]
    <3>1. PICK m \in Active : h' = [h EXCEPT ![r].at = "evict", ![r].victim = m]
      BY <2>4
    <3> DEFINE k == [h[r] EXCEPT !.at = "evict", !.victim = m]
    <3>2. m \in Models
      BY DEF Active
    <3>3. k \in Handler /\ k.model = h[r].model /\ k.victim = m
      BY <1>2, <3>2 DEF Handler, Places
    <3>4. Placed(k)
      BY <2>1, <3>2, <3>3 DEF Placed
    <3>5. h' = [h EXCEPT ![r] = k]
      BY <3>1
    <3> QED
      BY <1>1, <3>3, <3>4, <3>5, OneHandler, StillInv
  <2> QED
    BY <1>3, <2>2, <2>3, <2>4 DEF CountActive
<1>4. CASE CannotSpawn(r)
  BY <1>1, <1>4, WorksOn, LoadEnds, StillInv DEF CannotSpawn, At
<1>5. CASE WaitLoaded(r)
  BY <1>1, <1>5, WorksOn, Goes, StillInv DEF WaitLoaded, At, Places
<1>6. CASE Proxy(r)
  BY <1>1, <1>6, WorksOn, Goes, Finishes, StillInv DEF Proxy, At, Places
<1>7. CASE Autoload(r)
  <2>1. CASE Finish(r)
    BY <1>1, <2>1, Finishes, StillInv
  <2>2. CASE \E m \in h[r].todo :
               h' = [h EXCEPT ![r].at = "load", ![r].model = m, ![r].todo = @ \ {m}]
    <3>1. PICK m \in h[r].todo :
               h' = [h EXCEPT ![r].at = "load", ![r].model = m, ![r].todo = @ \ {m}]
      BY <2>2
    <3> DEFINE k == [h[r] EXCEPT !.at = "load", !.model = m, !.todo = h[r].todo \ {m}]
    <3>2. m \in Models /\ h[r].todo \ {m} \in SUBSET Models
      BY <1>2 DEF Handler
    <3>3. k \in Handler /\ k.at = "load" /\ k.model = m
      BY <1>2, <3>2 DEF Handler, Places
    <3>4. Placed(k)
      BY <3>2, <3>3 DEF Placed
    <3>5. h' = [h EXCEPT ![r] = k]
      BY <3>1
    <3> QED
      BY <1>1, <3>3, <3>4, <3>5, OneHandler, StillInv
  <2> QED
    BY <1>7, <2>1, <2>2 DEF Autoload
<1> QED
  BY <1>3, <1>4, <1>5, <1>6, <1>7

(* The steps that stop a model.                                            *)
LEMMA StopsInv ==
    ASSUME IInv, NEW r \in Requests, Unload(r) \/ Evict(r) \/ ReloadUnload(r)
    PROVE IInv' /\ Shrinks
<1>1. Up /\ UNCHANGED <<known, reloading>> /\ reloading' \in BOOLEAN
  BY DEF Unload, Evict, ReloadUnload, At, IInv, TypeOK
<1>2. h[r] \in Handler
  BY DEF IInv, TypeOK
<1>3. CASE Unload(r)
  <2>1. h[r].model \in Models
    BY <1>3, WorksOn DEF Unload, At
  <2>2. h' \in [Requests -> Handler] /\ Located'
    BY <1>3, Finishes DEF Unload
  <2> QED
    BY <1>1, <1>3, <2>1, <2>2, StopQuiet, QuietInv DEF Unload
<1>4. CASE Evict(r)
  <2>1. h[r].model \in Models /\ h[r].victim \in Models
    BY <1>4 DEF Evict, At, IInv, Located, Placed
  <2>2. h' \in [Requests -> Handler] /\ Located'
    BY <1>4, <2>1, Goes DEF Evict, Places
  <2> QED
    BY <1>1, <1>4, <2>1, <2>2, StopQuiet, QuietInv DEF Evict
<1>5. CASE ReloadUnload(r)
  <2>1. PICK m \in h[r].todo : StopModel(m) /\ h' = [h EXCEPT ![r].todo = @ \ {m}]
    BY <1>5 DEF ReloadUnload
  <2> DEFINE k == [h[r] EXCEPT !.todo = h[r].todo \ {m}]
  <2>2. m \in Models /\ h[r].todo \ {m} \in SUBSET Models
    BY <1>2 DEF Handler
  <2>3. k \in Handler /\ k.at = "reload"
    BY <1>2, <1>5, <2>2 DEF Handler, ReloadUnload, At
  <2>4. Placed(k)
    BY <2>3 DEF Placed
  <2>5. h' = [h EXCEPT ![r] = k]
    BY <2>1
  <2>6. h' \in [Requests -> Handler] /\ Located'
    BY <2>3, <2>4, <2>5, OneHandler
  <2> QED
    BY <1>1, <2>1, <2>2, <2>6, StopQuiet, QuietInv
<1> QED
  BY <1>3, <1>4, <1>5

LEMMA Unjoined == [Fresh EXCEPT !.joinable = FALSE] = Fresh
<1> DEFINE j == [Fresh EXCEPT !.joinable = FALSE]
<1>1. Fresh \in Instance /\ Fresh.joinable = FALSE
  BY NewInstance DEF Fresh
<1> HIDE DEF Fresh
<1>2. j \in Instance
  BY <1>1 DEF Instance
<1>3. /\ j.status = Fresh.status /\ j.child = Fresh.child /\ j.lines = Fresh.lines
      /\ j.mgr = Fresh.mgr /\ j.monitor = Fresh.monitor
  BY <1>1 DEF Instance
<1>4. j.exitSent = Fresh.exitSent
  BY <1>1 DEF Instance
<1>5. j.joinable = Fresh.joinable
  BY <1>1 DEF Instance
<1> HIDE DEF j
<1> QED
  BY <1>1, <1>2, <1>3, <1>4, <1>5 DEF Instance

(* The threads of models that are not running may be moved away.           *)
LEMMA CollectInv == ASSUME IInv, NEW r \in Requests, ReloadCollect(r) PROVE IInv' /\ Shrinks
<1> DEFINE ended == h[r].drop \union {m \in known \ h[r].keep : ~Running(m)}
           left == {m \in ended : inst[m].joinable}
           k == [h[r] EXCEPT !.at = "join", !.todo = left]
<1>1. /\ inst \in [Models -> Instance] /\ known \subseteq Models
      /\ h[r] \in Handler /\ h[r].drop \in SUBSET Models
  BY DEF IInv, TypeOK, Handler
<1>2. /\ UNCHANGED <<router, known, stopping, reloading>>
      /\ inst' = [m \in Models |-> IF m \in ended THEN [inst[m] EXCEPT !.joinable = FALSE]
                                   ELSE inst[m]]
  BY DEF ReloadCollect
<1>3. \A m \in ended : ~Running(m)
  BY DEF ReloadCollect
<1>4. left \in SUBSET Models
  BY <1>1
<1>5. h' = [h EXCEPT ![r] = k]
  BY DEF ReloadCollect
<1> HIDE DEF ended, left
<1>6. h' \in [Requests -> Handler] /\ Located'
  <2>1. k \in Handler /\ k.at = "join"
    BY <1>1, <1>4 DEF Handler, Places
  <2>2. Placed(k)
    BY <2>1 DEF Placed
  <2> QED
    BY <1>5, <2>1, <2>2, OneHandler
<1>7. ASSUME NEW m \in Models PROVE inst'[m] \in Instance /\ Managed(m)'
  <2>1. inst[m] \in Instance /\ Managed(m)
    BY DEF IInv, TypeOK, Threads
  <2>2. CASE m \notin ended
    <3>1. inst'[m] = inst[m]
      BY <1>2, <2>2
    <3> QED
      BY <1>2, <2>1, <3>1 DEF Managed, Lives
  <2>3. CASE m \in ended
    <3> DEFINE j == [inst[m] EXCEPT !.joinable = FALSE]
    <3>1. inst'[m] = j
      BY <1>2, <2>3
    <3>2. j \in Instance
      BY <2>1 DEF Instance
    <3>3. /\ j.status = inst[m].status /\ j.mgr = inst[m].mgr /\ j.joinable = FALSE
          /\ j.monitor = inst[m].monitor /\ j.child = inst[m].child
      BY <2>1 DEF Instance
    <3>4. inst[m].status = "UNLOADED"
      BY <1>3, <2>1, <2>3 DEF Running, Managed, Fresh
    <3>5. inst[m].mgr \in {"none", "done"}
      BY <2>1, <3>4 DEF Managed
    <3>6. m \notin known => j = Fresh
      <4>1. m \notin known => inst[m] = Fresh
        BY <2>1 DEF Managed
      <4> QED
        BY <4>1, Unjoined
    <3> HIDE DEF j
    <3> QED
      BY <1>2, <2>1, <3>1, <3>2, <3>3, <3>4, <3>5, <3>6 DEF Managed, Lives
  <2> QED
    BY <2>2, <2>3
<1>8. inst' \in [Models -> Instance] /\ Threads'
  BY <1>2, <1>7 DEF Threads
<1>9. TypeOK'
  BY <1>2, <1>6, <1>8 DEF IInv, TypeOK
<1>10. Shrinks
  <2> SUFFICES ASSUME NEW m \in Models
               PROVE inst'[m].status = inst[m].status
                     /\ (inst'[m].joinable = TRUE => inst[m].joinable = TRUE)
    BY <1>2 DEF Shrinks, Running
  <2>1. inst[m] \in Instance
    BY <1>1
  <2> QED
    BY <1>2, <2>1 DEF Instance
<1> QED
  BY <1>6, <1>8, <1>9, <1>10 DEF IInv

LEMMA ApplyInv == ASSUME IInv, NEW r \in Requests, ReloadApply(r) PROVE IInv' /\ Shrinks
<1> DEFINE gone == known \ h[r].keep
           new == h[r].keep \ known
<1>1. /\ inst \in [Models -> Instance] /\ known \subseteq Models /\ h \in [Requests -> Handler]
      /\ h[r] \in Handler /\ h[r].keep \in SUBSET Models /\ router \in {"up", "closing", "unloading"}
  BY DEF IInv, TypeOK, Handler, ReloadApply, At, Up
<1>2. CASE \E m \in gone : inst[m].joinable
  <2>1. router' = "aborted" /\ UNCHANGED <<known, inst, stopping, reloading, h>>
    BY <1>2 DEF ReloadApply
  <2>2. Threads'
    BY <2>1 DEF IInv, Threads, Managed, Lives
  <2>3. TypeOK'
    BY <2>1 DEF IInv, TypeOK
  <2>4. Shrinks
    BY <2>1 DEF Shrinks, Running
  <2> QED
    BY <2>1, <2>2, <2>3, <2>4, SameHandlers DEF IInv
<1>3. CASE ~ \E m \in gone : inst[m].joinable
  <2>1. /\ known' = h[r].keep /\ reloading' = FALSE /\ UNCHANGED <<router, stopping>>
        /\ inst' = [m \in Models |-> IF m \in gone \union new THEN Fresh ELSE inst[m]]
    BY <1>3 DEF ReloadApply
  <2>2. PICK auto \in SUBSET new : h' = [h EXCEPT ![r].at = "autoload", ![r].todo = auto]
    BY <1>3 DEF ReloadApply
  <2> DEFINE k == [h[r] EXCEPT !.at = "autoload", !.todo = auto]
  <2>3. k \in Handler /\ k.at = "autoload"
    BY <1>1 DEF Handler, Places
  <2>4. Placed(k)
    BY <2>3 DEF Placed
  <2>5. h' \in [Requests -> Handler] /\ Located'
    BY <2>2, <2>3, <2>4, OneHandler
  <2>6. ASSUME NEW m \in Models PROVE inst'[m] \in Instance /\ Managed(m)'
    <3>1. inst[m] \in Instance /\ Managed(m)
      BY DEF IInv, TypeOK, Threads
    <3>2. CASE m \in gone \union new
      <4>1. inst'[m] = Fresh
        BY <2>1, <3>2
      <4> QED
        BY <4>1, NewInstance DEF Managed, Lives, Fresh
    <3>3. CASE m \notin gone \union new
      <4>1. inst'[m] = inst[m] /\ (m \in known' <=> m \in known)
        BY <2>1, <3>3
      <4> QED
        BY <2>1, <3>1, <4>1 DEF Managed, Lives
    <3> QED
      BY <3>2, <3>3
  <2>7. inst' \in [Models -> Instance] /\ Threads'
    BY <2>1, <2>6 DEF Threads
  <2>8. TypeOK'
    BY <1>1, <2>1, <2>5, <2>7 DEF IInv, TypeOK
  <2>9. Shrinks
    <3> SUFFICES ASSUME NEW m \in Models
                 PROVE (inst'[m].joinable = TRUE => inst[m].joinable = TRUE)
                       /\ (Running(m)' => Running(m))
      BY DEF Shrinks
    <3>1. CASE m \in gone \union new
      BY <2>1, <3>1 DEF Running, Fresh
    <3>2. CASE m \notin gone \union new
      BY <2>1, <3>2 DEF Running
    <3> QED
      BY <3>1, <3>2
  <2> QED
    BY <2>5, <2>7, <2>8, <2>9 DEF IInv
<1> QED
  BY <1>2, <1>3

LEMMA HandleInv ==
    ASSUME IInv, NEW r \in Requests, Handle(r)
    PROVE IInv' /\ (Shrinks \/ Spawn(r))
BY StopsInv, LooksInv, ReservesInv, SpawnInv, CollectInv, ApplyInv DEF Handle

(***************************************************************************)
(* Shutdown.                                                               *)
(***************************************************************************)
LEMMA InterruptInv == ASSUME IInv, Interrupt PROVE IInv' /\ Shrinks
<1>1. AllQuiet
  BY Unmoved DEF AllQuiet, IInv, TypeOK, Interrupt
<1>2. /\ router' = "closing" /\ h' = h /\ known' = known
      /\ stopping' \subseteq Models /\ reloading' \in BOOLEAN
  BY DEF Interrupt, IInv, TypeOK
<1> QED
  BY <1>1, <1>2, SameHandlers, QuietInv

LEMMA UnloadAllQuiet == ASSUME IInv, UnloadAll PROVE AllQuiet
<1>1. CASE Active = {}
  BY <1>1, Unmoved DEF AllQuiet, IInv, TypeOK, UnloadAll
<1>2. CASE Active # {}
  <2>1. inst \in [Models -> Instance] /\ inst' = Notified(inst)
    BY <1>2 DEF IInv, TypeOK, UnloadAll
  <2> QED
    BY <2>1, Unmoved, NotifiedQuiet
<1> QED
  BY <1>1, <1>2

LEMMA UnloadAllInv == ASSUME IInv, UnloadAll PROVE IInv' /\ Shrinks
<1>1. /\ router' = "unloading" /\ h' = h /\ known' = known
      /\ stopping' \subseteq Models /\ reloading' \in BOOLEAN
  BY DEF UnloadAll, IInv, TypeOK, Active
<1> QED
  BY <1>1, UnloadAllQuiet, SameHandlers, QuietInv

(* clean_up has joined every thread.                                       *)
LEMMA EndInv == ASSUME IInv, End PROVE IInv' /\ Shrinks
<1>1. router' = "ended" /\ UNCHANGED <<known, inst, stopping, reloading, h>>
  BY DEF End
<1>2. ASSUME NEW m \in Models PROVE Managed(m)'
  <2>1. inst[m] \in Instance /\ Managed(m)
    BY DEF IInv, TypeOK, Threads
  <2>2. m \in known => (inst[m].joinable => inst[m].mgr = "done")
    BY DEF End
  <2>3. ~Lives(m)
    <3>1. CASE m \notin known
      BY <2>1, <3>1 DEF Managed, Lives, Fresh
    <3>2. CASE m \in known
      <4>1. inst[m].mgr \notin {"reading", "joining", "reaping"}
        BY <2>1, <2>2, <3>2 DEF Managed
      <4>2. inst[m].mgr \in {"none", "done"}
        BY <2>1, <4>1 DEF Instance
      <4> QED
        BY <2>1, <4>2 DEF Managed
    <3> QED
      BY <3>1, <3>2
  <2> QED
    BY <1>1, <2>1, <2>3 DEF Managed, Lives
<1>3. Threads'
  BY <1>2 DEF Threads
<1>4. TypeOK'
  BY <1>1 DEF IInv, TypeOK
<1>5. Shrinks
  BY <1>1 DEF Shrinks, Running
<1> QED
  BY <1>1, <1>3, <1>4, <1>5, SameHandlers DEF IInv

LEMMA NextInv ==
    ASSUME IInv, [Next]_vars
    PROVE IInv' /\ (Shrinks \/ \E r \in Requests : Spawn(r))
<1>1. CASE UNCHANGED vars
  <2>1. /\ UNCHANGED <<router, known, inst, stopping, reloading>> /\ h' = h
    BY <1>1 DEF vars
  <2> QED
    BY <2>1, SameHandlers, StillInv
<1>2. CASE Next
  BY <1>2, AskInv, HandleInv, ChildInv, ManagerInv, MonitorInv, InterruptInv, UnloadAllInv, EndInv
     DEF Next
<1> QED
  BY <1>1, <1>2

(***************************************************************************)
(* Theorems.                                                               *)
(***************************************************************************)
THEOREM IInvHolds == Spec => []IInv
BY InitInv, NextInv, PTL DEF Spec

(* Every variable keeps its type.                                          *)
THEOREM TypeCorrect == Spec => []TypeOK
<1>1. IInv => TypeOK
  BY DEF IInv
<1> QED
  BY <1>1, IInvHolds, PTL

(* Whoever joins a managing thread of a model that is not running finds it *)
(* at its end: load() joins it with the mutex held, and does not wait for  *)
(* a thread that still needs the mutex.                                    *)
THEOREM JoinsNeverBlock == Spec => []JoinsAreFree
<1>1. IInv => JoinsAreFree
  BY DEF IInv, TypeOK, Threads, Managed, JoinsAreFree
<1> QED
  BY <1>1, IInvHolds, PTL

(* No child process is left behind: as long as it lives, its model is      *)
(* listed as running and has a thread that will notice its end.            *)
THEOREM NobodyIsOrphaned == Spec => []NoOrphan
<1>1. ASSUME IInv PROVE NoOrphan
  <2> SUFFICES ASSUME NEW m \in Models, Lives(m)
               PROVE router # "ended" /\ Running(m) /\ inst[m].mgr \in {"reading", "joining"}
    BY DEF NoOrphan
  <2>1. Managed(m) /\ m \in known /\ inst[m].mgr \in {"reading", "joining"}
    BY <1>1, LivingIsManaged DEF IInv, Threads, Lives, Living
  <2> QED
    BY <2>1 DEF Managed, Running
<1> QED
  BY <1>1, IInvHolds, PTL

(***************************************************************************)
(* At most models_max models run, and every process that lives is one of   *)
(* them.                                                                   *)
(***************************************************************************)
WithinLimit == MaxModels > 0 => Cardinality(Active) <= MaxModels

LEMMA ActiveIsFinite == IsFiniteSet(Active) /\ Cardinality(Active) \in Nat
<1>1. Active \subseteq Models
  BY DEF Active
<1> QED
  BY <1>1, ModelsAssumption, FS_Subset, FS_CardinalityType

LEMMA LimitStep == ASSUME IInv, WithinLimit, [Next]_vars PROVE WithinLimit'
<1>1. CASE Shrinks
  <2>1. Active' \subseteq Active
    BY <1>1 DEF Shrinks, Active
  <2>2. Cardinality(Active') <= Cardinality(Active) /\ Cardinality(Active') \in Nat
    BY <2>1, ActiveIsFinite, FS_Subset, FS_CardinalityType
  <2> QED
    BY <2>2, ActiveIsFinite, MaxModelsAssumption DEF WithinLimit
<1>2. CASE \E r \in Requests : Spawn(r)
  <2>1. PICK r \in Requests : Spawn(r)
    BY <1>2
  <2> DEFINE m == h[r].model
  <2>2. m \in Models
    BY <2>1, WorksOn DEF Spawn, At
  <2>3. /\ inst' = [inst EXCEPT ![m] = Spawned] /\ known' = known \union {m}
        /\ ~Running(m) /\ ~AtLimit
    BY <2>1 DEF Spawn, Set, Spawned
  <2>4. inst \in [Models -> Instance] /\ Spawned.status # "UNLOADED"
    BY DEF IInv, TypeOK, Spawned, Fresh
  <2>5. \A n \in Models : n # m => (inst'[n] = inst[n] /\ (n \in known' <=> n \in known))
    BY <2>3, <2>4
  <2>6. inst'[m] = Spawned /\ m \in known'
    BY <2>2, <2>3, <2>4
  <2>7. Active' = Active \union {m} /\ m \notin Active
    BY <2>2, <2>3, <2>4, <2>5, <2>6 DEF Active, Running
  <2>8. Cardinality(Active') = Cardinality(Active) + 1
    BY <2>7, ActiveIsFinite, FS_AddElement
  <2> QED
    BY <2>3, <2>8, ActiveIsFinite, MaxModelsAssumption DEF WithinLimit, AtLimit
<1> QED
  BY <1>1, <1>2, NextInv

(* No more than models_max processes live at a time, those being stopped   *)
(* and those whose crash nobody has noticed yet included.                  *)
THEOREM LimitHolds == Spec => []ProcessesWithinLimit
<1>1. Init => WithinLimit
  <2> SUFFICES ASSUME Init PROVE WithinLimit
    OBVIOUS
  <2>1. Active = {}
    BY DEF Init, Active, Running, Fresh
  <2> QED
    BY <2>1, FS_EmptySet, MaxModelsAssumption DEF WithinLimit
<1>2. ASSUME IInv, WithinLimit PROVE ProcessesWithinLimit
  <2> DEFINE living == {m \in Models : Lives(m)}
  <2>1. living \subseteq Active
    BY <1>2, LivingIsManaged DEF Active, Running, Lives, Living, IInv, Threads, Managed
  <2>2. Cardinality(living) <= Cardinality(Active) /\ Cardinality(living) \in Nat
    BY <2>1, ActiveIsFinite, FS_Subset, FS_CardinalityType
  <2> QED
    BY <1>2, <2>2, ActiveIsFinite, MaxModelsAssumption DEF WithinLimit, ProcessesWithinLimit
<1> QED
  BY <1>1, <1>2, IInvHolds, LimitStep, PTL DEF Spec

(***************************************************************************)
(* A reload with no other beside it erases only joined instances.          *)
(***************************************************************************)
(* While it works is_reloading is set, so that nothing is loaded; what it  *)
(* will erase is not running, or is being unloaded; after the collection   *)
(* none of it has a thread.                                                *)
Reloads(r) ==
    h[r].at \in {"reload", "join"} =>
        /\ "reload" \in Asks[r]
        /\ reloading = TRUE
        /\ h[r].at = "reload" =>
              \A m \in known \ h[r].keep : Running(m) => m \in h[r].drop
        /\ h[r].at = "join" =>
              \A m \in known \ h[r].keep : inst[m].joinable = FALSE

ReloadInv == router # "aborted" /\ \A r \in Requests : Reloads(r)

(* How a handler gets into the two places, or stays there.                 *)
Elsewhere(k) == k.at \notin {"reload", "join"}

LEMMA Placing ==
    ASSUME h \in [Requests -> Handler], NEW s \in Requests, NEW k, h' = [h EXCEPT ![s] = k],
           Elsewhere(k), NEW r \in Requests, ~Elsewhere(h'[r])
    PROVE h'[r] = h[r]
BY DEF Elsewhere

LEMMA PlacingAt ==
    ASSUME NEW k \in Handler, NEW where \in Places, NEW v, NEW m, NEW t, where \notin {"reload", "join"}
    PROVE /\ Elsewhere([k EXCEPT !.at = where])
          /\ Elsewhere([k EXCEPT !.at = where, !.victim = v])
          /\ Elsewhere([k EXCEPT !.at = where, !.todo = t])
          /\ Elsewhere([k EXCEPT !.at = where, !.model = m, !.todo = t])
BY DEF Elsewhere, Handler

LEMMA ReloadPlaces ==
    ASSUME IInv, NEW s \in Requests, Ask(s) \/ Handle(s),
           NEW r \in Requests, ~Elsewhere(h'[r])
    PROVE h'[r] = h[r] \/ BeginReload(s) \/ ReloadUnload(s) \/ ReloadCollect(s)
<1>1. h \in [Requests -> Handler] /\ h[s] \in Handler
  BY DEF IInv, TypeOK
<1>2. ASSUME NEW op, NEW m, NEW where \in Places, where \notin {"reload", "join"},
             Begin(s, op, m, where)
      PROVE h'[r] = h[r]
  <2> DEFINE k == [Idle EXCEPT !.at = where, !.op = op, !.model = m]
  <2>1. Elsewhere(k) /\ h' = [h EXCEPT ![s] = k]
    BY <1>2 DEF Elsewhere, Idle, Begin
  <2> QED
    BY <1>1, <2>1, Placing
<1>3. ASSUME NEW where \in Places, where \notin {"reload", "join"}, Goto(s, where)
      PROVE h'[r] = h[r]
  <2>1. h' = [h EXCEPT ![s] = [h[s] EXCEPT !.at = where]]
    BY <1>3 DEF Goto
  <2>2. Elsewhere([h[s] EXCEPT !.at = where])
    BY <1>1, <1>3, PlacingAt
  <2> QED
    BY <1>1, <2>1, <2>2, Placing
<1>4. ASSUME Finish(s) PROVE h'[r] = h[r]
  <2>1. Elsewhere(Idle) /\ h' = [h EXCEPT ![s] = Idle]
    BY <1>4 DEF Elsewhere, Idle, Finish
  <2> QED
    BY <1>1, <2>1, Placing
<1>5. ASSUME NEW threw \in BOOLEAN, AfterLoad(s, threw) PROVE h'[r] = h[r]
  <2>1. Goto(s, "autoload") \/ Goto(s, "wait") \/ Finish(s)
    BY <1>5 DEF AfterLoad
  <2> QED
    BY <2>1, <1>3, <1>4 DEF Places
<1>6. CASE Ask(s)
  <2>1. CASE \E m \in Models : AskProxy(s, m)
    <3>1. PICK m \in Models : AskProxy(s, m)
      BY <2>1
    <3>2. PICK where \in {"load", "wait", "proxy"} : Begin(s, "proxy", m, where)
      BY <3>1 DEF AskProxy
    <3> QED
      BY <1>2, <3>2 DEF Places
  <2>2. CASE \E m \in Models : AskLoad(s, m) \/ AskUnload(s, m)
    BY <1>2, <2>2 DEF AskLoad, AskUnload, Places
  <2> QED
    BY <1>6, <2>1, <2>2 DEF Ask
<1>7. CASE Unload(s) \/ Touch(s)
  BY <1>4, <1>7 DEF Unload, Touch
<1>8. CASE CountActive(s)
  <2>1. CASE AfterLoad(s, TRUE) \/ Goto(s, "spawn")
    BY <1>3, <1>5, <2>1 DEF Places
  <2>2. CASE \E m \in Active : h' = [h EXCEPT ![s].at = "evict", ![s].victim = m]
    <3>1. PICK m \in Active : h' = [h EXCEPT ![s].at = "evict", ![s].victim = m]
      BY <2>2
    <3>2. Elsewhere([h[s] EXCEPT !.at = "evict", !.victim = m])
      BY <1>1, PlacingAt DEF Places
    <3>3. h' = [h EXCEPT ![s] = [h[s] EXCEPT !.at = "evict", !.victim = m]]
      BY <3>1
    <3> QED
      BY <1>1, <3>2, <3>3, Placing
  <2> QED
    BY <1>8, <2>1, <2>2 DEF CountActive
<1>9. CASE Evict(s)
  BY <1>3, <1>9 DEF Evict, Places
<1>10. CASE Evicted(s)
  <2>1. Elsewhere([h[s] EXCEPT !.at = "spawn", !.victim = NoModel])
    BY <1>1, PlacingAt DEF Places
  <2>2. h' = [h EXCEPT ![s] = [h[s] EXCEPT !.at = "spawn", !.victim = NoModel]]
    BY <1>10 DEF Evicted
  <2> QED
    BY <1>1, <2>1, <2>2, Placing
<1>11. CASE CannotSpawn(s) \/ Refused(s) \/ Spawn(s)
  BY <1>5, <1>11 DEF CannotSpawn, Refused, Spawn
<1>12. CASE WaitLoaded(s) \/ Proxy(s)
  BY <1>3, <1>4, <1>12 DEF WaitLoaded, Proxy, Places
<1>13. CASE ReloadApply(s)
  <2>1. CASE h' = h
    BY <2>1
  <2>2. CASE \E auto \in SUBSET (h[s].keep \ known) :
                h' = [h EXCEPT ![s].at = "autoload", ![s].todo = auto]
    <3>1. PICK auto \in SUBSET (h[s].keep \ known) :
                h' = [h EXCEPT ![s].at = "autoload", ![s].todo = auto]
      BY <2>2
    <3>2. Elsewhere([h[s] EXCEPT !.at = "autoload", !.todo = auto])
      BY <1>1, PlacingAt DEF Places
    <3>3. h' = [h EXCEPT ![s] = [h[s] EXCEPT !.at = "autoload", !.todo = auto]]
      BY <3>1
    <3> QED
      BY <1>1, <3>2, <3>3, Placing
  <2> QED
    BY <1>13, <2>1, <2>2 DEF ReloadApply
<1>14. CASE Autoload(s)
  <2>1. CASE Finish(s)
    BY <1>4, <2>1
  <2>2. CASE \E m \in h[s].todo :
               h' = [h EXCEPT ![s].at = "load", ![s].model = m, ![s].todo = @ \ {m}]
    <3>1. PICK m \in h[s].todo :
               h' = [h EXCEPT ![s].at = "load", ![s].model = m, ![s].todo = @ \ {m}]
      BY <2>2
    <3> DEFINE k == [h[s] EXCEPT !.at = "load", !.model = m, !.todo = h[s].todo \ {m}]
    <3>2. Elsewhere(k)
      BY <1>1, PlacingAt DEF Places
    <3>3. h' = [h EXCEPT ![s] = k]
      BY <3>1
    <3> HIDE DEF k
    <3> QED
      BY <1>1, <3>2, <3>3, Placing
  <2> QED
    BY <1>14, <2>1, <2>2 DEF Autoload
<1> QED
  BY <1>6, <1>7, <1>8, <1>9, <1>10, <1>11, <1>12, <1>13, <1>14 DEF Handle

(* What holds of a reload goes on to hold while nothing becomes running.   *)
LEMMA Stays ==
    ASSUME IInv, IInv', Shrinks, NEW r \in Requests, Reloads(r),
           h'[r].at = h[r].at, h'[r].keep = h[r].keep, h'[r].drop = h[r].drop,
           reloading' = reloading
    PROVE Reloads(r)'
<1> SUFFICES ASSUME h[r].at \in {"reload", "join"} PROVE Reloads(r)'
  BY DEF Reloads
<1>1. "reload" \in Asks[r] /\ reloading' = TRUE
  BY DEF Reloads
<1>2. ASSUME NEW m \in known' \ h[r].keep
      PROVE /\ h[r].at = "reload" => (Running(m)' => m \in h[r].drop)
            /\ h[r].at = "join" => inst'[m].joinable = FALSE
  <2>1. m \in Models /\ inst'[m] \in Instance /\ inst[m] \in Instance /\ Managed(m)
    BY DEF IInv, TypeOK, Threads
  <2>2. m \notin known => ~Running(m) /\ inst[m].joinable = FALSE
    BY <2>1 DEF Running, Managed, Fresh
  <2>3. h[r].at = "reload" => (Running(m)' => m \in h[r].drop)
    BY <2>1, <2>2 DEF Shrinks, Reloads
  <2>4. h[r].at = "join" => inst[m].joinable = FALSE
    BY <2>2 DEF Reloads
  <2>5. h[r].at = "join" => inst'[m].joinable = FALSE
    BY <2>1, <2>4 DEF Shrinks, Instance
  <2> QED
    BY <2>3, <2>5
<1> QED
  BY <1>1, <1>2 DEF Reloads

LEMMA BeginReloads ==
    ASSUME IInv, NEW s \in Requests, BeginReload(s)
    PROVE Reloads(s)' /\ \A r \in Requests : r # s => h'[r] = h[r]
<1>1. PICK keep \in Sources : \E changed \in SUBSET (Active \intersect keep) :
          h' = [h EXCEPT ![s] = [Idle EXCEPT !.at = "reload", !.op = "reload",
                                    !.keep = keep,
                                    !.drop = (Active \ keep) \union changed,
                                    !.todo = (Active \ keep) \union changed]]
  BY DEF BeginReload
<1>2. PICK changed \in SUBSET (Active \intersect keep) :
          h' = [h EXCEPT ![s] = [Idle EXCEPT !.at = "reload", !.op = "reload",
                                    !.keep = keep,
                                    !.drop = (Active \ keep) \union changed,
                                    !.todo = (Active \ keep) \union changed]]
  BY <1>1
<1> DEFINE drop == (Active \ keep) \union changed
<1>3. h \in [Requests -> Handler] /\ known \subseteq Models
  BY DEF IInv, TypeOK
<1>4. h'[s].at = "reload" /\ h'[s].keep = keep /\ h'[s].drop = drop
  BY <1>2, <1>3 DEF Idle
<1>5. \A r \in Requests : r # s => h'[r] = h[r]
  BY <1>2, <1>3
<1>6. "reload" \in Asks[s] /\ reloading' = TRUE /\ UNCHANGED <<known, inst>>
  BY DEF BeginReload, CanAsk
<1>7. \A m \in known' \ keep : Running(m)' => m \in drop
  BY <1>3, <1>6 DEF Active, Running
<1> QED
  BY <1>4, <1>5, <1>6, <1>7 DEF Reloads

LEMMA CollectReloads ==
    ASSUME IInv, NEW s \in Requests, ReloadCollect(s), Reloads(s)
    PROVE Reloads(s)' /\ \A r \in Requests : r # s => h'[r] = h[r]
<1> DEFINE ended == h[s].drop \union {m \in known \ h[s].keep : ~Running(m)}
           k == [h[s] EXCEPT !.at = "join", !.todo = {m \in ended : inst[m].joinable}]
<1>1. /\ h \in [Requests -> Handler] /\ h[s] \in Handler /\ inst \in [Models -> Instance]
      /\ known \subseteq Models
  BY DEF IInv, TypeOK
<1>2. /\ UNCHANGED <<known, reloading>> /\ h[s].at = "reload"
      /\ \A m \in h[s].drop : ~Running(m)
      /\ inst' = [m \in Models |-> IF m \in ended THEN [inst[m] EXCEPT !.joinable = FALSE]
                                   ELSE inst[m]]
  BY DEF ReloadCollect, At
<1>3. h' = [h EXCEPT ![s] = k]
  BY DEF ReloadCollect
<1>4. k.at = "join" /\ k.keep = h[s].keep
  BY <1>1 DEF Handler
<1> HIDE DEF k
<1>5. h'[s].at = "join" /\ h'[s].keep = h[s].keep /\ \A r \in Requests : r # s => h'[r] = h[r]
  BY <1>1, <1>3, <1>4
<1>6. ASSUME NEW m \in known \ h[s].keep PROVE inst'[m].joinable = FALSE
  <2>1. m \in Models /\ inst[m] \in Instance
    BY <1>1
  <2>2. ~Running(m)
    BY <1>2 DEF Reloads
  <2>3. m \in ended
    BY <2>2
  <2>4. inst'[m] = [inst[m] EXCEPT !.joinable = FALSE]
    BY <1>2, <2>1, <2>3
  <2> QED
    BY <2>1, <2>4 DEF Instance
<1> QED
  BY <1>2, <1>5, <1>6 DEF Reloads

LEMMA UnloadReloads ==
    ASSUME IInv, NEW s \in Requests, ReloadUnload(s)
    PROVE \A r \in Requests : /\ h'[r].at = h[r].at /\ h'[r].keep = h[r].keep
                              /\ h'[r].drop = h[r].drop
<1>1. PICK m \in h[s].todo : h' = [h EXCEPT ![s].todo = @ \ {m}]
  BY DEF ReloadUnload
<1> DEFINE k == [h[s] EXCEPT !.todo = h[s].todo \ {m}]
<1>2. h \in [Requests -> Handler] /\ h[s] \in Handler
  BY DEF IInv, TypeOK
<1>3. h' = [h EXCEPT ![s] = k]
  BY <1>1
<1>4. k.at = h[s].at /\ k.keep = h[s].keep /\ k.drop = h[s].drop
  BY <1>2 DEF Handler
<1> HIDE DEF k
<1> QED
  BY <1>2, <1>3, <1>4

LEMMA ApplyReloads ==
    ASSUME IInv, NEW s \in Requests, ReloadApply(s), Reloads(s)
    PROVE router' = router /\ h'[s].at = "autoload"
<1>1. h \in [Requests -> Handler] /\ h[s] \in Handler /\ h[s].at = "join"
  BY DEF IInv, TypeOK, ReloadApply, At
<1>2. \A m \in known \ h[s].keep : inst[m].joinable = FALSE
  BY <1>1 DEF Reloads
<1>3. ~ \E m \in known \ h[s].keep : inst[m].joinable
  BY <1>2
<1>4. /\ router' = router
      /\ \E auto \in SUBSET (h[s].keep \ known) :
             h' = [h EXCEPT ![s].at = "autoload", ![s].todo = auto]
  BY <1>3 DEF ReloadApply
<1> QED
  BY <1>1, <1>4

LEMMA HandlerReloads ==
    ASSUME OneReloader, IInv, IInv', ReloadInv, NEW s \in Requests, Ask(s) \/ Handle(s),
           Shrinks \/ Spawn(s)
    PROVE ReloadInv'
<1>1. \A r \in Requests : Reloads(r)
  BY DEF ReloadInv
<1>2. router' # "aborted"
  <2>1. CASE ReloadApply(s)
    BY <1>1, <2>1, ApplyReloads DEF ReloadInv
  <2>2. CASE ~ReloadApply(s)
    BY <2>2 DEF ReloadInv, Ask, AskProxy, AskLoad, AskUnload, BeginReload, Handle, Unload,
                CountActive, Evict, Evicted, CannotSpawn, Refused, Spawn, WaitLoaded, Proxy, Touch,
                ReloadUnload, ReloadCollect, Autoload, StopModel, AfterKill
  <2> QED
    BY <2>1, <2>2
<1>3. ASSUME NEW r \in Requests, ~Elsewhere(h'[r]) PROVE Reloads(r)'
  <2>1. ASSUME Shrinks, reloading' = reloading, h'[r].at = h[r].at, h'[r].keep = h[r].keep,
               h'[r].drop = h[r].drop
        PROVE Reloads(r)'
    BY <1>1, <2>1, Stays
  <2>2. CASE BeginReload(s)
    <3>1. CASE r = s
      BY <2>2, <3>1, BeginReloads
    <3>2. CASE r # s
      <4>1. h'[r] = h[r]
        BY <2>2, <3>2, BeginReloads
      <4>2. reloading = TRUE /\ reloading' = TRUE
        BY <1>1, <1>3, <2>2, <4>1 DEF Reloads, Elsewhere, BeginReload
      <4>3. Shrinks
        BY <2>2, AskInv DEF Ask
      <4> QED
        BY <2>1, <4>1, <4>2, <4>3
    <3> QED
      BY <3>1, <3>2
  <2>3. CASE ReloadUnload(s)
    BY <2>1, <2>3, UnloadReloads, StopsInv DEF ReloadUnload
  <2>4. CASE ReloadCollect(s)
    <3>1. CASE r = s
      BY <1>1, <2>4, <3>1, CollectReloads
    <3>2. CASE r # s
      BY <1>1, <2>1, <2>4, <3>2, CollectReloads, CollectInv DEF ReloadCollect
    <3> QED
      BY <3>1, <3>2
  <2>5. CASE ~(BeginReload(s) \/ ReloadUnload(s) \/ ReloadCollect(s))
    <3>1. h'[r] = h[r]
      BY <1>3, <2>5, ReloadPlaces
    <3>2. "reload" \in Asks[r] /\ reloading = TRUE
      BY <1>1, <1>3, <3>1 DEF Reloads, Elsewhere
    <3>3. ~Spawn(s)
      BY <3>2 DEF Spawn
    <3>4. ~ReloadApply(s)
      <4> SUFFICES ASSUME ReloadApply(s) PROVE FALSE
        OBVIOUS
      <4>1. "reload" \in Asks[s] /\ h'[s].at = "autoload"
        BY <1>1, ApplyReloads DEF Reloads, ReloadApply, At
      <4>2. r = s
        BY <3>2, <4>1 DEF OneReloader
      <4> QED
        BY <1>3, <4>1, <4>2 DEF Elsewhere
    <3>5. reloading' = reloading
      BY <2>5, <3>3, <3>4 DEF Ask, AskProxy, AskLoad, AskUnload, Handle, Unload, CountActive,
                Evict, Evicted, CannotSpawn, Refused, WaitLoaded, Proxy, Touch, Autoload
    <3> QED
      BY <2>1, <3>1, <3>3, <3>5
  <2> QED
    BY <2>2, <2>3, <2>4, <2>5
<1>4. ASSUME NEW r \in Requests, Elsewhere(h'[r]) PROVE Reloads(r)'
  BY <1>4 DEF Reloads, Elsewhere
<1> QED
  BY <1>2, <1>3, <1>4 DEF ReloadInv

LEMMA ReloadStep ==
    ASSUME OneReloader, IInv, IInv', ReloadInv, [Next]_vars
    PROVE ReloadInv'
<1>1. ASSUME Shrinks, h' = h, reloading' = reloading, router' # "aborted" PROVE ReloadInv'
  BY <1>1, Stays DEF ReloadInv
<1>2. CASE UNCHANGED vars
  BY <1>1, <1>2 DEF vars, ReloadInv, Shrinks, Running
<1>3. CASE \E r \in Requests : Ask(r) \/ Handle(r)
  <2>1. PICK s \in Requests : Ask(s) \/ Handle(s)
    BY <1>3
  <2>2. Shrinks \/ Spawn(s)
    BY <2>1, AskInv, HandleInv
  <2> QED
    BY <2>1, <2>2, HandlerReloads
<1>4. CASE \E m \in Models : Child(m) \/ Manager(m) \/ Monitor(m)
  <2>1. PICK m \in Models : Child(m) \/ Manager(m) \/ Monitor(m)
    BY <1>4
  <2>2. Shrinks
    BY <2>1, ChildInv, ManagerInv, MonitorInv
  <2>3. h' = h /\ reloading' = reloading
    BY <2>1 DEF Child, Boots, FallsAsleep, WakesUp, Says, Obeys, Fails, Exits,
                Manager, ReadLine, StopMonitor, Reap, Report,
                Monitor, Watch, SendExit, AlreadyStopped, ForceKill
  <2>4. router' # "aborted"
    BY <2>1 DEF ReloadInv, AfterKill,
                Child, Boots, FallsAsleep, WakesUp, Says, Obeys, Fails, Exits,
                Manager, ReadLine, StopMonitor, Reap, Report,
                Monitor, Watch, SendExit, AlreadyStopped, ForceKill
  <2> QED
    BY <1>1, <2>2, <2>3, <2>4
<1>5. CASE Interrupt \/ UnloadAll \/ End
  BY <1>1, <1>5, InterruptInv, UnloadAllInv, EndInv DEF Interrupt, UnloadAll, End
<1> QED
  BY <1>2, <1>3, <1>4, <1>5 DEF Next

(* If one handler at a time reloads, a reload erases only instances whose  *)
(* managing thread it has joined: the assertion in load_models holds.      *)
THEOREM ReloadsAreSafe ==
    ASSUME OneReloader
    PROVE Spec => []ErasedIsJoined
<1>1. Init => ReloadInv
  BY DEF Init, ReloadInv, Reloads, Idle
<1>2. ReloadInv => ErasedIsJoined
  BY DEF ReloadInv, ErasedIsJoined
<1>3. IInv /\ IInv' /\ ReloadInv /\ [Next]_vars => ReloadInv'
  BY ReloadStep
<1> QED
  BY <1>1, <1>2, <1>3, IInvHolds, PTL DEF Spec

=============================================================================
