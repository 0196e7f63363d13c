----------------------------- MODULE ServerQueue -----------------------------
(***************************************************************************)
(* server_queue: the tasks on their way to the main loop, the tasks        *)
(* deferred until a slot is available, and the sleeping flags.  Every      *)
(* operator is what one method does while it holds mutex_tasks; the        *)
(* module that composes the threads says who calls it and when.            *)
(*                                                                         *)
(* blocked is the set of threads waiting on condition_tasks that have not  *)
(* been notified.  The main loop's wait_for of one second is not in it:    *)
(* no other thread waits while the server is awake, and the loop looks     *)
(* again at every timeout anyway.                                          *)
(***************************************************************************)
EXTENDS ServerTask

CONSTANTS Clients,      \* HTTP handler threads, one request each
          MainLoop      \* the thread that runs start_loop

VARIABLES queue,        \* queue_tasks
          deferred,     \* queue_tasks_deferred
          running, sleeping,
          wakeUp,       \* req_stop_sleeping
          blocked

queueVars == <<queue, deferred, running, sleeping, wakeUp, blocked>>

Message == [type : {"run", "cancel"}, task : Tasks] \cup [type : {"next"}, task : {NoTask}]
Run(t) == [type |-> "run", task |-> t]
Cancel(t) == [type |-> "cancel", task |-> t]
NextResponse == [type |-> "next", task |-> NoTask]

QueueInit ==
    /\ queue = << >> /\ deferred = << >>
    /\ running = FALSE /\ sleeping = FALSE /\ wakeUp = FALSE
    /\ blocked = {}

NotifyOne ==
    \/ blocked = {} /\ UNCHANGED blocked
    \/ \E thread \in blocked : blocked' = blocked \ {thread}

\* post of a sequence of tasks at the back.
Post(ts) ==
    /\ queue' = queue \o [i \in DOMAIN ts |-> Run(ts[i])]
    /\ NotifyOne
    /\ UNCHANGED <<deferred, running, sleeping, wakeUp>>

\* post of one high-priority task.
PostFront(t) ==
    /\ queue' = <<Run(t)>> \o queue
    /\ NotifyOne
    /\ UNCHANGED <<deferred, running, sleeping, wakeUp>>

PostNextResponse ==
    /\ queue' = Append(queue, NextResponse)
    /\ NotifyOne
    /\ UNCHANGED <<deferred, running, sleeping, wakeUp>>

\* cleanup_pending_task for every target, and the CANCEL tasks in front.
PostCancels(ts) ==
    LET targets == {Run(ts[i]) : i \in DOMAIN ts} IN
    /\ queue' = Reverse([i \in DOMAIN ts |-> Cancel(ts[i])])
                   \o SubseqAt(queue, {i \in DOMAIN queue : queue[i] \notin targets})
    /\ deferred' = SubseqAt(deferred, {i \in DOMAIN deferred : deferred[i] \notin ToSet(ts)})
    /\ NotifyOne
    /\ UNCHANGED <<running, sleeping, wakeUp>>

Defer(t) ==
    /\ deferred' = Append(deferred, t)
    /\ NotifyOne
    /\ UNCHANGED <<queue, running, sleeping, wakeUp>>

\* The first deferred task that asks for this slot, else the first.
MutPopDeferred(s) ==
    /\ queue' = IF deferred = << >> THEN queue ELSE <<Run(Head(deferred))>> \o queue
    /\ NotifyOne
    /\ UNCHANGED <<deferred, running, sleeping, wakeUp>>
MutPopDeferredNone(s) ==
    /\ NotifyOne
    /\ UNCHANGED <<queue, deferred, running, sleeping, wakeUp>>
PopDeferred(s) ==
    LET own == SelectInSeq(deferred, LAMBDA t : IdSlot[t] = s)
        i == IF own = 0 THEN 1 ELSE own
    IN /\ IF deferred = << >>
          THEN UNCHANGED <<queue, deferred>>
          ELSE /\ queue' = <<Run(deferred[i])>> \o queue
               /\ deferred' = RemoveAt(deferred, i)
       /\ NotifyOne
       /\ UNCHANGED <<running, sleeping, wakeUp>>

\* wait_until_no_sleep of a thread that finds the server asleep: the first
\* one asks the loop to wake up; all of them wait.
MutAskToWake(c) ==
    /\ sleeping
    /\ blocked' = blocked \cup {c} /\ wakeUp' = TRUE
    /\ UNCHANGED <<queue, deferred, running, sleeping>>
AskToWake(c) ==
    /\ sleeping
    /\ \/ wakeUp /\ blocked' = blocked \cup {c}
       \/ /\ ~wakeUp
          /\ \/ blocked = {} /\ blocked' = {c}
             \/ \E thread \in blocked : blocked' = (blocked \ {thread}) \cup {c}
    /\ wakeUp' = TRUE
    /\ UNCHANGED <<queue, deferred, running, sleeping>>

\* A notified thread whose predicate does not hold waits again.
WaitAgain(thread) ==
    /\ blocked' = blocked \cup {thread}
    /\ UNCHANGED <<queue, deferred, running, sleeping, wakeUp>>

StartRunning ==
    /\ running' = TRUE
    /\ UNCHANGED <<queue, deferred, sleeping, wakeUp, blocked>>

MutTerminate ==
    /\ running' = FALSE
    /\ UNCHANGED <<queue, deferred, sleeping, wakeUp, blocked>>
Terminate ==
    /\ running' = FALSE
    /\ blocked' = {}
    /\ UNCHANGED <<queue, deferred, sleeping, wakeUp>>

TakeTask ==
    /\ queue # << >>
    /\ queue' = Tail(queue)
    /\ UNCHANGED <<deferred, running, sleeping, wakeUp, blocked>>

\* The model is unloaded, an earlier wish to wake up is forgotten, and the
\* loop waits for a new one.
FallAsleep ==
    /\ sleeping' = TRUE
    /\ wakeUp' = FALSE
    /\ blocked' = blocked \cup {MainLoop}
    /\ UNCHANGED <<queue, deferred, running>>

\* The model is loaded again and every waiting thread notified.
MutWakeUp ==
    /\ sleeping' = FALSE /\ wakeUp' = FALSE
    /\ UNCHANGED <<queue, deferred, running, blocked>>
WakeUp ==
    /\ sleeping' = FALSE /\ wakeUp' = FALSE
    /\ blocked' = {}
    /\ UNCHANGED <<queue, deferred, running>>
=============================================================================
