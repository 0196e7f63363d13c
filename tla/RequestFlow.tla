----------------------------- MODULE RequestFlow -----------------------------
(***************************************************************************)
(* The threads of a server around its two queues: HTTP handlers that post  *)
(* the tasks of a request and read its results (server_response_reader),   *)
(* and the main loop (start_loop) that hands tasks to slots                *)
(* (process_single_task), generates (update_slots) and sleeps when idle.   *)
(* A step is what a thread does while it holds one of the two mutexes;     *)
(* slots belong to the main loop alone.  What a slot computes is left out: *)
(* in every pass its prompt may be refused or done, and once it generates  *)
(* it may send a partial result, end or fail.                              *)
(***************************************************************************)
EXTENDS ServerQueue, ServerResponse

CONSTANTS
    Posts,          \* the tasks each client's request posts, in order
    MaySleep,       \* sleep_idle_seconds >= 0
    MayDisconnect,  \* may a client close its connection?
    MayFail,        \* may a task be refused, or a slot fail to decode?
    MayStop,        \* may the server be asked to terminate?
    MaxPasses,      \* bound: passes of update_slots a task may take
    Idle            \* a slot that is not processing

Posted(c) == ToSet(Posts[c])
IdsOf(c) == Posted(c) \cup UNION {Children[t] : t \in Posted(c)}

\* Every posted task and every child has an id of its own (get_new_id).
OwnIds(c) ==
    /\ IsInjective(Posts[c])
    /\ \A t \in Posted(c) : /\ Children[t] \cap Posted(c) = {}
                            /\ \A u \in Posted(c) \ {t} : Children[t] \cap Children[u] = {}

SlotRecord == [task : Tasks, state : {"other", "prompt", "generating"},
               passes : 0..MaxPasses]

ASSUME RequestFlowAssumption ==
    /\ MainLoop \notin Clients
    /\ Posts \in [Clients -> Seq(Tasks)]
    /\ \A c \in Clients : Posts[c] # << >>
    /\ \A c, d \in Clients : c # d => IdsOf(c) \cap IdsOf(d) = {}
    /\ \A c \in Clients : OwnIds(c)
    /\ \A c \in Clients : Kind[Posts[c][1]] = "metrics" => Len(Posts[c]) = 1
    /\ MaySleep \in BOOLEAN /\ MayDisconnect \in BOOLEAN
    /\ MayFail \in BOOLEAN /\ MayStop \in BOOLEAN
    /\ MaxPasses \in Nat
    /\ Idle \notin SlotRecord

VARIABLES
    at,         \* where the main loop is
    inHand,     \* the task being processed
    slots,      \* the task of each slot, its state ("other": a child waits
                \* for its parent's prompt) and its passes so far
    todo,       \* slots of the batch whose results are not looked at yet
    empties,    \* n_empty_consecutive: passes without a token to decode
    releasing,  \* slots to be released before the loop goes on
    terminating,\* is_terminating: an interrupt was handled
    client,     \* where each HTTP handler is
    received    \* received_count of each reader

loopVars == <<at, inHand, slots, todo, empties, releasing>>
clientVars == <<client, received, terminating>>
vars == <<queueVars, responseVars, loopVars, clientVars>>

Busy == {s \in Slots : slots[s] # Idle}
Free == Slots \ Busy

-----------------------------------------------------------------------------
(* HTTP handlers.                                                          *)

Goto(c, place) == 
    client' = [client EXCEPT ![c] = place] /\ UNCHANGED <<received, terminating>>

\* create_response: a server that sleeps is woken first.
Arrive(c) ==
    /\ client[c] = "new"
    /\ \/ /\ ~MaySleep \/ ~sleeping
          /\ Goto(c, "prepare") /\ UNCHANGED queueVars
       \/ MaySleep /\ AskToWake(c) /\ Goto(c, "wake")
    /\ UNCHANGED <<responseVars, loopVars>>

Rouse(c) ==
    /\ client[c] = "wake" /\ c \notin blocked
    /\ \/ ~sleeping /\ Goto(c, "prepare") /\ UNCHANGED queueVars
       \/ sleeping /\ WaitAgain(c) /\ UNCHANGED clientVars
    /\ UNCHANGED <<responseVars, loopVars>>

\* The prompt is tokenized and the ids registered with server_response,
\* before the tasks are posted.
MutRegister(c) ==
    /\ client[c] = "prepare"
    /\ AddWaiting(Posted(c))
    /\ Goto(c, "post")
    /\ UNCHANGED <<queueVars, loopVars>>
Register(c) ==
    /\ client[c] = "prepare"
    /\ AddWaiting(IdsOf(c))
    /\ Goto(c, "post")
    /\ UNCHANGED <<queueVars, loopVars>>

PostTasks(c) ==
    /\ client[c] = "post"
    /\ IF Kind[Posts[c][1]] = "metrics" THEN PostFront(Posts[c][1])
                                        ELSE Post(Posts[c])
    /\ Goto(c, "read")
    /\ UNCHANGED <<responseVars, loopVars>>

HasNext(c) == received[c] < Cardinality(IdsOf(c))

\* next: a partial result is passed on, a final one counted, an error stops
\* the reader.
Receive(c) ==
    /\ client[c] = "read" /\ HasNext(c)
    /\ Take(IdsOf(c))
    /\ LET outcome == results[FirstOf(IdsOf(c))].outcome IN
       \/ outcome = "partial" /\ UNCHANGED clientVars
       \/ /\ outcome = "final"
          /\ received' = [received EXCEPT ![c] = @ + 1]
          /\ UNCHANGED <<client, terminating>>
       \/ outcome = "error" /\ Goto(c, "stop")
    /\ UNCHANGED <<queueVars, loopVars>>

\* A poll times out and should_stop() holds: the client is gone.
Disconnect(c) ==
    /\ MayDisconnect
    /\ client[c] = "read" /\ HasNext(c)
    /\ Goto(c, "stop")
    /\ UNCHANGED <<queueVars, responseVars, loopVars>>

\* The destructor's stop() of a reader that has everything.
Leave(c) ==
    /\ client[c] = "read" /\ ~HasNext(c)
    /\ RemoveWaiting(IdsOf(c))
    /\ Goto(c, "gone")
    /\ UNCHANGED <<queueVars, loopVars>>

\* stop() with results missing: the ids are unregistered, then purged one by
\* one (one step here: no result can arrive for them any more), then a
\* CANCEL of each is posted.
Unregister(c) ==
    /\ client[c] = "stop"
    /\ RemoveWaiting(IdsOf(c))
    /\ Goto(c, "purge")
    /\ UNCHANGED <<queueVars, loopVars>>

PurgeResults(c) ==
    /\ client[c] = "purge"
    /\ Purge(IdsOf(c))
    /\ Goto(c, "cancel")
    /\ UNCHANGED <<queueVars, loopVars>>

CancelTasks(c) ==
    /\ client[c] = "cancel"
    /\ PostCancels(SetToSeq(IdsOf(c)))
    /\ Goto(c, "gone")
    /\ UNCHANGED <<responseVars, loopVars>>

\* The first interrupt calls terminate(), wherever the main loop is; the
\* second one exits the process and is left out.
Interrupt ==
    /\ MayStop /\ ~terminating
    /\ terminating' = TRUE
    /\ Terminate
    /\ UNCHANGED <<responseVars, loopVars, client, received>>

-----------------------------------------------------------------------------
(* The main loop.                                                          *)

LoopGoes(place) == at' = place /\ UNCHANGED <<slots, todo, empties, releasing>>

StartLoop ==
    /\ at = "start"
    /\ StartRunning
    /\ LoopGoes("pop") /\ UNCHANGED inHand
    /\ UNCHANGED <<responseVars, clientVars>>

EndLoop ==
    /\ at = "pop" /\ releasing = {} /\ ~running
    /\ LoopGoes("end")
    /\ UNCHANGED <<queueVars, responseVars, inHand, clientVars>>

PopTask ==
    /\ at = "pop" /\ releasing = {} /\ running
    /\ TakeTask
    /\ inHand' = Head(queue)
    /\ LoopGoes("process")
    /\ UNCHANGED <<responseVars, clientVars>>

\* The task in hand is dealt with.
Done == at' = "pop" /\ inHand' = NextResponse /\ UNCHANGED todo
Processing(type) == at = "process" /\ inHand.type = type

ProcessNext ==
    /\ Processing("next") /\ Done
    /\ UNCHANGED <<queueVars, responseVars, slots, empties, releasing, clientVars>>

\* The slot of a cancelled task is released; a CANCEL that finds none is
\* over.
ProcessCancel ==
    /\ Processing("cancel") /\ Done
    /\ releasing' = {s \in Busy : slots[s].task = inHand.task}
    /\ UNCHANGED <<queueVars, responseVars, slots, empties, clientVars>>

ProcessMetrics ==
    /\ Processing("run") /\ Kind[inHand.task] = "metrics" /\ Done
    /\ Send(inHand.task, "final")
    /\ UNCHANGED <<queueVars, slots, empties, releasing, clientVars>>

DeferTask ==
    /\ Done
    /\ Defer(inHand.task)
    /\ UNCHANGED <<responseVars, slots, empties, releasing, clientVars>>

\* A slot action is deferred while its slot is busy.
ProcessSlotAction ==
    /\ Processing("run") /\ Kind[inHand.task] = "slotAction"
    /\ \/ ActionSlot[inHand.task] \in Busy /\ DeferTask
       \/ /\ Done
          /\ \/ ActionSlot[inHand.task] \in Free /\ Send(inHand.task, "final")
             \/ MayFail /\ Send(inHand.task, "error")
          /\ UNCHANGED <<queueVars, slots, empties, releasing, clientVars>>

\* The slots a completion may run in: the one it asks for, or any free one.
Candidates(t) == IF IdSlot[t] = AnySlot THEN Free ELSE {IdSlot[t]} \cap Free
CanLaunch(t) ==
    /\ Candidates(t) # {}
    /\ Cardinality(Free) > Cardinality(Children[t])

\* Ways to give a completion and its children a free slot each.
Placements(t) ==
    {p \in [Children[t] \cup {t} -> Free] :
        p[t] \in Candidates(t) /\ IsInjective(p)}

\* A child waits for the parent to process their prompt.
Started(p, parent, ts) ==
    [s \in Slots |->
        IF \E t \in ts : p[t] = s
        THEN LET t == CHOOSE k \in ts : p[k] = s
             IN [task |-> t, state |-> IF t = parent THEN "prompt" ELSE "other", passes |-> 0]
        ELSE slots[s]]

DeferCompletion ==
    /\ Processing("run") /\ Kind[inHand.task] = "completion"
    /\ ~CanLaunch(inHand.task)
    /\ DeferTask

Launch ==
    /\ Processing("run") /\ Kind[inHand.task] = "completion"
    /\ CanLaunch(inHand.task)
    /\ LET t == inHand.task IN
       \E p \in Placements(t) : slots' = Started(p, t, Children[t] \cup {t})
    /\ empties' = 0
    /\ Done
    /\ UNCHANGED <<queueVars, responseVars, releasing, clientVars>>

\* launch_slot_with_task refuses a task: its error is sent, the children
\* launched before it are released and the whole completion is dropped.
LaunchFails ==
    /\ MayFail
    /\ Processing("run") /\ Kind[inHand.task] = "completion"
    /\ CanLaunch(inHand.task)
    /\ LET t == inHand.task IN
       \E p \in Placements(t), launched \in SUBSET Children[t] :
          \E refused \in IF launched = Children[t] THEN {t}
                         ELSE Children[t] \ launched :
             /\ Send(refused, "error")
             /\ slots' = Started(p, t, launched)
             /\ empties' = IF launched = {} THEN empties ELSE 0
             /\ releasing' = {p[k] : k \in launched}
    /\ Done
    /\ UNCHANGED <<queueVars, clientVars>>

\* server_slot::release.
Release(s) ==
    /\ s \in releasing
    /\ slots' = [slots EXCEPT ![s] = Idle]
    /\ releasing' = releasing \ {s}
    /\ PopDeferred(s)
    /\ UNCHANGED <<at, inHand, todo, empties, responseVars, clientVars>>

\* No task is left: update_slots returns at once when every slot is idle,
\* else it makes sure that the loop comes back.
MutBeginUpdate ==
    /\ at = "pop" /\ releasing = {} /\ running /\ queue = << >>
    /\ LoopGoes(IF Busy = {} THEN "rest" ELSE "batch")
    /\ UNCHANGED <<queueVars, inHand, responseVars, clientVars>>
BeginUpdate ==
    /\ at = "pop" /\ releasing = {} /\ running /\ queue = << >>
    /\ LoopGoes(IF Busy = {} THEN "rest" ELSE "post")
    /\ UNCHANGED <<queueVars, inHand, responseVars, clientVars>>

PostNext ==
    /\ at = "post"
    /\ PostNextResponse
    /\ LoopGoes("batch") /\ UNCHANGED inHand
    /\ UNCHANGED <<responseVars, clientVars>>

\* While the batch is filled a slot may be refused: its prompt does not fit,
\* or is empty and has nothing to generate from, or its context is full.
Refuse(s) ==
    /\ MayFail
    /\ at = "batch" /\ releasing = {} /\ s \in Busy
    /\ \/ slots[s].state # "other" /\ Send(slots[s].task, "error")
       \/ /\ slots[s].state = "prompt" /\ slots[s].passes = 0
          /\ Send(slots[s].task, "final")
    /\ releasing' = {s}
    /\ UNCHANGED <<queueVars, at, inHand, slots, todo, empties, clientVars>>

\* The batch holds the tokens of every slot that does not wait.  Four passes
\* in a row without any abort the process; what the handlers do after that
\* is of no interest.
Aborted == empties > 3
Ready == {s \in Busy : slots[s].state # "other"}
FillBatch ==
    /\ at = "batch" /\ releasing = {}
    /\ todo' = Ready
    /\ empties' = IF Ready = {} THEN empties + 1 ELSE 0
    /\ at' = "decode"
    /\ UNCHANGED <<queueVars, responseVars, inHand, slots, releasing, clientVars>>

\* llama_decode fails, perhaps for a later part of the batch when results of
\* a first part were sent: every slot, even one that waits, is sent an error
\* and released.
DecodeFails ==
    /\ MayFail
    /\ at = "decode" /\ releasing = {} /\ todo # {}
    /\ at' = "failed" /\ todo' = Busy
    /\ UNCHANGED <<queueVars, responseVars, inHand, slots, empties, releasing, clientVars>>

FailSlot(s) ==
    /\ at = "failed" /\ releasing = {} /\ s \in todo
    /\ Send(slots[s].task, "error")
    /\ todo' = todo \ {s} /\ releasing' = {s}
    /\ UNCHANGED <<queueVars, at, inHand, slots, empties, clientVars>>

Decoded(s, state) ==
    at = "decode" /\ releasing = {} /\ s \in todo /\ slots[s].state = state

\* The whole prompt is in: the slot will sample, and so will its children,
\* which are given a copy of its state.
Activated(s) == {k \in Busy : /\ slots[k].state = "other"
                              /\ slots[k].task \in Children[slots[s].task]}
PromptDone(s) ==
    /\ Decoded(s, "prompt")
    /\ slots' = [k \in Slots |-> IF k \in Activated(s) \cup {s}
                                 THEN [slots[k] EXCEPT !.state = "generating"]
                                 ELSE slots[k]]
    /\ todo' = todo \cup Activated(s)
    /\ UNCHANGED <<queueVars, responseVars, at, inHand, empties, releasing, clientVars>>

\* A pass that does not end the task: more of the prompt, or a token that
\* may be sent.
GoOn(s) ==
    /\ \/ Decoded(s, "prompt") /\ UNCHANGED responseVars
       \/ /\ Decoded(s, "generating")
          /\ UNCHANGED responseVars \/ Send(slots[s].task, "partial")
    /\ slots[s].passes < MaxPasses
    /\ slots' = [slots EXCEPT ![s].passes = @ + 1]
    /\ todo' = todo \ {s}
    /\ UNCHANGED <<queueVars, at, inHand, empties, releasing, clientVars>>

\* The last result is sent, or a checkpoint could not be restored; then the
\* slot is released.
Finish(s) ==
    /\ Decoded(s, "generating")
    /\ Send(slots[s].task, "final") \/ (MayFail /\ Send(slots[s].task, "error"))
    /\ todo' = todo \ {s} /\ releasing' = {s}
    /\ UNCHANGED <<queueVars, at, inHand, slots, empties, clientVars>>

EndUpdate ==
    /\ at \in {"decode", "failed"} /\ releasing = {} /\ todo = {} /\ ~Aborted
    /\ LoopGoes("rest")
    /\ UNCHANGED <<queueVars, responseVars, inHand, clientVars>>

\* The loop leaves its wait for a task or for the end.
EndRest ==
    /\ at = "rest" /\ (~running \/ queue # << >>)
    /\ LoopGoes("pop")
    /\ UNCHANGED <<queueVars, responseVars, inHand, clientVars>>

\* Idle for sleep_idle_seconds.  Time is not modelled; a thread the server
\* woke is assumed to run within that time, which is at least a second.
GoToSleep ==
    /\ at = "rest" /\ MaySleep
    /\ running /\ queue = << >>
    /\ \A c \in Clients : client[c] = "wake" => c \in blocked
    /\ FallAsleep
    /\ LoopGoes("asleep") /\ UNCHANGED inHand
    /\ UNCHANGED <<responseVars, clientVars>>

\* The predicate of the wait; a server told to terminate leaves it asleep.
Wake ==
    /\ at = "asleep" /\ MainLoop \notin blocked
    /\ \/ ~running /\ LoopGoes("pop") /\ UNCHANGED queueVars
       \/ running /\ wakeUp /\ WakeUp /\ LoopGoes("pop")
       \/ running /\ ~wakeUp /\ WaitAgain(MainLoop) /\ UNCHANGED <<at, slots, todo, empties, releasing>>
    /\ UNCHANGED <<inHand, responseVars, clientVars>>

-----------------------------------------------------------------------------
Init ==
    /\ QueueInit /\ ResponseInit
    /\ at = "start" /\ inHand = NextResponse
    /\ slots = [s \in Slots |-> Idle]
    /\ todo = {} /\ empties = 0 /\ releasing = {}
    /\ client = [c \in Clients |-> "new"]
    /\ received = [c \in Clients |-> 0]
    /\ terminating = FALSE

LoopStep ==
    \/ StartLoop \/ EndLoop \/ PopTask
    \/ ProcessNext \/ ProcessCancel \/ ProcessMetrics \/ ProcessSlotAction
    \/ DeferCompletion \/ Launch \/ LaunchFails
    \/ BeginUpdate \/ PostNext \/ FillBatch \/ DecodeFails \/ EndUpdate
    \/ \E s \in Slots : \/ Release(s) \/ Refuse(s) \/ FailSlot(s)
                         \/ PromptDone(s) \/ GoOn(s) \/ Finish(s)
    \/ EndRest \/ Wake

\* What a handler does once its request has arrived.
ClientStep(c) ==
    \/ Rouse(c) \/ Register(c) \/ PostTasks(c) \/ Receive(c) \/ Leave(c)
    \/ Unregister(c) \/ PurgeResults(c) \/ CancelTasks(c)

Next ==
    \/ LoopStep \/ GoToSleep \/ Interrupt
    \/ \E c \in Clients : ClientStep(c) \/ Arrive(c) \/ Disconnect(c)

Spec == Init /\ [][Next]_vars

\* Threads that can run do run; nobody has to send a request, hang up or let
\* the server be idle.
FairSpec ==
    /\ Spec
    /\ WF_vars(LoopStep)
    /\ \A c \in Clients : WF_vars(ClientStep(c))

-----------------------------------------------------------------------------
(* What is checked.                                                        *)

\* The model and its contexts are never unloaded under a slot that is
\* processing: the NEXT_RESPONSE that update_slots posts keeps the queue
\* from being empty while any slot is busy.
SleepsIdle == sleeping => Busy = {} /\ inHand = NextResponse

\* A task is in one place: queued, deferred, in hand or in a slot.  Moving
\* it between the queues, deferring it again and cancelling it never
\* duplicates it, so no request gets two answers to one task ("duplicate
\* result received", wait_for_all).
Count(seq, e) == Cardinality({i \in DOMAIN seq : seq[i] = e})
OnePlace == \A t \in Tasks :
    LET inSlots == Cardinality({s \in Busy : slots[s].task = t})
        hand == IF inHand = Run(t) THEN 1 ELSE 0
    IN Count(queue, Run(t)) + Count(deferred, t) + hand + inSlots <= 1

\* A queued result belongs to a reader that will still take it or purge it:
\* no result outlives its request in queue_results.
NoStaleResult ==
    \A i \in DOMAIN results : \E c \in Clients :
        /\ results[i].task \in IdsOf(c)
        /\ client[c] \in {"post", "read", "stop", "purge"}

\* No answer is lost between the main loop and a handler that reads: every
\* task of its request is counted, has its final result queued, waits for a
\* slot or runs in one, unless an error is about to stop the reader.
Waits(t) == \/ \E i \in DOMAIN queue : queue[i] = Run(t)
            \/ \E i \in DOMAIN deferred : deferred[i] = t
            \/ inHand = Run(t)
Pending(t) == \/ \E p \in Tasks : (t = p \/ t \in Children[p]) /\ Waits(p)
              \/ \E s \in Busy \ releasing : slots[s].task = t
ResultsOf(c, outcome) ==
    {i \in DOMAIN results : results[i].task \in IdsOf(c) /\ results[i].outcome = outcome}
Answerable == \A c \in Clients :
    client[c] = "read" /\ ResultsOf(c, "error") = {}
        => Cardinality(IdsOf(c)) =
              received[c] + Cardinality(ResultsOf(c, "final"))
                          + Cardinality({t \in IdsOf(c) : Pending(t)})

\* While the server sleeps and nobody asked it to wake up, the main loop is
\* the only thread on the condition variable, so the notify_one of the first
\* asking thread reaches it ("only main thread is waiting on this").
OnlyLoopWaits == sleeping /\ ~wakeUp => blocked \subseteq {MainLoop}

\* A handler that waits for the server to wake up gets on, unless the server
\* is told to terminate: a sleeping loop that ends notifies nobody.
Awakens == \A c \in Clients : client[c] = "wake" ~> client[c] # "wake" \/ ~running

\* Every request that was posted is answered.
Answered == \A c \in Clients : client[c] = "post" ~> client[c] = "gone"

\* A loop that was told to terminate while it ran ends, asleep or not.
LoopEnds == ~running /\ at # "start" ~> at = "end"

\* A task that was posted is processed, the model being loaded again if it
\* must ("any new incoming task will automatically trigger the model to
\* reload").
TaskWakes == queue # << >> ~> queue = << >> \/ ~sleeping

\* A task is deferred "until one slot is available": none is left when the
\* loop rests with every slot free.
NoneDeferredAtRest ==
    at = "rest" /\ queue = << >> /\ Busy = {} => deferred = << >>

\* A child that waits has somebody to wait for: the slot that processes the
\* prompt they share, or else its own CANCEL is on its way.  Otherwise it
\* would hold its slot for ever.
ChildIsAwaited ==
    \A s \in Busy \ releasing : slots[s].state = "other" =>
        \/ \E k \in Busy \ releasing :
              slots[k].state = "prompt" /\ slots[s].task \in Children[slots[k].task]
        \/ inHand = Cancel(slots[s].task) \/ Cancel(slots[s].task) \in ToSet(queue)

\* The assertion of update_slots: passes with a busy slot have tokens to
\* decode, so the process is not aborted.
NeverAborts == ~Aborted
=============================================================================
