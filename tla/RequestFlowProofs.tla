-------------------------- MODULE RequestFlowProofs --------------------------
(* Proofs about RequestFlow: who waits on condition_tasks while the server  *)
(* sleeps, where the tasks are, and which results are on their way.        *)
EXTENDS RequestFlow, SequenceFacts

\* The loop sleeps where start_loop waits for the wake-up, or it was told to
\* terminate and is on its way out.
LoopAsleep ==
    /\ at = "asleep" => sleeping
    /\ sleeping => at \in {"asleep", "pop", "end"}
    /\ sleeping /\ at = "pop" => ~running

\* Nobody waits while the server is awake; while it sleeps, a handler waits
\* only after the wake-up was asked for.
HandlersWait ==
    /\ ~sleeping => blocked = {}
    /\ sleeping /\ ~wakeUp => /\ blocked \subseteq {MainLoop}
                              /\ \A c \in Clients : client[c] # "wake"

\* Where a handler can be.
Places == {"new", "wake", "prepare", "post", "read", "stop", "purge",
           "cancel", "gone"}

Flags ==
    /\ sleeping \in BOOLEAN /\ wakeUp \in BOOLEAN /\ running \in BOOLEAN
    /\ client \in [Clients -> Places]

IInv == Flags /\ LoopAsleep /\ HandlersWait

-----------------------------------------------------------------------------
\* A step that leaves the flags of the queue alone and at most notifies a
\* waiting thread.
Quiet ==
    /\ sleeping' = sleeping /\ wakeUp' = wakeUp /\ running' = running
    /\ blocked' \subseteq blocked

\* No thread starts to wait for a wake-up.
NoneRises ==
    /\ client' \in [Clients -> Places]
    /\ \A c \in Clients : client'[c] = "wake" => client[c] = "wake"

\* The methods of the queue that other threads and the loop call are quiet.
LEMMA QueueMethodsQuiet ==
    /\ \A ts : Post(ts) \/ PostCancels(ts) => Quiet
    /\ \A t : PostFront(t) \/ Defer(t) => Quiet
    /\ PostNextResponse \/ TakeTask => Quiet
    /\ \A s : PopDeferred(s) => Quiet
    /\ UNCHANGED queueVars => Quiet
<1>1. NotifyOne => blocked' \subseteq blocked
  BY DEF NotifyOne
<1> QED BY <1>1 DEF Post, PostCancels, PostFront, Defer, PostNextResponse,
                    TakeTask, PopDeferred, Quiet, queueVars

\* A handler that goes to a place other than "wake" makes nobody wait.
LEMMA GotoNotWake ==
    ASSUME Flags, NEW c \in Clients, NEW place \in Places \ {"wake"},
           Goto(c, place)
    PROVE  NoneRises
BY DEF Goto, NoneRises, Flags, Places

LEMMA ClientsStay == Flags /\ UNCHANGED clientVars => NoneRises
BY DEF clientVars, NoneRises, Flags

\* A quiet step that moves the loop only within its waking places keeps the
\* invariant.
LEMMA QuietStep ==
    ASSUME IInv, Quiet, NoneRises,
           \/ at' = at
           \/ at # "asleep" /\ at' # "asleep" /\ (~sleeping \/ at' = "end")
    PROVE  IInv'
<1>1. Flags'
  BY DEF IInv, Flags, Quiet, NoneRises
<1>2. LoopAsleep'
  BY DEF IInv, LoopAsleep, Quiet
<1>3. HandlersWait'
  BY DEF IInv, HandlersWait, Quiet, NoneRises
<1> QED BY <1>1, <1>2, <1>3 DEF IInv

-----------------------------------------------------------------------------
LEMMA Initially == Init => IInv
BY DEF Init, QueueInit, IInv, Flags, LoopAsleep, HandlersWait, Places

\* A handler that finds the server asleep asks for the wake-up.
LEMMA AskingKeeps ==
    ASSUME IInv, NEW c \in Clients, AskToWake(c), Goto(c, "wake"), UNCHANGED loopVars
    PROVE  IInv'
<1>1. sleeping /\ sleeping' = sleeping /\ running' = running /\ wakeUp'
  BY Zenon DEF AskToWake
<1>2. client' \in [Clients -> Places]
  BY DEF Goto, IInv, Flags, Places
<1>3. Flags'
  BY <1>1, <1>2, Zenon DEF Flags, IInv
<1>4. LoopAsleep'
  BY <1>1, Zenon DEF LoopAsleep, IInv, loopVars
<1>5. HandlersWait'
  BY <1>1 DEF HandlersWait
<1> QED BY <1>3, <1>4, <1>5 DEF IInv

\* A thread that was notified too early waits again, and whoever has waited
\* before did so after the wake-up was asked for.
LEMMA WaitingAgainKeeps ==
    ASSUME IInv, NEW thread, WaitAgain(thread), UNCHANGED <<client, at>>, sleeping,
           thread = MainLoop \/ (thread \in Clients /\ client[thread] = "wake")
    PROVE  IInv'
<1>1. sleeping' = sleeping /\ running' = running /\ wakeUp' = wakeUp
  BY Zenon DEF WaitAgain
<1>2. Flags' /\ LoopAsleep'
  BY <1>1 DEF Flags, LoopAsleep, IInv
<1>3. HandlersWait'
  <2>1. CASE wakeUp
    BY <1>1, <2>1 DEF HandlersWait
  <2>2. CASE ~wakeUp
    BY <1>1, <2>2 DEF HandlersWait, IInv, WaitAgain
  <2> QED BY <2>1, <2>2
<1> QED BY <1>2, <1>3 DEF IInv

\* The handlers.
LEMMA HandlersKeep ==
    ASSUME IInv, NEW c \in Clients, ClientStep(c) \/ Arrive(c) \/ Disconnect(c)
    PROVE  IInv'
<1>1. CASE AskToWake(c) /\ Goto(c, "wake") /\ UNCHANGED loopVars
  BY <1>1, AskingKeeps
<1>2. CASE sleeping /\ WaitAgain(c) /\ UNCHANGED <<client, at>> /\ client[c] = "wake"
  BY <1>2, WaitingAgainKeeps
<1>3. CASE Quiet /\ NoneRises /\ at' = at
  BY <1>3, QuietStep
<1>4. Flags
  BY DEF IInv
<1>5. \A place \in Places \ {"wake"} : Goto(c, place) => NoneRises
  BY <1>4, GotoNotWake
<1>6. UNCHANGED loopVars => at' = at
  BY DEF loopVars
<1>7. "prepare" \in Places \ {"wake"} /\ "post" \in Places \ {"wake"}
      /\ "read" \in Places \ {"wake"} /\ "stop" \in Places \ {"wake"}
      /\ "purge" \in Places \ {"wake"} /\ "cancel" \in Places \ {"wake"}
      /\ "gone" \in Places \ {"wake"}
  BY DEF Places
<1> USE <1>4, <1>5, <1>6, <1>7, QueueMethodsQuiet, ClientsStay
<1>8. CASE Arrive(c)
  BY <1>1, <1>3, <1>8, Zenon DEF Arrive
<1>9. CASE Rouse(c)
  <2>1. CASE ~sleeping
    BY <1>3, <1>9, <2>1, Zenon DEF Rouse
  <2>2. CASE sleeping
    BY <1>2, <1>9, <2>2 DEF Rouse, clientVars, loopVars
  <2> QED BY <2>1, <2>2
<1>10. CASE Register(c)
  BY <1>3, <1>10, Zenon DEF Register
<1>11. CASE PostTasks(c)
  BY <1>3, <1>11, Zenon DEF PostTasks
<1>12. CASE Receive(c)
  <2>1. UNCHANGED clientVars \/ Goto(c, "stop") \/ UNCHANGED client
    BY <1>12 DEF Receive
  <2>2. NoneRises
    BY <2>1 DEF NoneRises, Flags
  <2> QED BY <1>3, <1>12, <2>2, Zenon DEF Receive
<1>13. CASE Disconnect(c)
  BY <1>3, <1>13, Zenon DEF Disconnect
<1>14. CASE Leave(c)
  BY <1>3, <1>14, Zenon DEF Leave
<1>15. CASE Unregister(c)
  BY <1>3, <1>15, Zenon DEF Unregister
<1>16. CASE PurgeResults(c)
  BY <1>3, <1>16, Zenon DEF PurgeResults
<1>17. CASE CancelTasks(c)
  BY <1>3, <1>17, Zenon DEF CancelTasks
<1> QED BY <1>8, <1>9, <1>10, <1>11, <1>12, <1>13, <1>14, <1>15, <1>16, <1>17 DEF ClientStep

\* The loop: it falls asleep only when no handler waits, and a wake-up leaves
\* nobody waiting.
LEMMA FallingAsleepKeeps == IInv /\ GoToSleep => IInv'
<1> SUFFICES ASSUME IInv, GoToSleep PROVE IInv'
  OBVIOUS
<1>1. at = "rest" /\ at' = "asleep" /\ UNCHANGED client
  BY DEF GoToSleep, LoopGoes, clientVars
<1>2. ~sleeping /\ blocked = {}
  BY <1>1 DEF IInv, LoopAsleep, HandlersWait
<1>3. sleeping' = TRUE /\ wakeUp' = FALSE /\ running' = running
  BY Zenon DEF GoToSleep, FallAsleep
<1>4. Flags'
  BY <1>1, <1>3, Zenon DEF IInv, Flags
<1>5. LoopAsleep'
  BY <1>1, <1>3 DEF LoopAsleep
<1>6. HandlersWait'
  BY <1>1, <1>2, <1>3 DEF GoToSleep, FallAsleep, HandlersWait
<1> QED BY <1>4, <1>5, <1>6 DEF IInv

LEMMA WakingKeeps == IInv /\ Wake => IInv'
<1> SUFFICES ASSUME IInv, Wake PROVE IInv'
  OBVIOUS
<1>1. at = "asleep" /\ UNCHANGED client
  BY DEF Wake, clientVars
<1>2. sleeping
  BY <1>1 DEF IInv, LoopAsleep
<1>3. CASE ~running /\ LoopGoes("pop") /\ UNCHANGED queueVars
  <2>1. at' = "pop"
    BY <1>3 DEF LoopGoes
  <2>2. sleeping' = sleeping /\ running' = running /\ wakeUp' = wakeUp /\ blocked' = blocked
    BY <1>3, Zenon DEF queueVars
  <2> QED BY <1>1, <1>3, <2>1, <2>2 DEF IInv, Flags, LoopAsleep, HandlersWait
<1>4. CASE WakeUp /\ LoopGoes("pop")
  <2>1. at' = "pop"
    BY <1>4 DEF LoopGoes
  <2>2. sleeping' = FALSE /\ wakeUp' = FALSE /\ running' = running /\ blocked' = {}
    BY <1>4, Zenon DEF WakeUp
  <2>3. Flags'
    BY <1>1, <2>2, Zenon DEF IInv, Flags
  <2>4. LoopAsleep' /\ HandlersWait'
    BY <2>1, <2>2 DEF LoopAsleep, HandlersWait
  <2> QED BY <2>3, <2>4 DEF IInv
<1>5. CASE WaitAgain(MainLoop) /\ UNCHANGED at
  BY <1>1, <1>2, <1>5, WaitingAgainKeeps
<1> QED BY <1>3, <1>4, <1>5, Zenon DEF Wake

\* Only a loop that has not started yet, and so never slept, sets running.
LEMMA StartingKeeps == IInv /\ StartLoop => IInv'
<1> SUFFICES ASSUME IInv, StartLoop PROVE IInv'
  OBVIOUS
<1>1. at = "start" /\ at' = "pop" /\ UNCHANGED client
  BY DEF StartLoop, LoopGoes, clientVars
<1>2. running' = TRUE /\ sleeping' = sleeping /\ wakeUp' = wakeUp /\ blocked' = blocked
  BY Zenon DEF StartLoop, StartRunning
<1>3. Flags'
  BY <1>1, <1>2, Zenon DEF IInv, Flags
<1>4. LoopAsleep' /\ HandlersWait'
  BY <1>1, <1>2 DEF IInv, LoopAsleep, HandlersWait
<1> QED BY <1>3, <1>4 DEF IInv

LEMMA InterruptKeeps == IInv /\ Interrupt => IInv'
<1> SUFFICES ASSUME IInv, Interrupt PROVE IInv'
  OBVIOUS
<1>1. at' = at /\ client' = client
  BY DEF Interrupt, loopVars
<1>2. running' = FALSE /\ sleeping' = sleeping /\ wakeUp' = wakeUp /\ blocked' = {}
  BY Zenon DEF Interrupt, Terminate
<1>3. Flags'
  BY <1>1, <1>2, Zenon DEF IInv, Flags
<1>4. LoopAsleep' /\ HandlersWait'
  BY <1>1, <1>2 DEF IInv, LoopAsleep, HandlersWait
<1> QED BY <1>3, <1>4 DEF IInv

\* The loop's other steps are quiet, and none of them is taken in its sleep.
LEMMA LoopKeeps == IInv /\ LoopStep => IInv'
<1> SUFFICES ASSUME IInv, LoopStep PROVE IInv'
  OBVIOUS
<1>1. CASE StartLoop
  BY <1>1, StartingKeeps
<1>2. CASE Wake
  BY <1>2, WakingKeeps
<1>3. CASE Quiet /\ UNCHANGED clientVars /\
           (at' = at \/ (at # "asleep" /\ at' # "asleep" /\ (~sleeping \/ at' = "end")))
  <2>1. NoneRises
    BY <1>3, ClientsStay DEF IInv
  <2> QED BY <1>3, <2>1, QuietStep
<1>4. at # "asleep" /\ ~(at = "pop" /\ ~running) /\ at # "end" => ~sleeping
  BY DEF IInv, LoopAsleep
<1> USE <1>3, <1>4, QueueMethodsQuiet
<1>5. CASE EndLoop
  BY <1>5 DEF EndLoop, LoopGoes
<1>6. CASE PopTask
  BY <1>6 DEF PopTask, LoopGoes
<1>7. CASE ProcessNext \/ ProcessCancel \/ ProcessMetrics
  BY <1>7 DEF ProcessNext, ProcessCancel, ProcessMetrics, Processing, Done
<1>8. CASE ProcessSlotAction \/ DeferCompletion
  BY <1>8 DEF ProcessSlotAction, DeferCompletion, DeferTask, Processing, Done
<1>9. CASE Launch \/ LaunchFails
  BY <1>9 DEF Launch, LaunchFails, Processing, Done
<1>10. CASE BeginUpdate \/ PostNext
  BY <1>10 DEF BeginUpdate, PostNext, LoopGoes
<1>11. CASE FillBatch \/ DecodeFails \/ EndUpdate
  BY <1>11 DEF FillBatch, DecodeFails, EndUpdate, LoopGoes
<1>12. CASE \E s \in Slots : Release(s) \/ Refuse(s) \/ FailSlot(s)
                             \/ PromptDone(s) \/ GoOn(s) \/ Finish(s)
  BY <1>12 DEF Release, Refuse, FailSlot, PromptDone, GoOn, Finish
<1>13. CASE EndRest
  BY <1>13 DEF EndRest, LoopGoes
<1> QED BY <1>1, <1>2, <1>5, <1>6, <1>7, <1>8, <1>9, <1>10, <1>11, <1>12, <1>13 DEF LoopStep

-----------------------------------------------------------------------------
\* The invariant is inductive: at most handlers that asked for the wake-up
\* wait beside a sleeping loop (wait_until_no_sleep, start_loop).
THEOREM Sleeping == Spec => []IInv
<1>1. IInv /\ UNCHANGED vars => IInv'
  <2> SUFFICES ASSUME IInv, UNCHANGED vars PROVE IInv'
    OBVIOUS
  <2>1. Quiet /\ at' = at
    BY QueueMethodsQuiet DEF vars, loopVars
  <2>2. NoneRises
    BY ClientsStay DEF vars, IInv
  <2> QED BY <2>1, <2>2, QuietStep
<1>2. IInv /\ Next => IInv'
  BY LoopKeeps, FallingAsleepKeeps, InterruptKeeps, HandlersKeep DEF Next
<1>3. IInv /\ [Next]_vars => IInv'
  BY <1>1, <1>2
<1> QED BY Initially, <1>3, PTL DEF Spec

\* While the server sleeps and nobody has asked for the wake-up, only the
\* main loop waits on condition_tasks: the notify_one of the first thread
\* that asks cannot go to another one (wait_until_no_sleep).
THEOREM OnlyLoopIsAsleep == Spec => []OnlyLoopWaits
<1>1. IInv => OnlyLoopWaits
  BY DEF IInv, HandlersWait, OnlyLoopWaits
<1> QED BY <1>1, Sleeping, PTL
-----------------------------------------------------------------------------
(* What thinned sequences hold.                                            *)

\* A message of the queue that runs a task is there once.
Once(q) == \A i, j \in DOMAIN q : q[i] = q[j] /\ q[i].type = "run" => i = j

\* What a thinned sequence holds is what the kept indices held.
LEMMA ThinnedHolds ==
    ASSUME NEW T, NEW new \in Seq(T), NEW old \in Seq(T),
           NEW kept \in SUBSET DOMAIN old, Thinned(new, old, kept)
    PROVE  /\ \A v : (\E i \in DOMAIN new : new[i] = v) <=> (\E k \in kept : old[k] = v)
           /\ ToSet(new) = {old[k] : k \in kept}
           /\ IsInjective(old) => IsInjective(new)
           /\ Once(old) => Once(new)
<1>1. PICK h \in [DOMAIN new -> kept] :
        /\ \A i, j \in DOMAIN new : h[i] = h[j] => i = j
        /\ \A k \in kept : \E i \in DOMAIN new : h[i] = k
        /\ \A i \in DOMAIN new : h[i] \in kept /\ new[i] = old[h[i]]
  BY ThinnedFrom
<1>2. Once(old) => Once(new)
  BY <1>1 DEF Once
<1>3. \A v : (\E i \in DOMAIN new : new[i] = v) <=> (\E k \in kept : old[k] = v)
  BY <1>1
<1>4. ToSet(new) = {old[k] : k \in kept}
  BY ThinnedElements
<1>5. IsInjective(old) => IsInjective(new)
  BY ThinnedElements
<1>6. QED
  BY <1>2, <1>3, <1>4, <1>5

LEMMA ConcatHolds ==
    ASSUME NEW T, NEW s \in Seq(T), NEW t \in Seq(T)
    PROVE  /\ ToSet(s \o t) = ToSet(s) \cup ToSet(t)
           /\ Once(s) /\ Once(t) /\ (\A m \in ToSet(s) \cap ToSet(t) : m.type # "run")
                => Once(s \o t)
<1> DEFINE q == s \o t
<1>1. /\ q \in Seq(T) /\ DOMAIN q = 1..(Len(s) + Len(t))
      /\ \A i \in DOMAIN q : q[i] = IF i <= Len(s) THEN s[i] ELSE t[i - Len(s)]
      /\ Len(s) \in Nat /\ Len(t) \in Nat
      /\ DOMAIN s = 1..Len(s) /\ DOMAIN t = 1..Len(t)
  BY Concat
<1> HIDE DEF q
<1>2. \A i \in DOMAIN q : \/ i \in DOMAIN s /\ q[i] = s[i]
                          \/ i - Len(s) \in DOMAIN t /\ q[i] = t[i - Len(s)]
  BY <1>1
<1>3. \A i \in DOMAIN s : i \in DOMAIN q /\ q[i] = s[i]
  BY <1>1
<1>4. \A i \in DOMAIN t : i + Len(s) \in DOMAIN q /\ q[i + Len(s)] = t[i]
  <2>1. SUFFICES ASSUME NEW i \in DOMAIN t
                 PROVE  i + Len(s) \in DOMAIN q /\ q[i + Len(s)] = t[i]
    OBVIOUS
  <2>2. /\ i + Len(s) \in DOMAIN q /\ ~(i + Len(s) <= Len(s))
        /\ (i + Len(s)) - Len(s) = i
    BY <1>1
  <2>3. QED
    BY <1>1, <2>2
<1>5. ToSet(q) = ToSet(s) \cup ToSet(t)
  BY <1>2, <1>3, <1>4 DEF ToSet
<1>6. ASSUME Once(s), Once(t), \A m \in ToSet(s) \cap ToSet(t) : m.type # "run"
      PROVE  Once(q)
  <2>1. SUFFICES ASSUME NEW i \in DOMAIN q, NEW j \in DOMAIN q,
                        q[i] = q[j], q[i].type = "run"
                 PROVE  i = j
    BY DEF Once
  <2>2. i \in Int /\ j \in Int
    BY <1>1
  <2>3. CASE i \in DOMAIN s /\ q[i] = s[i] /\ j \in DOMAIN s /\ q[j] = s[j]
    BY <1>6, <2>1, <2>3 DEF Once
  <2>4. CASE /\ i - Len(s) \in DOMAIN t /\ q[i] = t[i - Len(s)]
             /\ j - Len(s) \in DOMAIN t /\ q[j] = t[j - Len(s)]
    <3>1. i - Len(s) = j - Len(s)
      BY <1>6, <2>1, <2>4 DEF Once
    <3>2. QED
      BY <1>1, <2>2, <3>1
  <2>5. CASE q[i] \in ToSet(s) \cap ToSet(t)
    BY <1>6, <2>1, <2>5
  <2>6. QED
    BY <1>2, <2>1, <2>3, <2>4, <2>5 DEF ToSet
<1>7. QED
  BY <1>5, <1>6 DEF q

LEMMA SingleHolds ==
    ASSUME NEW T, NEW m \in T
    PROVE  <<m>> \in Seq(T) /\ ToSet(<<m>>) = {m} /\ Once(<<m>>)
BY DEF ToSet, Once

LEMMA AppendHolds ==
    ASSUME NEW T, NEW s \in Seq(T), NEW m \in T
    PROVE  /\ Append(s, m) \in Seq(T)
           /\ ToSet(Append(s, m)) = ToSet(s) \cup {m}
           /\ IsInjective(s) /\ m \notin ToSet(s) => IsInjective(Append(s, m))
           /\ Once(s) /\ (m.type = "run" => m \notin ToSet(s)) => Once(Append(s, m))
<1> DEFINE q == Append(s, m)
<1>1. /\ q \in Seq(T) /\ DOMAIN q = DOMAIN s \cup {Len(s) + 1}
      /\ \A i \in DOMAIN s : q[i] = s[i] /\ i # Len(s) + 1
      /\ q[Len(s) + 1] = m
  OBVIOUS
<1> HIDE DEF q
<1>2. ToSet(q) = ToSet(s) \cup {m}
  BY <1>1 DEF ToSet
<1>3. IsInjective(s) /\ m \notin ToSet(s) => IsInjective(q)
  BY <1>1 DEF IsInjective, ToSet
<1>4. Once(s) /\ (m.type = "run" => m \notin ToSet(s)) => Once(q)
  BY <1>1 DEF Once, ToSet
<1>5. QED
  BY <1>1, <1>2, <1>3, <1>4 DEF q

\* The runs that a sequence of tasks is posted as.
LEMMA RunsOf ==
    ASSUME NEW ts \in Seq(Tasks), NEW q, q = [i \in DOMAIN ts |-> Run(ts[i])]
    PROVE  /\ q \in Seq(Message) /\ ToSet(q) = {Run(t) : t \in ToSet(ts)}
           /\ IsInjective(ts) => Once(q)
<1>1. DOMAIN q = 1..Len(ts) /\ Len(ts) \in Nat /\ DOMAIN ts = 1..Len(ts)
  OBVIOUS
<1>2. \A i \in DOMAIN ts : ts[i] \in Tasks
  OBVIOUS
<1>3. \A t \in Tasks : Run(t) \in Message
  BY DEF Run, Message
<1>4. q \in [1..Len(ts) -> Message]
  BY <1>1, <1>2, <1>3
<1>5. q \in Seq(Message)
  BY <1>1, <1>4
<1>6. ToSet(q) = {Run(t) : t \in ToSet(ts)}
  BY <1>1 DEF ToSet
<1>7. IsInjective(ts) => Once(q)
  BY <1>1 DEF IsInjective, Once, Run
<1>8. QED
  BY <1>5, <1>6, <1>7

\* The cancellations that precede a cleaned queue.
LEMMA CancelsOf ==
    ASSUME NEW ts \in Seq(Tasks), NEW q, q = Reverse([i \in DOMAIN ts |-> Cancel(ts[i])])
    PROVE  /\ q \in Seq(Message) /\ ToSet(q) = {Cancel(t) : t \in ToSet(ts)}
           /\ Once(q)
<1> DEFINE r == [i \in DOMAIN ts |-> Cancel(ts[i])]
<1>1. /\ DOMAIN r = 1..Len(ts) /\ Len(ts) \in Nat /\ DOMAIN ts = 1..Len(ts)
      /\ Len(r) = Len(ts)
  OBVIOUS
<1>2. q = [i \in 1..Len(ts) |-> r[(Len(ts) - i) + 1]]
  BY <1>1 DEF Reverse
<1>3. \A i \in 1..Len(ts) : (Len(ts) - i) + 1 \in DOMAIN ts /\ (Len(ts) - ((Len(ts) - i) + 1)) + 1 = i
  BY <1>1
<1>4. \A i \in 1..Len(ts) : q[i] = Cancel(ts[(Len(ts) - i) + 1])
  BY <1>1, <1>2, <1>3
<1>5. \A t \in Tasks : Cancel(t) \in Message /\ Cancel(t).type # "run"
  BY DEF Cancel, Message
<1>6. \A i \in DOMAIN ts : ts[i] \in Tasks
  OBVIOUS
<1>7. q \in [1..Len(ts) -> Message]
  BY <1>2, <1>3, <1>4, <1>5, <1>6
<1>8. q \in Seq(Message)
  BY <1>1, <1>7
<1>9. DOMAIN q = 1..Len(ts)
  BY <1>2
<1>10. \A i \in DOMAIN ts : \E j \in DOMAIN q : q[j] = Cancel(ts[i])
  BY <1>1, <1>3, <1>4, <1>9
<1>11. ToSet(q) = {Cancel(t) : t \in ToSet(ts)}
  <2> HIDE DEF r
  <2>1. ASSUME NEW m \in ToSet(q) PROVE m \in {Cancel(t) : t \in ToSet(ts)}
    <3>1. PICK j \in 1..Len(ts) : m = q[j]
      BY <1>9 DEF ToSet
    <3>2. m = Cancel(ts[(Len(ts) - j) + 1]) /\ (Len(ts) - j) + 1 \in DOMAIN ts
      BY <1>3, <1>4, <3>1
    <3>3. QED
      BY <3>2 DEF ToSet
  <2>2. ASSUME NEW t \in ToSet(ts) PROVE Cancel(t) \in ToSet(q)
    BY <1>10 DEF ToSet
  <2>3. QED
    BY <2>1, <2>2
<1>12. \A i \in DOMAIN q : q[i].type # "run"
  <2>1. ASSUME NEW i \in 1..Len(ts) PROVE q[i].type # "run"
    <3>1. ts[(Len(ts) - i) + 1] \in Tasks
      BY <1>3, <1>6
    <3>2. QED
      BY <1>4, <1>5, <3>1
  <2>2. QED
    BY <1>9, <2>1
<1>13. Once(q)
  BY <1>12 DEF Once
<1>14. QED
  BY <1>8, <1>11, <1>13

-----------------------------------------------------------------------------
(* What the methods of the queue do to the tasks they hold.                *)

QueueTypes == queue \in Seq(Message) /\ deferred \in Seq(Tasks)

LEMMA MessageTypes ==
    /\ \A t \in Tasks : Run(t) \in Message /\ Cancel(t) \in Message
    /\ NextResponse \in Message
    /\ \A t \in Tasks : /\ Run(t).type = "run" /\ Run(t).task = t
                        /\ Cancel(t).type = "cancel" /\ Cancel(t).task = t
                        /\ Run(t) # NextResponse /\ Cancel(t) # NextResponse
    /\ \A t, u \in Tasks : Run(t) # Cancel(u) /\ (Run(t) = Run(u) => t = u)
                           /\ (Cancel(t) = Cancel(u) => t = u)
    /\ NextResponse.type = "next"
BY DEF Run, Cancel, NextResponse, Message

LEMMA PostMoves ==
    ASSUME QueueTypes, NEW ts \in Seq(Tasks), Post(ts)
    PROVE  /\ queue' \in Seq(Message) /\ deferred' = deferred
           /\ ToSet(queue') = ToSet(queue) \cup {Run(t) : t \in ToSet(ts)}
           /\ Once(queue) /\ IsInjective(ts)
                /\ (\A t \in ToSet(ts) : Run(t) \notin ToSet(queue)) => Once(queue')
<1> DEFINE r == [i \in DOMAIN ts |-> Run(ts[i])]
<1>1. queue' = queue \o r /\ deferred' = deferred /\ queue \in Seq(Message)
  BY DEF Post, QueueTypes
<1>2. /\ r \in Seq(Message) /\ ToSet(r) = {Run(t) : t \in ToSet(ts)}
      /\ IsInjective(ts) => Once(r)
  BY RunsOf
<1> HIDE DEF r
<1>3. QED
  BY <1>1, <1>2, Concat, ConcatHolds

LEMMA PrependMoves ==
    ASSUME NEW q \in Seq(Message), NEW m \in Message
    PROVE  /\ <<m>> \o q \in Seq(Message)
           /\ ToSet(<<m>> \o q) = ToSet(q) \cup {m}
           /\ Once(q) /\ m \notin ToSet(q) => Once(<<m>> \o q)
<1> DEFINE one == <<m>>
<1>1. one \in Seq(Message) /\ ToSet(one) = {m} /\ Once(one)
  BY SingleHolds
<1> HIDE DEF one
<1>2. /\ one \o q \in Seq(Message) /\ ToSet(one \o q) = {m} \cup ToSet(q)
      /\ Once(one) /\ Once(q) /\ (\A k \in {m} \cap ToSet(q) : k.type # "run")
           => Once(one \o q)
  BY <1>1, Concat, ConcatHolds
<1>3. QED
  BY <1>1, <1>2 DEF one

LEMMA FrontMoves ==
    ASSUME QueueTypes, NEW t \in Tasks, PostFront(t)
    PROVE  /\ queue' \in Seq(Message) /\ deferred' = deferred
           /\ ToSet(queue') = ToSet(queue) \cup {Run(t)}
           /\ Once(queue) /\ Run(t) \notin ToSet(queue) => Once(queue')
BY PrependMoves, MessageTypes DEF PostFront, QueueTypes

LEMMA NextMoves ==
    ASSUME QueueTypes, PostNextResponse
    PROVE  /\ queue' \in Seq(Message) /\ deferred' = deferred
           /\ ToSet(queue') = ToSet(queue) \cup {NextResponse}
           /\ Once(queue) => Once(queue')
BY AppendHolds, MessageTypes DEF PostNextResponse, QueueTypes

LEMMA TakeMoves ==
    ASSUME QueueTypes, TakeTask
    PROVE  /\ queue' \in Seq(Message) /\ deferred' = deferred
           /\ Head(queue) \in Message
           /\ ToSet(queue') \cup {Head(queue)} = ToSet(queue)
           /\ Once(queue) => /\ Once(queue')
                             /\ Head(queue).type = "run" => Head(queue) \notin ToSet(queue')
<1>1. /\ queue \in Seq(Message) /\ queue' = Tail(queue) /\ queue # << >>
      /\ deferred' = deferred
  BY DEF TakeTask, QueueTypes
<1>2. /\ queue' \in Seq(Message) /\ Head(queue) = queue[1] /\ 1 \in DOMAIN queue
      /\ Thinned(queue', queue, DOMAIN queue \ {1})
  BY <1>1, TailThins
<1>3. /\ ToSet(queue') = {queue[k] : k \in DOMAIN queue \ {1}}
      /\ Once(queue) => Once(queue')
  <2>1. DOMAIN queue \ {1} \in SUBSET DOMAIN queue
    OBVIOUS
  <2>2. queue \in Seq(Message)
    BY <1>1
  <2>3. QED
    BY <1>2, <2>1, <2>2, ThinnedHolds
<1>4. ToSet(queue') \cup {Head(queue)} = ToSet(queue)
  BY <1>2, <1>3 DEF ToSet
<1>5. Once(queue) /\ Head(queue).type = "run" => Head(queue) \notin ToSet(queue')
  BY <1>2, <1>3 DEF Once
<1>6. Head(queue) \in Message
  BY <1>1, <1>2
<1>7. QED
  BY <1>1, <1>2, <1>3, <1>4, <1>5, <1>6

LEMMA DeferMoves ==
    ASSUME QueueTypes, NEW t \in Tasks, Defer(t)
    PROVE  /\ deferred' \in Seq(Tasks) /\ queue' = queue
           /\ ToSet(deferred') = ToSet(deferred) \cup {t}
           /\ IsInjective(deferred) /\ t \notin ToSet(deferred) => IsInjective(deferred')
BY AppendHolds DEF Defer, QueueTypes

\* The task that leaves the deferred ones goes to the front of the queue.
LEMMA PopMoves ==
    ASSUME QueueTypes, NEW s, PopDeferred(s)
    PROVE  \/ queue' = queue /\ deferred' = deferred
           \/ \E t \in ToSet(deferred) :
                 /\ queue' \in Seq(Message) /\ deferred' \in Seq(Tasks)
                 /\ ToSet(queue') = ToSet(queue) \cup {Run(t)}
                 /\ ToSet(deferred') \cup {t} = ToSet(deferred)
                 /\ Once(queue) /\ Run(t) \notin ToSet(queue) => Once(queue')
                 /\ IsInjective(deferred) =>
                       IsInjective(deferred') /\ t \notin ToSet(deferred')
<1> DEFINE I == {i \in 1..Len(deferred) : IdSlot[deferred[i]] = s}
           own == SelectInSeq(deferred, LAMBDA t : IdSlot[t] = s)
           n == IF own = 0 THEN 1 ELSE own
<1>1. own = IF I # {} THEN Min(I) ELSE 0
  BY DEF SelectInSeq
<1>2. CASE deferred = << >>
  BY <1>2 DEF PopDeferred
<1>3. CASE deferred # << >>
  <2>1. queue' = <<Run(deferred[n])>> \o queue /\ deferred' = RemoveAt(deferred, n)
    BY <1>3 DEF PopDeferred
  <2>2. DOMAIN deferred = 1..Len(deferred) /\ Len(deferred) \in Nat /\ Len(deferred) # 0
    BY <1>3 DEF QueueTypes
  <2>3. n \in DOMAIN deferred
    <3>1. CASE I # {}
      <4>1. I \in SUBSET Nat
        BY <2>2
      <4>2. Min(I) \in I
        BY <3>1, <4>1, SmallestExists
      <4>3. Min(I) \in 1..Len(deferred) /\ Min(I) # 0
        BY <2>2, <4>2
      <4> HIDE DEF I, own
      <4>4. own = Min(I)
        BY <1>1, <3>1
      <4>5. QED
        BY <2>2, <4>3, <4>4
    <3>2. CASE I = {}
      <4> HIDE DEF I, own
      <4>1. own = 0
        BY <1>1, <3>2
      <4>2. QED
        BY <2>2, <4>1
    <3>3. QED
      BY <3>1, <3>2
  <2> HIDE DEF n
  <2> DEFINE t == deferred[n]
  <2>4. t \in ToSet(deferred) /\ t \in Tasks /\ Run(t) \in Message
    BY <2>3, MessageTypes DEF QueueTypes, ToSet
  <2>5. /\ queue' \in Seq(Message) /\ ToSet(queue') = ToSet(queue) \cup {Run(t)}
        /\ Once(queue) /\ Run(t) \notin ToSet(queue) => Once(queue')
    BY <2>1, <2>4, PrependMoves DEF QueueTypes
  <2>6. /\ deferred' \in Seq(Tasks)
        /\ Thinned(deferred', deferred, DOMAIN deferred \ {n})
    BY <2>1, <2>3, RemoveThins DEF QueueTypes
  <2>7. /\ ToSet(deferred') = {deferred[k] : k \in DOMAIN deferred \ {n}}
        /\ IsInjective(deferred) => IsInjective(deferred')
    BY <2>6, ThinnedHolds DEF QueueTypes
  <2>8. ToSet(deferred') \cup {t} = ToSet(deferred)
    BY <2>3, <2>7 DEF ToSet
  <2>9. IsInjective(deferred) => t \notin ToSet(deferred')
    BY <2>3, <2>7 DEF IsInjective
  <2>10. QED
    BY <2>4, <2>5, <2>6, <2>7, <2>8, <2>9
<1>4. QED
  BY <1>2, <1>3

\* A cancellation removes nothing but the targets' runs.
LEMMA CancelMoves ==
    ASSUME QueueTypes, NEW S \in SUBSET Tasks, IsFiniteSet(S), PostCancels(SetToSeq(S))
    PROVE  /\ queue' \in Seq(Message) /\ deferred' \in Seq(Tasks)
           /\ ToSet(queue') \subseteq ToSet(queue) \cup {Cancel(t) : t \in S}
           /\ ToSet(queue) \subseteq ToSet(queue') \cup {Run(t) : t \in S}
           /\ ToSet(deferred') \subseteq ToSet(deferred)
           /\ ToSet(deferred) \subseteq ToSet(deferred') \cup S
           /\ Once(queue) => Once(queue')
           /\ IsInjective(deferred) => IsInjective(deferred')
<1> DEFINE ts == SetToSeq(S)
           targets == {Run(ts[i]) : i \in DOMAIN ts}
           left == {i \in DOMAIN queue : queue[i] \notin targets}
           stays == {i \in DOMAIN deferred : deferred[i] \notin ToSet(ts)}
           cancels == Reverse([i \in DOMAIN ts |-> Cancel(ts[i])])
           rest == SubseqAt(queue, left)
<1>1. ts \in Seq(S) /\ ts \in Seq(Tasks)
  BY SetSequence
<1>2. queue' = cancels \o rest /\ deferred' = SubseqAt(deferred, stays)
  BY DEF PostCancels
<1>3. ToSet(ts) \subseteq S /\ targets \subseteq {Run(t) : t \in S}
  BY <1>1 DEF ToSet
<1> HIDE DEF ts
<1>4. /\ cancels \in Seq(Message) /\ ToSet(cancels) = {Cancel(t) : t \in ToSet(ts)}
      /\ Once(cancels)
  BY <1>1, CancelsOf
<1> HIDE DEF cancels
<1>5. rest \in Seq(Message) /\ Thinned(rest, queue, left)
  BY SubseqThins DEF QueueTypes
<1>6. deferred' \in Seq(Tasks) /\ Thinned(deferred', deferred, stays)
  BY <1>2, SubseqThins DEF QueueTypes
<1> HIDE DEF rest
<1>7. /\ ToSet(rest) = {queue[k] : k \in left}
      /\ Once(queue) => Once(rest)
  BY <1>5, ThinnedHolds DEF QueueTypes
<1>8. /\ ToSet(deferred') = {deferred[k] : k \in stays}
      /\ IsInjective(deferred) => IsInjective(deferred')
  BY <1>6, ThinnedHolds DEF QueueTypes
<1>9. /\ queue' \in Seq(Message) /\ ToSet(queue') = ToSet(cancels) \cup ToSet(rest)
      /\ Once(queue) => Once(queue')
  <2>1. \A m \in ToSet(cancels) : m.type # "run"
    BY <1>1, <1>3, <1>4, MessageTypes
  <2>2. QED
    BY <1>2, <1>4, <1>5, <1>7, <2>1, Concat, ConcatHolds
<1>10. ToSet(rest) \subseteq ToSet(queue) /\ ToSet(queue) \subseteq ToSet(rest) \cup targets
  BY <1>7 DEF ToSet
<1>11. ToSet(deferred') \subseteq ToSet(deferred)
       /\ ToSet(deferred) \subseteq ToSet(deferred') \cup ToSet(ts)
  BY <1>8 DEF ToSet
<1> HIDE DEF left, stays, targets
<1>12. QED
  BY <1>3, <1>4, <1>6, <1>8, <1>9, <1>10, <1>11

-----------------------------------------------------------------------------
(* Where the tasks are.                                                    *)

Working == {"batch", "decode", "failed"}

FlowTypes ==
    /\ QueueTypes /\ inHand \in Message
    /\ slots \in [Slots -> SlotRecord \cup {Idle}]
    /\ releasing \subseteq Busy /\ todo \subseteq Busy \ releasing
    /\ at # "process" => inHand = NextResponse
    /\ at = "process" => releasing = {}
    /\ at \notin {"decode", "failed"} => todo = {}

Runs == {t \in Tasks : Run(t) \in ToSet(queue)}
Handled == {t \in Tasks : inHand = Run(t)}
InSlots == {slots[s].task : s \in Busy}
Waiting == Runs \cup ToSet(deferred) \cup Handled

\* The tasks that handlers have posted.
Sent == {"read", "stop", "purge", "cancel", "gone"}
Owned == UNION {Posted(c) : c \in {d \in Clients : client[d] \in Sent}}

InOneQueue ==
    /\ Once(queue) /\ IsInjective(deferred)
    /\ Runs \cap ToSet(deferred) = {}
    /\ Handled \cap (Runs \cup ToSet(deferred)) = {}

\* Only posted tasks wait; a child is in a slot once its parent is not
\* waiting any more.
OneEachPlace ==
    /\ InOneQueue
    /\ \A s, r \in Busy : slots[s].task = slots[r].task => s = r
    /\ InSlots \cap Waiting = {}
    /\ Waiting \subseteq Owned
    /\ \A k \in InSlots : k \in Owned \/ \E t \in Owned \ Waiting : k \in Children[t]

\* As long as a slot works, the message that brings the loop back is queued
\* (update_slots).
Coming ==
    at \in Working \/ (at = "rest" /\ Busy # {}) => NextResponse \in ToSet(queue)

Unloaded == sleeping => Busy = {}

PInv == FlowTypes /\ OneEachPlace /\ Coming /\ Unloaded

-----------------------------------------------------------------------------
\* A posted task's child is not posted itself, nor anybody else's child.
LEMMA Family ==
    ASSUME NEW t \in Owned, NEW k \in Children[t]
    PROVE  k \notin Owned /\ \A u \in Owned \ {t} : k \notin Children[u]
<1>1. PICK c \in Clients : client[c] \in Sent /\ t \in Posted(c)
  BY DEF Owned
<1>2. k \in IdsOf(c)
  BY <1>1 DEF IdsOf
<1>3. ASSUME NEW u \in Owned, u = k \/ (u # t /\ k \in Children[u]) PROVE FALSE
  <2>1. PICK d \in Clients : client[d] \in Sent /\ u \in Posted(d)
    BY <1>3 DEF Owned
  <2>2. k \in IdsOf(d)
    BY <1>3, <2>1 DEF IdsOf
  <2>3. d = c
    BY <1>2, <2>2, RequestFlowAssumption
  <2>4. OwnIds(c)
    BY RequestFlowAssumption
  <2>5. QED
    BY <1>1, <1>3, <2>1, <2>3, <2>4 DEF OwnIds
<1>4. QED
  BY <1>3

LEMMA OwnedTasks == Owned \subseteq Tasks
<1>1. ASSUME NEW c \in Clients PROVE Posted(c) \subseteq Tasks
  BY RequestFlowAssumption DEF Posted, ToSet
<1>2. QED
  BY <1>1 DEF Owned

\* A run in the queue, or in hand, is that of a task.
LEMMA RunMessage ==
    ASSUME NEW m \in Message
    PROVE  m.type = "run" => m.task \in Tasks /\ m = Run(m.task)
BY DEF Message, Run

SlotsKept == \A s \in Slots :
    slots'[s] # Idle => slots[s] # Idle /\ slots'[s].task = slots[s].task

\* A step that moves tasks between the queues or drops them, and at most
\* frees slots, leaves every task in one place.
LEMMA MovedKeeps ==
    ASSUME OneEachPlace, InOneQueue', Waiting' \subseteq Waiting, SlotsKept,
           Owned \subseteq Owned'
    PROVE  OneEachPlace'
<1>1. \A s \in Busy' : s \in Busy /\ slots'[s].task = slots[s].task
  BY DEF SlotsKept, Busy
<1>2. InSlots' \subseteq InSlots
  BY <1>1 DEF InSlots
<1>3. \A s, r \in Busy' : slots'[s].task = slots'[r].task => s = r
  BY <1>1 DEF OneEachPlace
<1>4. InSlots' \cap Waiting' = {} /\ Waiting' \subseteq Owned'
  BY <1>2 DEF OneEachPlace
<1>5. \A k \in InSlots' : k \in Owned' \/ \E t \in Owned' \ Waiting' : k \in Children[t]
  <2>1. SUFFICES ASSUME NEW k \in InSlots', k \notin Owned
                 PROVE  \E t \in Owned' \ Waiting' : k \in Children[t]
    OBVIOUS
  <2>2. PICK t \in Owned \ Waiting : k \in Children[t]
    BY <1>2, <2>1 DEF OneEachPlace
  <2>3. QED
    BY <2>2
<1>6. QED
  BY <1>3, <1>4, <1>5 DEF OneEachPlace

LEMMA OwnedStays == UNCHANGED client => Owned \subseteq Owned'
BY DEF Owned

\* The queues are left alone, and the message in hand is kept or done with.
LEMMA StillKeeps ==
    ASSUME OneEachPlace, UNCHANGED <<queue, deferred>>,
           inHand' \in {inHand, NextResponse}, SlotsKept, Owned \subseteq Owned'
    PROVE  OneEachPlace'
<1>1. Handled' \subseteq Handled
  BY MessageTypes DEF Handled
<1>2. Runs' = Runs /\ ToSet(deferred') = ToSet(deferred)
  BY DEF Runs
<1>3. InOneQueue'
  BY <1>1, <1>2 DEF OneEachPlace, InOneQueue, Once, IsInjective
<1>4. Waiting' \subseteq Waiting
  BY <1>1, <1>2 DEF Waiting
<1>5. QED
  BY <1>3, <1>4, MovedKeeps
-----------------------------------------------------------------------------
\* Steps that leave the queues and the loop alone.
LEMMA QuietPlaces ==
    ASSUME PInv, UNCHANGED <<queue, deferred, sleeping>>, UNCHANGED loopVars,
           Owned \subseteq Owned'
    PROVE  PInv'
<1>1. UNCHANGED <<at, inHand, slots, todo, releasing>>
  BY DEF loopVars
<1>2. FlowTypes' /\ Coming' /\ Unloaded' /\ SlotsKept
  BY <1>1 DEF PInv, FlowTypes, QueueTypes, Coming, Unloaded, Busy, SlotsKept
<1>3. OneEachPlace'
  BY <1>1, <1>2, StillKeeps DEF PInv
<1>4. QED
  BY <1>2, <1>3 DEF PInv

LEMMA GotoOwned ==
    ASSUME Flags, NEW c \in Clients, NEW place, Goto(c, place),
           client[c] \in Sent => place \in Sent
    PROVE  Owned \subseteq Owned'
<1>1. \A d \in Clients : client[d] \in Sent => client'[d] \in Sent
  BY DEF Flags, Goto
<1>2. QED
  BY <1>1 DEF Owned

LEMMA HandlersQuietPlaces ==
    ASSUME Flags, PInv, NEW c \in Clients,
           \/ Arrive(c) \/ Rouse(c) \/ Register(c) \/ Receive(c) \/ Disconnect(c)
           \/ Leave(c) \/ Unregister(c) \/ PurgeResults(c)
    PROVE  PInv'
<1>1. \/ UNCHANGED queueVars
      \/ AskToWake(c) \/ WaitAgain(c)
  BY DEF Arrive, Rouse, Register, Receive, Disconnect, Leave, Unregister, PurgeResults
<1>2. UNCHANGED <<queue, deferred, sleeping>>
  BY <1>1 DEF queueVars, AskToWake, WaitAgain
<1>3. UNCHANGED loopVars
  BY DEF Arrive, Rouse, Register, Receive, Disconnect, Leave, Unregister, PurgeResults
<1>4. \/ UNCHANGED client
      \/ \E place : /\ Goto(c, place)
                    /\ client[c] \in Sent => place \in Sent
  BY DEF Arrive, Rouse, Register, Receive, Disconnect, Leave, Unregister, PurgeResults,
         clientVars, Sent
<1>5. Owned \subseteq Owned'
  BY <1>4, GotoOwned, OwnedStays
<1>6. QED
  BY <1>2, <1>3, <1>5, QuietPlaces

\* The tasks a handler posts were nowhere before.
LEMMA PostPlaces ==
    ASSUME Flags, PInv, NEW c \in Clients, PostTasks(c)
    PROVE  /\ PInv' /\ deferred' = deferred
           /\ ToSet(queue') = ToSet(queue) \cup {Run(t) : t \in Posted(c)}
<1> DEFINE ts == Posts[c]
<1>1. ts \in Seq(Tasks) /\ ts # << >> /\ IsInjective(ts) /\ ToSet(ts) = Posted(c)
  BY RequestFlowAssumption DEF OwnIds, Posted
<1>2. UNCHANGED loopVars /\ client[c] = "post" /\ Goto(c, "read")
  BY DEF PostTasks
<1>3. \A t \in Posted(c) : t \in IdsOf(c)
  BY DEF IdsOf
<1>4. Posted(c) \cap Owned = {}
  <2>1. SUFFICES ASSUME NEW t \in Posted(c), t \in Owned PROVE FALSE
    OBVIOUS
  <2>2. PICK d \in Clients : client[d] \in Sent /\ t \in Posted(d)
    BY <2>1 DEF Owned
  <2>3. d # c
    BY <1>2, <2>2 DEF Sent
  <2>4. t \in IdsOf(c) \cap IdsOf(d)
    BY <1>3, <2>1, <2>2 DEF IdsOf
  <2>5. QED
    BY <2>3, <2>4, RequestFlowAssumption
<1>5. \A t \in Owned : Children[t] \cap Posted(c) = {}
  <2>1. SUFFICES ASSUME NEW t \in Owned, NEW k \in Children[t], k \in Posted(c) PROVE FALSE
    OBVIOUS
  <2>2. PICK d \in Clients : client[d] \in Sent /\ t \in Posted(d)
    BY DEF Owned
  <2>3. d # c
    BY <1>2, <2>2 DEF Sent
  <2>4. k \in IdsOf(c) \cap IdsOf(d)
    BY <1>3, <2>1, <2>2 DEF IdsOf
  <2>5. QED
    BY <2>3, <2>4, RequestFlowAssumption
<1>6. Posted(c) \cap (Waiting \cup InSlots) = {}
  BY <1>4, <1>5 DEF PInv, OneEachPlace
<1>7. \A t \in Posted(c) : Run(t) \notin ToSet(queue)
  <2>1. \A t \in Posted(c) : t \in Tasks
    BY <1>1 DEF Posted, ToSet
  <2>2. QED
    BY <1>6, <2>1 DEF Waiting, Runs
<1>8. /\ queue' \in Seq(Message) /\ deferred' = deferred
      /\ ToSet(queue') = ToSet(queue) \cup {Run(t) : t \in Posted(c)}
      /\ Once(queue')
  <2>1. CASE Kind[Posts[c][1]] = "metrics"
    <3>1. Len(ts) = 1 /\ ts[1] \in Tasks
      BY <1>1, <2>1, RequestFlowAssumption
    <3>2. Posted(c) = {ts[1]}
      BY <1>1, <3>1 DEF ToSet
    <3>3. PostFront(ts[1])
      BY <2>1 DEF PostTasks
    <3> HIDE DEF ts
    <3>4. QED
      BY <1>7, <3>1, <3>2, <3>3, FrontMoves DEF PInv, FlowTypes, OneEachPlace, InOneQueue
  <2>2. CASE Kind[Posts[c][1]] # "metrics"
    <3>1. Post(ts)
      BY <2>2 DEF PostTasks
    <3> HIDE DEF ts
    <3>2. QED
      BY <1>1, <1>7, <3>1, PostMoves DEF PInv, FlowTypes, OneEachPlace, InOneQueue
  <2>3. QED
    BY <2>1, <2>2
<1>9. sleeping' = sleeping
  BY DEF PostTasks, Post, PostFront
<1>10. UNCHANGED <<at, inHand, slots, todo, releasing>>
  BY <1>2 DEF loopVars
<1>11. FlowTypes' /\ Coming' /\ Unloaded'
  BY <1>8, <1>9, <1>10 DEF PInv, FlowTypes, QueueTypes, Coming, Unloaded, Busy
<1>12. Owned' = Owned \cup Posted(c)
  <2>1. client' = [client EXCEPT ![c] = "read"] /\ client \in [Clients -> Places]
    BY <1>2 DEF Goto, Flags
  <2>2. \A d \in Clients : client'[d] \in Sent <=> client[d] \in Sent \/ d = c
    BY <2>1 DEF Sent
  <2>3. QED
    BY <2>2 DEF Owned
<1>13. Runs' = Runs \cup Posted(c)
  <2>1. \A t \in Posted(c) : t \in Tasks
    BY <1>1 DEF Posted, ToSet
  <2>2. \A t, u \in Tasks : Run(t) = Run(u) => t = u
    BY MessageTypes
  <2>3. QED
    BY <1>8, <2>1, <2>2 DEF Runs
<1>14. Handled' = Handled /\ InSlots' = InSlots /\ Waiting' = Waiting \cup Posted(c)
  BY <1>8, <1>10, <1>13 DEF Handled, InSlots, Busy, Waiting
<1>15. InOneQueue'
  BY <1>6, <1>8, <1>13, <1>14 DEF PInv, OneEachPlace, InOneQueue, Waiting, IsInjective
<1>16. \A k \in InSlots' : k \in Owned' \/ \E t \in Owned' \ Waiting' : k \in Children[t]
  BY <1>4, <1>12, <1>14 DEF PInv, OneEachPlace
<1>17. \A s, r \in Busy' : slots'[s].task = slots'[r].task => s = r
  BY <1>10 DEF PInv, OneEachPlace, Busy
<1>18. OneEachPlace'
  BY <1>6, <1>12, <1>14, <1>15, <1>16, <1>17 DEF PInv, OneEachPlace
<1>19. QED
  BY <1>8, <1>11, <1>18 DEF PInv

LEMMA IdsFinite ==
    ASSUME NEW c \in Clients
    PROVE  IsFiniteSet(IdsOf(c)) /\ IdsOf(c) \subseteq Tasks
<1>1. Posts[c] \in Seq(Tasks)
  BY RequestFlowAssumption
<1>2. IsFiniteSet(Posted(c)) /\ Posted(c) \subseteq Tasks
  <2>1. Posts[c] \in Surjection(DOMAIN Posts[c], Posted(c))
    BY <1>1 DEF Surjection, Posted, ToSet
  <2>2. IsFiniteSet(DOMAIN Posts[c])
    <3>1. DOMAIN Posts[c] = 1..Len(Posts[c]) /\ Len(Posts[c]) \in Nat
      BY <1>1
    <3>2. QED
      BY <3>1, FS_Interval
  <2>3. QED
    BY <1>1, <2>1, <2>2, FS_Surjection DEF Posted, ToSet
<1>3. \A t \in Posted(c) : IsFiniteSet(Children[t]) /\ Children[t] \subseteq Tasks
  BY <1>2, ServerTaskAssumption
<1>4. IsFiniteSet(UNION {Children[t] : t \in Posted(c)})
  <2>1. IsFiniteSet({Children[t] : t \in Posted(c)})
    <3> DEFINE f == [t \in Posted(c) |-> Children[t]]
               families == {Children[t] : t \in Posted(c)}
    <3>1. f \in Surjection(Posted(c), families)
      BY DEF Surjection
    <3> HIDE DEF f
    <3>2. QED
      BY <1>2, <3>1, FS_Surjection
  <2>2. QED
    BY <1>3, <2>1, FS_UNION
<1>5. QED
  BY <1>2, <1>3, <1>4, FS_Union DEF IdsOf

LEMMA CancelPlaces ==
    ASSUME Flags, PInv, NEW c \in Clients, CancelTasks(c)
    PROVE  /\ PInv'
           /\ ToSet(queue') \subseteq ToSet(queue) \cup {Cancel(t) : t \in IdsOf(c)}
           /\ ToSet(queue) \subseteq ToSet(queue') \cup {Run(t) : t \in IdsOf(c)}
           /\ ToSet(deferred') \subseteq ToSet(deferred)
           /\ ToSet(deferred) \subseteq ToSet(deferred') \cup IdsOf(c)
<1>1. /\ queue' \in Seq(Message) /\ deferred' \in Seq(Tasks)
      /\ ToSet(queue') \subseteq ToSet(queue) \cup {Cancel(t) : t \in IdsOf(c)}
      /\ ToSet(queue) \subseteq ToSet(queue') \cup {Run(t) : t \in IdsOf(c)}
      /\ ToSet(deferred') \subseteq ToSet(deferred)
      /\ ToSet(deferred) \subseteq ToSet(deferred') \cup IdsOf(c)
      /\ Once(queue) => Once(queue')
      /\ IsInjective(deferred) => IsInjective(deferred')
  <2>1. IsFiniteSet(IdsOf(c)) /\ IdsOf(c) \in SUBSET Tasks
    BY IdsFinite
  <2>2. PostCancels(SetToSeq(IdsOf(c)))
    BY DEF CancelTasks
  <2>3. QueueTypes
    BY DEF PInv, FlowTypes
  <2>4. QED
    BY <2>1, <2>2, <2>3, CancelMoves
<1>2. sleeping' = sleeping /\ UNCHANGED loopVars
  BY DEF CancelTasks, PostCancels
<1>3. UNCHANGED <<at, inHand, slots, todo, releasing>>
  BY <1>2 DEF loopVars
<1>4. Runs' \subseteq Runs
  <2>1. \A t \in Tasks : Run(t) \notin {Cancel(u) : u \in IdsOf(c)}
    BY MessageTypes, IdsFinite
  <2>2. QED
    BY <1>1, <2>1 DEF Runs
<1>5. Handled' = Handled
  BY <1>3 DEF Handled
<1>6. InOneQueue'
  BY <1>1, <1>4, <1>5 DEF PInv, OneEachPlace, InOneQueue
<1>7. Waiting' \subseteq Waiting
  BY <1>1, <1>4, <1>5 DEF Waiting
<1>8. SlotsKept
  BY <1>3 DEF SlotsKept
<1>9. Owned \subseteq Owned'
  BY GotoOwned DEF CancelTasks, Sent
<1>10. OneEachPlace'
  BY <1>6, <1>7, <1>8, <1>9, MovedKeeps DEF PInv
<1>11. Coming'
  <2>1. \A t \in Tasks : NextResponse # Run(t)
    BY MessageTypes
  <2>2. NextResponse \in ToSet(queue) => NextResponse \in ToSet(queue')
    BY <1>1, <2>1, IdsFinite
  <2>3. QED
    BY <1>3, <2>2 DEF PInv, Coming, Busy
<1>12. FlowTypes' /\ Unloaded'
  BY <1>1, <1>2, <1>3 DEF PInv, FlowTypes, QueueTypes, Unloaded, Busy
<1>13. QED
  BY <1>1, <1>10, <1>11, <1>12 DEF PInv

-----------------------------------------------------------------------------
\* The loop's steps that leave the queues alone keep every task in its place.
LEMMA StillPlaces ==
    ASSUME PInv, UNCHANGED <<queue, deferred, client>>,
           inHand' \in {inHand, NextResponse}, SlotsKept
    PROVE  OneEachPlace'
BY StillKeeps, OwnedStays DEF PInv

\* Steps that only move the loop.
LEMMA LoopGoesPlaces ==
    ASSUME IInv, PInv, \/ StartLoop \/ EndLoop \/ BeginUpdate \/ EndUpdate
                       \/ EndRest \/ GoToSleep \/ Wake
    PROVE  PInv'
<1>1. UNCHANGED <<queue, deferred, client, inHand, slots, todo, releasing>>
  BY DEF StartLoop, EndLoop, BeginUpdate, EndUpdate, EndRest, GoToSleep, Wake, LoopGoes,
         StartRunning, FallAsleep, WakeUp, WaitAgain, queueVars, clientVars
<1>2. Busy' = Busy /\ SlotsKept
  BY <1>1 DEF Busy, SlotsKept
<1>3. OneEachPlace'
  BY <1>1, <1>2, StillPlaces
<1>4. /\ at' # "process" /\ at # "process"
      /\ at' \notin {"decode", "failed"} /\ todo = {}
  BY DEF StartLoop, EndLoop, BeginUpdate, EndUpdate, EndRest, GoToSleep, Wake, LoopGoes,
         PInv, FlowTypes
<1>5. FlowTypes'
  BY <1>1, <1>2, <1>4 DEF PInv, FlowTypes, QueueTypes
<1>6. Coming'
  <2>1. at' = "rest" => (BeginUpdate /\ Busy = {}) \/ at \in Working
    BY DEF StartLoop, EndLoop, BeginUpdate, EndUpdate, EndRest, GoToSleep, Wake, LoopGoes,
           Working
  <2>2. at' \notin Working
    BY DEF StartLoop, EndLoop, BeginUpdate, EndUpdate, EndRest, GoToSleep, Wake, LoopGoes,
           Working
  <2>3. QED
    BY <1>1, <1>2, <2>1, <2>2 DEF PInv, Coming
<1>7. Unloaded'
  <2>1. CASE GoToSleep
    <3>1. at = "rest" /\ queue = << >>
      BY <2>1 DEF GoToSleep
    <3>2. ToSet(queue) = {}
      BY <3>1 DEF ToSet
    <3>3. Busy = {}
      BY <3>1, <3>2 DEF PInv, Coming
    <3>4. QED
      BY <1>2, <3>3 DEF Unloaded
  <2>2. CASE ~GoToSleep
    <3>1. sleeping' => sleeping
      BY <2>2 DEF StartLoop, EndLoop, BeginUpdate, EndUpdate, EndRest, Wake,
           StartRunning, WakeUp, WaitAgain, queueVars
    <3>2. QED
      BY <1>2, <3>1 DEF PInv, Unloaded
  <2>3. QED
    BY <2>1, <2>2
<1>8. QED
  BY <1>3, <1>5, <1>6, <1>7 DEF PInv

\* Steps of a pass over the batch, and the end of what is in hand.
LEMMA PassPlaces ==
    ASSUME PInv, UNCHANGED <<queue, deferred, client, sleeping, slots>>,
           inHand' \in {inHand, NextResponse}, at' # "process", inHand' = NextResponse,
           at' \in Working => at \in Working, at' # "rest",
           releasing' \subseteq Busy, todo' \subseteq Busy \ releasing',
           at' \notin {"decode", "failed"} => todo' = {}
    PROVE  PInv'
<1>1. Busy' = Busy /\ SlotsKept
  BY DEF Busy, SlotsKept
<1>2. OneEachPlace'
  BY <1>1, StillPlaces
<1>3. FlowTypes'
  BY <1>1, MessageTypes DEF PInv, FlowTypes, QueueTypes
<1>4. Coming' /\ Unloaded'
  BY <1>1 DEF PInv, Coming, Unloaded
<1>5. QED
  BY <1>2, <1>3, <1>4 DEF PInv

LEMMA DonePlaces ==
    ASSUME PInv, \/ ProcessNext \/ ProcessCancel \/ ProcessMetrics
                 \/ ProcessSlotAction /\ UNCHANGED queueVars
    PROVE  PInv'
<1>1. /\ UNCHANGED <<queue, deferred, client, sleeping, slots>>
      /\ Done /\ at = "process" /\ releasing' \subseteq Busy
  BY DEF ProcessNext, ProcessCancel, ProcessMetrics, ProcessSlotAction, DeferTask,
         Processing, queueVars, clientVars, PInv, FlowTypes
<1>2. at' = "pop" /\ inHand' = NextResponse /\ todo' = todo /\ todo = {}
  BY <1>1 DEF Done, PInv, FlowTypes
<1>3. QED
  BY <1>1, <1>2, PassPlaces DEF Working

LEMMA BatchPlaces ==
    ASSUME PInv, NEW s \in Slots,
           FillBatch \/ DecodeFails \/ Refuse(s) \/ FailSlot(s) \/ Finish(s)
    PROVE  PInv'
<1>1. /\ UNCHANGED <<queue, deferred, client, sleeping, slots, inHand>>
      /\ at \in Working /\ at' \in Working /\ releasing = {}
  BY DEF FillBatch, DecodeFails, Refuse, FailSlot, Finish, Decoded, queueVars, clientVars,
         Working
<1>2. inHand = NextResponse /\ at' # "process" /\ at' # "rest" /\ at # "process"
  BY <1>1 DEF Working, PInv, FlowTypes
<1>3. /\ releasing' \subseteq Busy /\ todo' \subseteq Busy \ releasing'
      /\ at' \notin {"decode", "failed"} => todo' = {}
  BY <1>1 DEF FillBatch, DecodeFails, Refuse, FailSlot, Finish, Decoded, Ready, PInv, FlowTypes
<1>4. QED
  BY <1>1, <1>2, <1>3, PassPlaces

\* A slot moves on: its task stays.
LEMMA SlotPlaces ==
    ASSUME PInv, NEW s \in Slots, PromptDone(s) \/ GoOn(s)
    PROVE  /\ PInv' /\ UNCHANGED <<queue, deferred, inHand, releasing, client>>
           /\ Busy' = Busy /\ \A k \in Busy : slots'[k].task = slots[k].task
<1>1. /\ UNCHANGED <<queue, deferred, client, sleeping, at, inHand, releasing>>
      /\ at = "decode" /\ s \in todo /\ s \in Busy /\ slots[s].state \in {"prompt", "generating"}
  BY DEF PromptDone, GoOn, Decoded, queueVars, clientVars, PInv, FlowTypes
<1>2. slots \in [Slots -> SlotRecord \cup {Idle}] /\ \A k \in Busy : slots[k] \in SlotRecord
  BY DEF PInv, FlowTypes, Busy
<1>3. Idle \notin SlotRecord
  BY RequestFlowAssumption
<1>4. /\ slots' \in [Slots -> SlotRecord \cup {Idle}]
      /\ \A k \in Slots : /\ slots'[k] = Idle <=> slots[k] = Idle
                          /\ slots[k] # Idle => slots'[k].task = slots[k].task
  <2>1. CASE PromptDone(s)
    <3>1. slots' = [k \in Slots |-> IF k \in Activated(s) \cup {s}
                                    THEN [slots[k] EXCEPT !.state = "generating"]
                                    ELSE slots[k]]
      BY <2>1 DEF PromptDone
    <3>2. \A k \in Busy : /\ [slots[k] EXCEPT !.state = "generating"] \in SlotRecord
                          /\ [slots[k] EXCEPT !.state = "generating"].task = slots[k].task
      BY <1>2 DEF SlotRecord
    <3>3. Activated(s) \cup {s} \subseteq Busy
      BY <1>1 DEF Activated
    <3>4. \A k \in Slots : k \in Busy \/ slots[k] = Idle
      BY DEF Busy
    <3>5. \A k \in Slots : slots'[k] = IF k \in Activated(s) \cup {s}
                                       THEN [slots[k] EXCEPT !.state = "generating"]
                                       ELSE slots[k]
      BY <3>1
    <3>6. \A k \in Slots : /\ slots'[k] \in SlotRecord \cup {Idle}
                           /\ slots'[k] = Idle <=> slots[k] = Idle
                           /\ slots[k] # Idle => slots'[k].task = slots[k].task
      BY <1>2, <1>3, <3>2, <3>3, <3>4, <3>5
    <3>7. QED
      BY <3>1, <3>6
  <2>2. CASE GoOn(s)
    <3>1. slots' = [slots EXCEPT ![s].passes = @ + 1] /\ slots[s].passes < MaxPasses
      BY <2>2 DEF GoOn
    <3>2. slots[s] \in SlotRecord /\ MaxPasses \in Nat
      BY <1>1, <1>2, RequestFlowAssumption
    <3>3. slots'[s] \in SlotRecord /\ slots'[s].task = slots[s].task
      BY <1>2, <3>1, <3>2 DEF SlotRecord
    <3>4. \A k \in Slots \ {s} : slots'[k] = slots[k]
      BY <1>2, <3>1
    <3>5. DOMAIN slots' = Slots /\ slots' = [k \in Slots |-> slots'[k]]
      BY <1>2, <3>1
    <3>6. QED
      BY <1>1, <1>2, <1>3, <3>2, <3>3, <3>4, <3>5 DEF Busy
  <2>3. QED
    BY <2>1, <2>2
<1>5. Busy' = Busy /\ SlotsKept /\ \A k \in Busy : slots'[k].task = slots[k].task
  BY <1>4 DEF Busy, SlotsKept
<1>6. OneEachPlace'
  BY <1>1, <1>5, StillPlaces
<1>7. todo' \subseteq Busy /\ todo' \cap releasing' = {}
  <2>1. releasing = {} /\ todo \subseteq Busy
    BY DEF PromptDone, GoOn, Decoded, PInv, FlowTypes
  <2>2. QED
    BY <1>1, <2>1 DEF PromptDone, GoOn, Activated
<1>8. FlowTypes'
  BY <1>1, <1>4, <1>5, <1>7 DEF PInv, FlowTypes, QueueTypes
<1>9. Coming' /\ Unloaded'
  BY <1>1, <1>5 DEF PInv, Coming, Unloaded
<1>10. QED
  BY <1>1, <1>5, <1>6, <1>8, <1>9 DEF PInv
\* The message that brings the loop back.
LEMMA PostNextPlaces ==
    ASSUME PInv, PostNext
    PROVE  PInv' /\ Waiting' = Waiting
<1>1. /\ UNCHANGED <<inHand, slots, todo, releasing, client, sleeping>>
      /\ at = "post" /\ at' = "batch" /\ PostNextResponse
  BY DEF PostNext, LoopGoes, clientVars, PostNextResponse
<1>2. /\ queue' \in Seq(Message) /\ deferred' = deferred
      /\ ToSet(queue') = ToSet(queue) \cup {NextResponse}
      /\ Once(queue) => Once(queue')
  BY <1>1, NextMoves DEF PInv, FlowTypes
<1>3. Runs' = Runs /\ Handled' = Handled
  BY <1>1, <1>2, MessageTypes DEF Runs, Handled
<1>4. InOneQueue'
  BY <1>2, <1>3 DEF PInv, OneEachPlace, InOneQueue, IsInjective
<1>5. Waiting' = Waiting
  BY <1>2, <1>3 DEF Waiting
<1>6. SlotsKept /\ Busy' = Busy
  BY <1>1 DEF SlotsKept, Busy
<1>7. OneEachPlace'
  BY <1>1, <1>4, <1>5, <1>6, MovedKeeps, OwnedStays DEF PInv
<1>8. FlowTypes' /\ Coming' /\ Unloaded'
  BY <1>1, <1>2, <1>6 DEF PInv, FlowTypes, QueueTypes, Coming, Unloaded, Working
<1>9. QED
  BY <1>5, <1>7, <1>8 DEF PInv

\* A message comes from the queue into the loop's hand.
LEMMA PopTaskPlaces ==
    ASSUME PInv, PopTask
    PROVE  /\ PInv' /\ Waiting' = Waiting
           /\ ToSet(queue') \cup {inHand'} = ToSet(queue) /\ deferred' = deferred
<1>1. /\ UNCHANGED <<slots, todo, releasing, client, sleeping>>
      /\ at = "pop" /\ at' = "process" /\ TakeTask /\ releasing = {}
      /\ inHand' = Head(queue) /\ inHand = NextResponse
  BY DEF PopTask, LoopGoes, clientVars, TakeTask, PInv, FlowTypes
<1>2. /\ queue' \in Seq(Message) /\ deferred' = deferred
      /\ inHand' \in Message
      /\ ToSet(queue') \cup {inHand'} = ToSet(queue)
      /\ Once(queue) => /\ Once(queue')
                        /\ inHand'.type = "run" => inHand' \notin ToSet(queue')
  BY <1>1, TakeMoves DEF PInv, FlowTypes
<1>3. Handled = {}
  BY <1>1, MessageTypes DEF Handled
<1>4. Runs' \cup Handled' = Runs
  BY <1>2 DEF Runs, Handled
<1>5. Runs' \cap Handled' = {}
  BY <1>2, MessageTypes DEF Runs, Handled, PInv, OneEachPlace, InOneQueue
<1>6. InOneQueue'
  BY <1>2, <1>4, <1>5 DEF PInv, OneEachPlace, InOneQueue, IsInjective
<1>7. Waiting' = Waiting
  BY <1>2, <1>3, <1>4 DEF Waiting
<1>8. SlotsKept /\ Busy' = Busy
  BY <1>1 DEF SlotsKept, Busy
<1>9. OneEachPlace'
  BY <1>1, <1>6, <1>7, <1>8, MovedKeeps, OwnedStays DEF PInv
<1>10. FlowTypes' /\ Coming' /\ Unloaded'
  BY <1>1, <1>2, <1>8 DEF PInv, FlowTypes, QueueTypes, Coming, Unloaded, Working
<1>11. QED
  BY <1>2, <1>7, <1>9, <1>10 DEF PInv

\* The task in hand is deferred.
LEMMA DeferPlaces ==
    ASSUME PInv, at = "process", NEW t \in Tasks, inHand = Run(t), DeferTask
    PROVE  PInv' /\ Waiting' = Waiting /\ queue' = queue
<1>1. /\ UNCHANGED <<slots, todo, releasing, client, sleeping>>
      /\ at' = "pop" /\ inHand' = NextResponse /\ Defer(t) /\ todo = {} /\ releasing = {}
  BY MessageTypes DEF DeferTask, Done, Defer, clientVars, PInv, FlowTypes
<1>2. /\ deferred' \in Seq(Tasks) /\ queue' = queue
      /\ ToSet(deferred') = ToSet(deferred) \cup {t}
      /\ IsInjective(deferred) /\ t \notin ToSet(deferred) => IsInjective(deferred')
  BY <1>1, DeferMoves DEF PInv, FlowTypes
<1>3. Handled = {t} /\ Handled' = {} /\ Runs' = Runs
  BY <1>1, <1>2, MessageTypes DEF Handled, Runs
<1>4. InOneQueue'
  BY <1>2, <1>3 DEF PInv, OneEachPlace, InOneQueue, Once
<1>5. Waiting' = Waiting
  BY <1>2, <1>3 DEF Waiting
<1>6. SlotsKept /\ Busy' = Busy
  BY <1>1 DEF SlotsKept, Busy
<1>7. OneEachPlace'
  BY <1>1, <1>4, <1>5, <1>6, MovedKeeps, OwnedStays DEF PInv
<1>8. FlowTypes' /\ Coming' /\ Unloaded'
  BY <1>1, <1>2, <1>6, MessageTypes DEF PInv, FlowTypes, QueueTypes, Coming, Unloaded, Working
<1>9. QED
  BY <1>2, <1>5, <1>7, <1>8 DEF PInv

\* A slot is freed, and perhaps a deferred task queued.
LEMMA ReleasePlaces ==
    ASSUME PInv, NEW s \in Slots, Release(s)
    PROVE  /\ PInv' /\ Waiting' = Waiting /\ Busy' = Busy \ {s}
           /\ ToSet(queue) \subseteq ToSet(queue')
           /\ \A m \in ToSet(queue') \ ToSet(queue) : m.type = "run"
<1>1. /\ UNCHANGED <<at, inHand, todo, client, sleeping>>
      /\ slots' = [slots EXCEPT ![s] = Idle] /\ PopDeferred(s)
      /\ s \in releasing /\ releasing' = releasing \ {s}
  BY DEF Release, PopDeferred, clientVars
<1>2. Busy' = Busy \ {s} /\ \A k \in Busy' : slots'[k] = slots[k]
  BY <1>1 DEF Busy, PInv, FlowTypes
<1>3. SlotsKept
  BY <1>2 DEF SlotsKept, Busy
<1>4. \/ queue' = queue /\ deferred' = deferred
      \/ \E t \in ToSet(deferred) :
            /\ queue' \in Seq(Message) /\ deferred' \in Seq(Tasks)
            /\ ToSet(queue') = ToSet(queue) \cup {Run(t)}
            /\ ToSet(deferred') \cup {t} = ToSet(deferred)
            /\ Once(queue) /\ Run(t) \notin ToSet(queue) => Once(queue')
            /\ IsInjective(deferred) =>
                  IsInjective(deferred') /\ t \notin ToSet(deferred')
  BY <1>1, PopMoves DEF PInv, FlowTypes
<1>5. Handled' = Handled
  BY <1>1 DEF Handled
<1>6. /\ queue' \in Seq(Message) /\ deferred' \in Seq(Tasks)
      /\ InOneQueue' /\ Waiting' = Waiting
      /\ ToSet(queue) \subseteq ToSet(queue')
      /\ \A m \in ToSet(queue') \ ToSet(queue) : m.type = "run"
  <2>1. CASE queue' = queue /\ deferred' = deferred
    BY <1>5, <2>1 DEF PInv, FlowTypes, QueueTypes, OneEachPlace, InOneQueue, Runs, Once,
         IsInjective, Waiting
  <2>2. ASSUME NEW t \in ToSet(deferred),
               /\ queue' \in Seq(Message) /\ deferred' \in Seq(Tasks)
               /\ ToSet(queue') = ToSet(queue) \cup {Run(t)}
               /\ ToSet(deferred') \cup {t} = ToSet(deferred)
               /\ Once(queue) /\ Run(t) \notin ToSet(queue) => Once(queue')
               /\ IsInjective(deferred) =>
                     IsInjective(deferred') /\ t \notin ToSet(deferred')
        PROVE  /\ InOneQueue' /\ Waiting' = Waiting
               /\ \A m \in ToSet(queue') \ ToSet(queue) : m.type = "run"
    <3>1. t \in Tasks
      BY DEF PInv, FlowTypes, QueueTypes, ToSet
    <3>2. Runs' = Runs \cup {t}
      BY <2>2, <3>1, MessageTypes DEF Runs
    <3>3. t \notin Runs /\ t \notin Handled
      BY DEF PInv, OneEachPlace, InOneQueue
    <3>4. Run(t) \notin ToSet(queue)
      BY <3>1, <3>3 DEF Runs
    <3>5. InOneQueue'
      BY <1>5, <2>2, <3>2, <3>3, <3>4 DEF PInv, OneEachPlace, InOneQueue
    <3>6. Waiting' = Waiting
      BY <1>5, <2>2, <3>2 DEF Waiting
    <3>7. QED
      BY <2>2, <3>1, <3>5, <3>6, MessageTypes
  <2>3. QED
    BY <1>4, <2>1, <2>2
<1>7. OneEachPlace'
  BY <1>1, <1>3, <1>6, MovedKeeps, OwnedStays DEF PInv
<1>8. slots' \in [Slots -> SlotRecord \cup {Idle}]
  BY <1>1 DEF PInv, FlowTypes
<1>9. FlowTypes'
  BY <1>1, <1>2, <1>6, <1>8 DEF PInv, FlowTypes, QueueTypes
<1>10. Coming' /\ Unloaded'
  BY <1>1, <1>2, <1>6 DEF PInv, Coming, Unloaded
<1>11. QED
  BY <1>2, <1>6, <1>7, <1>9, <1>10 DEF PInv

-----------------------------------------------------------------------------
\* Started puts the tasks ts into the slots that p gives them.
LEMMA StartedSlots ==
    ASSUME FlowTypes, NEW t \in Tasks, NEW p \in Placements(t),
           NEW ts \in SUBSET (Children[t] \cup {t}), slots' = Started(p, t, ts)
    PROVE  /\ slots' \in [Slots -> SlotRecord \cup {Idle}]
           /\ Busy' = Busy \cup {p[k] : k \in ts}
           /\ \A k \in ts : p[k] \in Slots \ Busy /\ slots'[p[k]].task = k
           /\ \A k, j \in ts : p[k] = p[j] => k = j
           /\ \A s \in Busy : slots'[s] = slots[s]
<1>1. /\ Children[t] \subseteq Tasks /\ ts \subseteq Tasks
      /\ p \in [Children[t] \cup {t} -> Free] /\ IsInjective(p)
  BY ServerTaskAssumption DEF Placements
<1>2. \A k \in ts : p[k] \in Slots \ Busy
  BY <1>1 DEF Free
<1>3. \A k, j \in ts : p[k] = p[j] => k = j
  BY <1>1 DEF IsInjective
<1>4. MaxPasses \in Nat /\ Idle \notin SlotRecord
  BY RequestFlowAssumption
<1> DEFINE Of(s) == CHOOSE k \in ts : p[k] = s
           Fresh(k) == [task |-> k, state |-> IF k = t THEN "prompt" ELSE "other",
                        passes |-> 0]
<1>5. \A s \in Slots :
        slots'[s] = IF \E k \in ts : p[k] = s THEN Fresh(Of(s)) ELSE slots[s]
  BY DEF Started
<1>6. \A k \in ts : Of(p[k]) = k
  BY <1>3
<1>7. \A k \in ts : Fresh(k) \in SlotRecord /\ Fresh(k).task = k /\ Fresh(k) # Idle
  BY <1>1, <1>4 DEF SlotRecord
<1> HIDE DEF Of, Fresh
<1>8. \A k \in ts : slots'[p[k]] = Fresh(k)
  BY <1>2, <1>5, <1>6
<1>9. \A s \in Slots : (\A k \in ts : p[k] # s) => slots'[s] = slots[s]
  BY <1>5
<1>10. \A s \in Slots : slots'[s] \in SlotRecord \cup {Idle}
  BY <1>7, <1>8, <1>9 DEF FlowTypes
<1>11. slots' = [s \in Slots |-> slots'[s]]
  BY DEF Started
<1>12. Busy' = Busy \cup {p[k] : k \in ts}
  BY <1>2, <1>7, <1>8, <1>9 DEF Busy
<1>13. \A s \in Busy : slots'[s] = slots[s]
  BY <1>2, <1>9 DEF Busy
<1>14. QED
  BY <1>2, <1>3, <1>7, <1>8, <1>10, <1>11, <1>12, <1>13

\* The task in hand, or some of its children when it is refused, are in
\* slots; what does not run is dropped.
LEMMA StartPlaces ==
    ASSUME IInv, PInv, NEW t \in Tasks, at = "process", inHand = Run(t), Done,
           NEW p \in Placements(t), NEW ts \in SUBSET (Children[t] \cup {t}),
           slots' = Started(p, t, ts), UNCHANGED <<queue, deferred, sleeping, client>>,
           releasing' \subseteq {p[k] : k \in ts}
    PROVE  /\ PInv' /\ InSlots' = InSlots \cup ts /\ Waiting' = Waiting \ {t}
           /\ t \in Waiting /\ InSlots \cap (Children[t] \cup {t}) = {}
           /\ Waiting \cap Children[t] = {}
<1>1. /\ slots' \in [Slots -> SlotRecord \cup {Idle}]
      /\ Busy' = Busy \cup {p[k] : k \in ts}
      /\ \A k \in ts : p[k] \in Slots \ Busy /\ slots'[p[k]].task = k
      /\ \A k, j \in ts : p[k] = p[j] => k = j
      /\ \A s \in Busy : slots'[s] = slots[s]
  BY StartedSlots DEF PInv
<1>2. /\ at' = "pop" /\ inHand' = NextResponse /\ todo' = todo /\ todo = {} /\ releasing = {}
  BY DEF Done, PInv, FlowTypes
<1>3. InSlots' = InSlots \cup ts
  BY <1>1 DEF InSlots
<1>4. Handled = {t} /\ Handled' = {} /\ Runs' = Runs
  BY <1>2, MessageTypes DEF Handled, Runs
<1>5. t \in Waiting /\ Waiting' = Waiting \ {t} /\ t \in Owned
  BY <1>4 DEF Waiting, PInv, OneEachPlace, InOneQueue
<1>6. ASSUME NEW k \in Children[t] PROVE k \notin Waiting /\ k \notin InSlots
  <2>1. k \notin Owned /\ \A u \in Owned \ {t} : k \notin Children[u]
    BY <1>5, Family
  <2>2. QED
    BY <1>5, <2>1 DEF PInv, OneEachPlace
<1>7. InSlots \cap (Children[t] \cup {t}) = {} /\ Waiting \cap Children[t] = {}
  BY <1>5, <1>6 DEF PInv, OneEachPlace
<1>8. Owned' = Owned
  BY DEF Owned
<1>9. InOneQueue'
  BY <1>4 DEF PInv, OneEachPlace, InOneQueue, Once, IsInjective
<1>10. ASSUME NEW s \in Busy', NEW r \in Busy', slots'[s].task = slots'[r].task
       PROVE  s = r
  <2>1. \A k \in Busy : slots'[k].task \in InSlots
    BY <1>1 DEF InSlots
  <2>2. \A k \in ts : slots'[p[k]].task = k /\ k \notin InSlots
    BY <1>1, <1>7
  <2>3. s \in Busy \/ \E k \in ts : s = p[k]
    BY <1>1
  <2>4. r \in Busy \/ \E k \in ts : r = p[k]
    BY <1>1
  <2>5. CASE s \in Busy /\ r \in Busy
    BY <1>1, <1>10, <2>5 DEF PInv, OneEachPlace
  <2>6. QED
    BY <1>10, <2>1, <2>2, <2>3, <2>4, <2>5
<1>11. InSlots' \cap Waiting' = {} /\ Waiting' \subseteq Owned'
  BY <1>3, <1>5, <1>7, <1>8 DEF PInv, OneEachPlace
<1>12. \A k \in InSlots' : k \in Owned' \/ \E u \in Owned' \ Waiting' : k \in Children[u]
  BY <1>3, <1>5, <1>8 DEF PInv, OneEachPlace
<1>13. OneEachPlace'
  BY <1>9, <1>10, <1>11, <1>12 DEF OneEachPlace
<1>14. FlowTypes'
  BY <1>1, <1>2, MessageTypes DEF PInv, FlowTypes, QueueTypes
<1>15. Coming' /\ Unloaded'
  BY <1>2 DEF Coming, Unloaded, Working, IInv, LoopAsleep
<1>16. QED
  BY <1>3, <1>5, <1>7, <1>13, <1>14, <1>15 DEF PInv

LEMMA LaunchPlaces ==
    ASSUME IInv, PInv, Launch \/ LaunchFails
    PROVE  PInv'
<1>1. PICK t \in Tasks : inHand = Run(t) /\ inHand.task = t
  BY RunMessage DEF Launch, LaunchFails, Processing, PInv, FlowTypes
<1>2. at = "process" /\ Done /\ UNCHANGED <<queue, deferred, sleeping, client>>
  BY DEF Launch, LaunchFails, Processing, queueVars, clientVars
<1>3. CASE Launch
  <2>1. PICK p \in Placements(t) : slots' = Started(p, t, Children[t] \cup {t})
    BY <1>1, <1>3 DEF Launch
  <2>2. releasing' = {}
    BY <1>3 DEF Launch, Processing, PInv, FlowTypes
  <2>3. QED
    BY <1>1, <1>2, <2>1, <2>2, StartPlaces
<1>4. CASE LaunchFails
  <2>1. PICK p \in Placements(t), launched \in SUBSET Children[t] :
          /\ slots' = Started(p, t, launched)
          /\ releasing' = {p[k] : k \in launched}
    BY <1>1, <1>4 DEF LaunchFails
  <2>2. launched \in SUBSET (Children[t] \cup {t})
    OBVIOUS
  <2>3. QED
    BY <1>1, <1>2, <2>1, <2>2, StartPlaces
<1>5. QED
  BY <1>3, <1>4

-----------------------------------------------------------------------------
LEMMA InitPlaces == Init => PInv
<1> SUFFICES ASSUME Init PROVE PInv
  OBVIOUS
<1>1. /\ queue = << >> /\ deferred = << >> /\ sleeping = FALSE
      /\ at = "start" /\ inHand = NextResponse
      /\ slots = [s \in Slots |-> Idle] /\ todo = {} /\ releasing = {}
  BY DEF Init, QueueInit
<1>2. Busy = {} /\ InSlots = {}
  BY <1>1 DEF Busy, InSlots
<1>3. ToSet(queue) = {} /\ ToSet(deferred) = {}
  BY <1>1 DEF ToSet
<1>4. Runs = {} /\ Handled = {} /\ Waiting = {}
  BY <1>1, <1>3, MessageTypes DEF Runs, Handled, Waiting
<1>5. Once(queue) /\ IsInjective(deferred)
  BY <1>1 DEF Once, IsInjective
<1>6. OneEachPlace
  BY <1>2, <1>3, <1>4, <1>5 DEF OneEachPlace, InOneQueue
<1>7. FlowTypes
  BY <1>1, <1>2, MessageTypes DEF FlowTypes, QueueTypes
<1>8. Coming /\ Unloaded
  BY <1>1 DEF Coming, Unloaded, Working
<1>9. QED
  BY <1>6, <1>7, <1>8 DEF PInv

LEMMA NextPlaces == IInv /\ PInv /\ [Next]_vars => PInv'
<1> SUFFICES ASSUME IInv, PInv, [Next]_vars PROVE PInv'
  OBVIOUS
<1>1. Flags
  BY DEF IInv
<1>2. CASE \E c \in Clients : ClientStep(c) \/ Arrive(c) \/ Disconnect(c)
  BY <1>1, <1>2, HandlersQuietPlaces, PostPlaces, CancelPlaces DEF ClientStep
<1>3. CASE \/ StartLoop \/ EndLoop \/ BeginUpdate \/ EndUpdate \/ EndRest
           \/ GoToSleep \/ Wake
  BY <1>3, LoopGoesPlaces
<1>4. CASE \/ ProcessNext \/ ProcessCancel \/ ProcessMetrics
           \/ ProcessSlotAction \/ DeferCompletion
  <2>1. CASE DeferTask /\ Processing("run")
    <3>1. PICK t \in Tasks : inHand = Run(t)
      BY <2>1, RunMessage DEF Processing, PInv, FlowTypes
    <3>2. at = "process"
      BY <2>1 DEF Processing
    <3>3. QED
      BY <2>1, <3>1, <3>2, DeferPlaces
  <2>2. QED
    BY <1>4, <2>1, DonePlaces DEF ProcessSlotAction, DeferCompletion
<1>5. CASE Launch \/ LaunchFails
  BY <1>5, LaunchPlaces
<1>6. CASE PopTask \/ PostNext
  BY <1>6, PopTaskPlaces, PostNextPlaces
<1>7. CASE \E s \in Slots : Release(s)
  BY <1>7, ReleasePlaces
<1>8. CASE \/ FillBatch \/ DecodeFails
           \/ \E s \in Slots : Refuse(s) \/ FailSlot(s) \/ Finish(s)
  <2>1. PICK s \in Slots : TRUE
    BY ServerTaskAssumption
  <2>2. QED
    BY <1>8, <2>1, BatchPlaces
<1>9. CASE \E s \in Slots : PromptDone(s) \/ GoOn(s)
  BY <1>9, SlotPlaces
<1>10. CASE Interrupt \/ UNCHANGED vars
  <2>1. UNCHANGED <<queue, deferred, sleeping, client>> /\ UNCHANGED loopVars
    BY <1>10 DEF Interrupt, Terminate, vars, queueVars, clientVars
  <2>2. QED
    BY <2>1, QuietPlaces, OwnedStays
<1>11. QED
  BY <1>2, <1>3, <1>4, <1>5, <1>6, <1>7, <1>8, <1>9, <1>10 DEF Next, LoopStep

\* The places of the tasks and the loop's position, always.
THEOREM PlacesInvariant == Spec => []PInv
BY InitPlaces, NextPlaces, Sleeping, PTL DEF Spec

\* The model and its contexts are never unloaded under a working slot or
\* with a task in the loop's hand (start_loop, update_slots).
THEOREM UnloadsOnlyIdle == Spec => []SleepsIdle
<1>1. IInv /\ PInv => SleepsIdle
  BY DEF IInv, LoopAsleep, PInv, Unloaded, FlowTypes, SleepsIdle
<1>2. QED
  BY <1>1, PlacesInvariant, Sleeping, PTL

\* A task is queued, deferred, in hand or in a slot, and only once: popping,
\* deferring, launching and cancelling never duplicate it (server_queue,
\* process_single_task).
THEOREM TasksInOnePlace == Spec => []OnePlace
<1>1. ASSUME PInv, NEW t \in Tasks
      PROVE  LET inSlots == Cardinality({s \in Busy : slots[s].task = t})
                 hand == IF inHand = Run(t) THEN 1 ELSE 0
             IN Count(queue, Run(t)) + Count(deferred, t) + hand + inSlots <= 1
  <2> DEFINE Q == {i \in DOMAIN queue : queue[i] = Run(t)}
             D == {i \in DOMAIN deferred : deferred[i] = t}
             S == {s \in Busy : slots[s].task = t}
  <2>1. \A i, j \in Q : i = j
    BY <1>1, MessageTypes DEF PInv, OneEachPlace, InOneQueue, Once
  <2>2. \A i, j \in D : i = j
    BY <1>1 DEF PInv, OneEachPlace, InOneQueue, IsInjective
  <2>3. \A s, r \in S : s = r
    BY <1>1 DEF PInv, OneEachPlace
  <2>4. /\ Q # {} <=> t \in Runs
        /\ D # {} <=> t \in ToSet(deferred)
        /\ S # {} <=> t \in InSlots
        /\ inHand = Run(t) <=> t \in Handled
    BY <1>1 DEF Runs, ToSet, InSlots, Handled
  <2>5. /\ Count(queue, Run(t)) = Cardinality(Q) /\ Count(deferred, t) = Cardinality(D)
    BY DEF Count
  <2> HIDE DEF Q, D, S
  <2>6. /\ Cardinality(Q) = IF t \in Runs THEN 1 ELSE 0
        /\ Cardinality(D) = IF t \in ToSet(deferred) THEN 1 ELSE 0
        /\ Cardinality(S) = IF t \in InSlots THEN 1 ELSE 0
    BY <2>1, <2>2, <2>3, <2>4, AtMostOne
  <2>7. /\ t \in Runs => t \notin ToSet(deferred) /\ t \notin Handled /\ t \notin InSlots
        /\ t \in ToSet(deferred) => t \notin Handled /\ t \notin InSlots
        /\ t \in Handled => t \notin InSlots
    BY <1>1 DEF PInv, OneEachPlace, InOneQueue, Waiting
  <2>8. Cardinality(Q) + Cardinality(D) + (IF inHand = Run(t) THEN 1 ELSE 0) + Cardinality(S) <= 1
    BY <2>4, <2>6, <2>7
  <2>9. QED
    BY <2>5, <2>8 DEF S
<1>2. PInv => OnePlace
  BY <1>1 DEF OnePlace
<1>3. QED
  BY <1>2, PlacesInvariant, PTL

-----------------------------------------------------------------------------
(* Which results are queued, and what a reader still has to expect.        *)

Active == {slots[s].task : s \in Busy \ releasing}
Alive == Active \cup Waiting \cup UNION {Children[t] : t \in Waiting}

Given(outcome) == {t \in Tasks : [task |-> t, outcome |-> outcome] \in ToSet(results)}
HasResult == Given("partial") \cup Given("final") \cup Given("error")

\* A final result or an error is the last result of its task in the queue.
LastWord(rs) == \A i, j \in DOMAIN rs :
    rs[i].outcome # "partial" /\ rs[j].task = rs[i].task => j <= i

Reading(c) == client[c] \in {"post", "read", "stop"}
Registered == waiting = UNION {IdsOf(c) : c \in {d \in Clients : Reading(d)}}

\* A queued result belongs to a reader that may still take or purge it.
Wanted == \A t \in HasResult : \E c \in Clients :
    t \in IdsOf(c) /\ client[c] \in {"read", "stop", "purge"}

\* The task of a final result or an error has ended.
Ended == (Given("final") \cup Given("error")) \cap Alive = {}

\* A task is cancelled after its handler has gone.
Cancelled == {t \in Tasks : Cancel(t) \in ToSet(queue) \cup {inHand}}
LeftBehind == \A t \in Cancelled : \E c \in Clients :
    t \in IdsOf(c) /\ client[c] = "gone"

\* What a reader has received are the tasks of which nothing more will come,
\* unless one of them failed.
Settled(c) == IdsOf(c) \ (Alive \cup HasResult)
Ledger(c) ==
    /\ client[c] \in {"new", "wake", "prepare", "post"} => received[c] = 0
    /\ client[c] = "read" =>
          /\ received[c] <= Cardinality(Settled(c))
          /\ IdsOf(c) \cap Given("error") = {} =>
                /\ received[c] = Cardinality(Settled(c))
                /\ IdsOf(c) \cap HasResult \subseteq Alive \cup Given("final")

LInv ==
    /\ results \in Seq(Result) /\ received \in [Clients -> Nat]
    /\ LastWord(results)
    /\ Registered /\ Wanted /\ Ended /\ LeftBehind
    /\ \A c \in Clients : Ledger(c)

-----------------------------------------------------------------------------
\* Every id belongs to one request.
LEMMA OneOwner ==
    ASSUME NEW c \in Clients, NEW d \in Clients, NEW t, t \in IdsOf(c), t \in IdsOf(d)
    PROVE  c = d
BY RequestFlowAssumption

LEMMA OwnedIds ==
    ASSUME NEW t \in Owned
    PROVE  \E c \in Clients : /\ client[c] \in Sent /\ t \in IdsOf(c)
                              /\ Children[t] \subseteq IdsOf(c)
<1>1. PICK c \in Clients : client[c] \in Sent /\ t \in Posted(c)
  BY DEF Owned
<1>2. QED
  BY <1>1 DEF IdsOf

\* What is still to come was posted by a handler.
LEMMA AliveSent ==
    ASSUME PInv, NEW t \in Alive
    PROVE  t \in Tasks /\ \E c \in Clients : client[c] \in Sent /\ t \in IdsOf(c)
<1>1. \E u \in Owned : t = u \/ t \in Children[u]
  BY DEF PInv, OneEachPlace, Alive, Active, InSlots
<1>2. QED
  BY <1>1, OwnedIds, IdsFinite

\* A task in a slot is no child of one that waits.
LEMMA SlotsNotWaited ==
    ASSUME PInv, NEW t \in InSlots
    PROVE  t \notin Waiting /\ \A u \in Waiting : t \notin Children[u]
<1>1. t \notin Waiting /\ Waiting \subseteq Owned
  BY DEF PInv, OneEachPlace
<1>2. ASSUME NEW u \in Waiting, t \in Children[u] PROVE FALSE
  <2>1. t \notin Owned /\ \A v \in Owned \ {u} : t \notin Children[v]
    BY <1>1, <1>2, Family
  <2>2. QED
    BY <1>2, <2>1 DEF PInv, OneEachPlace
<1>3. QED
  BY <1>1, <1>2

LEMMA ResultGiven ==
    ASSUME NEW rs \in Seq(Result), NEW i \in DOMAIN rs
    PROVE  /\ rs[i] \in Result /\ rs[i].task \in Tasks
           /\ rs[i].outcome \in {"partial", "final", "error"}
           /\ rs[i] = [task |-> rs[i].task, outcome |-> rs[i].outcome]
           /\ rs[i] \in ToSet(rs)
<1>1. rs[i] \in Result
  OBVIOUS
<1>2. rs[i] \in ToSet(rs)
  BY DEF ToSet
<1>3. \A r \in Result : /\ r.task \in Tasks /\ r.outcome \in {"partial", "final", "error"}
                         /\ r = [task |-> r.task, outcome |-> r.outcome]
  BY DEF Result, Outcomes
<1>4. QED
  BY <1>1, <1>2, <1>3

LEMMA ResultIndex ==
    ASSUME results \in Seq(Result), NEW i \in DOMAIN results
    PROVE  /\ results[i].task \in Given(results[i].outcome)
           /\ results[i].task \in HasResult
BY ResultGiven DEF Given, HasResult

LEMMA GivenIndex ==
    ASSUME results \in Seq(Result), NEW outcome, NEW t \in Given(outcome)
    PROVE  \E i \in DOMAIN results : results[i].task = t /\ results[i].outcome = outcome
<1>1. PICK i \in DOMAIN results : results[i] = [task |-> t, outcome |-> outcome]
  BY DEF Given, ToSet
<1>2. QED
  BY <1>1

LEMMA ThinnedLast ==
    ASSUME NEW new \in Seq(Result), NEW old \in Seq(Result),
           NEW kept \in SUBSET DOMAIN old, Thinned(new, old, kept), LastWord(old)
    PROVE  LastWord(new)
<1>1. PICK h \in [DOMAIN new -> kept] :
        /\ \A i, j \in DOMAIN new : i < j => h[i] < h[j]
        /\ \A i \in DOMAIN new : new[i] = old[h[i]]
  BY DEF Thinned
<1>2. SUFFICES ASSUME NEW i \in DOMAIN new, NEW j \in DOMAIN new,
                      new[i].outcome # "partial", new[j].task = new[i].task, ~(j <= i)
               PROVE  FALSE
  BY DEF LastWord
<1>3. i \in Int /\ j \in Int /\ h[i] \in kept /\ h[j] \in kept /\ kept \subseteq Int
  BY <1>1
<1>4. h[i] < h[j]
  BY <1>1, <1>2, <1>3
<1>5. h[j] <= h[i]
  BY <1>1, <1>2, <1>3 DEF LastWord
<1>6. QED
  BY <1>3, <1>4, <1>5

LEMMA AppendLast ==
    ASSUME NEW rs \in Seq(Result), NEW r \in Result, LastWord(rs),
           \A i \in DOMAIN rs : rs[i].task = r.task => rs[i].outcome = "partial"
    PROVE  LastWord(Append(rs, r))
<1> DEFINE q == Append(rs, r)
           n == Len(rs) + 1
<1>1. /\ DOMAIN q = DOMAIN rs \cup {n} /\ DOMAIN rs = 1..Len(rs) /\ Len(rs) \in Nat
      /\ \A i \in DOMAIN rs : q[i] = rs[i]
      /\ q[n] = r
  OBVIOUS
<1> HIDE DEF q
<1>2. SUFFICES ASSUME NEW i \in DOMAIN q, NEW j \in DOMAIN q,
                      q[i].outcome # "partial", q[j].task = q[i].task
               PROVE  j <= i
  BY DEF LastWord, q
<1>3. CASE i = n
  BY <1>1, <1>3
<1>4. CASE i \in DOMAIN rs /\ j \in DOMAIN rs
  BY <1>1, <1>2, <1>4 DEF LastWord
<1>5. CASE i \in DOMAIN rs /\ j = n
  BY <1>1, <1>2, <1>5
<1>6. QED
  BY <1>1, <1>3, <1>4, <1>5

LEMMA SettledFinite ==
    ASSUME NEW c \in Clients
    PROVE  /\ IsFiniteSet(Settled(c)) /\ Cardinality(Settled(c)) \in Nat
           /\ IsFiniteSet(Settled(c)') /\ Cardinality(Settled(c)') \in Nat
<1>1. Settled(c) \in SUBSET IdsOf(c) /\ Settled(c)' \in SUBSET IdsOf(c)
  BY DEF Settled
<1>2. QED
  BY <1>1, IdsFinite, FS_Subset, FS_CardinalityType
-----------------------------------------------------------------------------
\* The ledger of a reader depends on what happens to its own tasks only.
LEMMA LedgerSame ==
    ASSUME NEW c \in Clients, Ledger(c), client'[c] = client[c], received'[c] = received[c],
           IdsOf(c) \cap Alive' = IdsOf(c) \cap Alive,
           IdsOf(c) \cap Given("partial")' = IdsOf(c) \cap Given("partial"),
           IdsOf(c) \cap Given("final")' = IdsOf(c) \cap Given("final"),
           IdsOf(c) \cap Given("error")' = IdsOf(c) \cap Given("error")
    PROVE  Ledger(c)'
<1>1. IdsOf(c) \cap HasResult' = IdsOf(c) \cap HasResult
  BY DEF HasResult
<1>2. Settled(c)' = Settled(c)
  BY <1>1 DEF Settled
<1>3. QED
  BY <1>1, <1>2 DEF Ledger

LEMMA SameGiven ==
    ASSUME results' = results
    PROVE  HasResult' = HasResult /\ \A outcome : Given(outcome)' = Given(outcome)
BY DEF HasResult, Given

\* Nothing is sent or taken, and what is lost nobody reads any more.
LEMMA QuietLedger ==
    ASSUME LInv, UNCHANGED <<results, waiting, client, received>>,
           Alive' \subseteq Alive, Cancelled' \subseteq Cancelled,
           \A t \in Alive \ Alive' : \E c \in Clients : t \in IdsOf(c) /\ client[c] = "gone"
    PROVE  LInv'
<1>1. HasResult' = HasResult /\ \A outcome : Given(outcome)' = Given(outcome)
  BY SameGiven
<1>2. /\ results' \in Seq(Result) /\ received' \in [Clients -> Nat]
      /\ LastWord(results')
  BY DEF LInv
<1>3. Registered'
  BY DEF LInv, Registered, Reading
<1>4. Wanted' /\ Ended' /\ LeftBehind'
  BY <1>1 DEF LInv, Wanted, Ended, LeftBehind
<1>5. ASSUME NEW c \in Clients PROVE Ledger(c)'
  <2>1. Ledger(c)
    BY DEF LInv
  <2>2. CASE client[c] # "gone"
    <3>1. IdsOf(c) \cap Alive' = IdsOf(c) \cap Alive
      BY <2>2, OneOwner
    <3>2. QED
      BY <1>1, <2>1, <3>1, LedgerSame
  <2>3. CASE client[c] = "gone"
    BY <2>3 DEF Ledger
  <2>4. QED
    BY <2>2, <2>3
<1>6. QED
  BY <1>2, <1>3, <1>4, <1>5 DEF LInv

-----------------------------------------------------------------------------
\* What a result that is queued adds.
LEMMA QueuedGiven ==
    ASSUME results \in Seq(Result), NEW t \in Tasks, NEW outcome \in Outcomes,
           results' = Append(results, [task |-> t, outcome |-> outcome])
    PROVE  /\ results' \in Seq(Result)
           /\ \A o : Given(o)' = IF o = outcome THEN Given(o) \cup {t} ELSE Given(o)
           /\ HasResult' = HasResult \cup {t}
<1> DEFINE r == [task |-> t, outcome |-> outcome]
<1>1. r \in Result /\ r.task = t /\ r.outcome = outcome
  BY DEF Result
<1>2. results' \in Seq(Result) /\ ToSet(results') = ToSet(results) \cup {r}
  <2> HIDE DEF r
  <2>1. QED
    BY <1>1, AppendHolds DEF r
<1>3. \A o, u : [task |-> u, outcome |-> o] = r <=> u = t /\ o = outcome
  BY <1>1
<1>4. \A o : Given(o)' = IF o = outcome THEN Given(o) \cup {t} ELSE Given(o)
  BY <1>2, <1>3 DEF Given
<1>5. HasResult' = HasResult \cup {t}
  <2>1. outcome \in {"partial", "final", "error"}
    BY DEF Outcomes
  <2>2. QED
    BY <1>4, <2>1 DEF HasResult
<1>6. QED
  BY <1>2, <1>4, <1>5

\* A send: the task goes on, ends, or ends with tasks of its own request.
Sends(t, outcome) ==
    /\ Send(t, outcome) /\ outcome \in Outcomes /\ t \in Alive
    /\ UNCHANGED <<client, received>>
    /\ Alive' \subseteq Alive /\ Cancelled' \subseteq Cancelled
    /\ outcome = "partial" => Alive' = Alive
    /\ outcome = "final" => Alive' = Alive \ {t}
    /\ outcome = "error" =>
          /\ t \notin Alive'
          /\ \A u \in Alive \ Alive' : \A c \in Clients : u \in IdsOf(c) => t \in IdsOf(c)

\* A result nobody waits for is dropped: its handler is on its way out.
LEMMA DroppedLedger ==
    ASSUME PInv, LInv, NEW t, NEW outcome, Sends(t, outcome), t \notin waiting
    PROVE  LInv'
<1>1. PICK c \in Clients : client[c] \in Sent /\ t \in IdsOf(c)
  BY AliveSent DEF Sends
<1>2. client[c] \notin {"new", "wake", "prepare", "post", "read", "stop"}
  BY <1>1 DEF LInv, Registered, Reading, Sent
<1>3. UNCHANGED <<results, waiting, client, received>>
  BY DEF Sends, Send
<1>4. HasResult' = HasResult /\ \A o : Given(o)' = Given(o)
  BY <1>3, SameGiven
<1>5. ASSUME NEW d \in Clients PROVE Ledger(d)'
  <2>1. Ledger(d)
    BY DEF LInv
  <2>2. CASE d = c
    BY <1>2, <1>3, <2>2 DEF Ledger
  <2>3. CASE d # c
    <3>1. t \notin IdsOf(d)
      BY <1>1, <2>3, OneOwner
    <3>2. IdsOf(d) \cap Alive' = IdsOf(d) \cap Alive
      BY <3>1 DEF Sends, Outcomes
    <3>3. QED
      BY <1>3, <1>4, <2>1, <3>2, LedgerSame
  <2>4. QED
    BY <2>2, <2>3
<1>6. /\ results' \in Seq(Result) /\ received' \in [Clients -> Nat]
      /\ LastWord(results')
  BY <1>3 DEF LInv
<1>7. Registered'
  BY <1>3 DEF LInv, Registered, Reading
<1>8. Wanted' /\ Ended' /\ LeftBehind'
  BY <1>3, <1>4 DEF LInv, Wanted, Ended, LeftBehind, Sends
<1>9. QED
  BY <1>5, <1>6, <1>7, <1>8 DEF LInv
\* A result somebody waits for is queued: its reader reads, or is about to
\* stop.
LEMMA QueuedLedger ==
    ASSUME PInv, LInv, NEW t, NEW outcome, Sends(t, outcome), t \in waiting
    PROVE  LInv'
<1>1. t \in Tasks /\ outcome \in Outcomes
  BY AliveSent DEF Sends
<1>2. PICK c \in Clients : client[c] \in {"read", "stop"} /\ t \in IdsOf(c)
  <2>1. PICK d \in Clients : client[d] \in Sent /\ t \in IdsOf(d)
    BY AliveSent DEF Sends
  <2>2. PICK e \in Clients : Reading(e) /\ t \in IdsOf(e)
    BY DEF LInv, Registered
  <2>3. d = e
    BY <2>1, <2>2, OneOwner
  <2>4. QED
    BY <2>1, <2>2, <2>3 DEF Reading, Sent
<1>3. results' = Append(results, [task |-> t, outcome |-> outcome])
  BY DEF Sends, Send
<1>4. /\ results' \in Seq(Result)
      /\ \A o : Given(o)' = IF o = outcome THEN Given(o) \cup {t} ELSE Given(o)
      /\ HasResult' = HasResult \cup {t}
  BY <1>1, <1>3, QueuedGiven DEF LInv
<1>5. LastWord(results')
  <2>1. \A i \in DOMAIN results : results[i].task = t => results[i].outcome = "partial"
    <3>1. SUFFICES ASSUME NEW i \in DOMAIN results, results[i].task = t,
                          results[i].outcome # "partial"
                   PROVE  FALSE
      OBVIOUS
    <3>2. results[i].outcome \in {"final", "error"} /\ t \in Given(results[i].outcome)
      BY <3>1, ResultGiven, ResultIndex DEF LInv
    <3>3. QED
      BY <3>2 DEF LInv, Ended, Sends
  <2> DEFINE r == [task |-> t, outcome |-> outcome]
  <2>2. r \in Result /\ r.task = t
    BY <1>1 DEF Result
  <2> HIDE DEF r
  <2>3. LastWord(Append(results, r))
    BY <2>1, <2>2, AppendLast DEF LInv
  <2>4. QED
    BY <1>3, <2>3 DEF r
<1>6. /\ UNCHANGED <<waiting, client, received>>
      /\ Alive' \subseteq Alive /\ Cancelled' \subseteq Cancelled
      /\ t \in Alive
  BY DEF Sends, Send
<1>7. Registered' /\ LeftBehind' /\ received' \in [Clients -> Nat]
  BY <1>6 DEF LInv, Registered, Reading, LeftBehind
<1>8. Wanted'
  BY <1>2, <1>4, <1>6 DEF LInv, Wanted
<1>9. Ended'
  <2>1. outcome # "partial" => t \notin Alive'
    BY <1>1 DEF Sends, Outcomes
  <2>2. QED
    BY <1>4, <1>6, <2>1 DEF LInv, Ended
<1>10. ASSUME NEW d \in Clients, d # c PROVE Ledger(d)'
  <2>1. Ledger(d) /\ t \notin IdsOf(d)
    BY <1>2, <1>10, OneOwner DEF LInv
  <2>2. IdsOf(d) \cap Alive' = IdsOf(d) \cap Alive
    BY <2>1 DEF Sends, Outcomes
  <2>3. \A o : IdsOf(d) \cap Given(o)' = IdsOf(d) \cap Given(o)
    BY <1>4, <2>1
  <2>4. QED
    BY <1>6, <2>1, <2>2, <2>3, LedgerSame
<1>11. Ledger(c)'
  <2>1. CASE client[c] = "stop"
    BY <1>6, <2>1 DEF Ledger
  <2>2. CASE client[c] = "read" /\ outcome = "error"
    <3>1. Settled(c) \subseteq Settled(c)'
      BY <1>4, <1>6 DEF Settled
    <3>2. Cardinality(Settled(c)) <= Cardinality(Settled(c)')
      BY <3>1, SettledFinite, FS_Subset
    <3>3. received[c] \in Nat /\ received[c] <= Cardinality(Settled(c))
      BY <2>2 DEF LInv, Ledger
    <3>4. received'[c] <= Cardinality(Settled(c)')
      BY <1>6, <3>2, <3>3, SettledFinite
    <3>5. t \in IdsOf(c) \cap Given("error")'
      BY <1>2, <1>4, <2>2
    <3>6. QED
      BY <1>6, <2>2, <3>4, <3>5 DEF Ledger
  <2>3. CASE client[c] = "read" /\ outcome \in {"partial", "final"}
    <3>1. Settled(c)' = Settled(c)
      <4>1. Alive' \cup HasResult' = Alive \cup HasResult
        BY <1>4, <1>6, <2>3 DEF Sends
      <4>2. QED
        BY <4>1 DEF Settled
    <3>2. IdsOf(c) \cap Given("error")' = IdsOf(c) \cap Given("error")
      BY <1>4, <2>3
    <3>3. Alive \cup Given("final") \cup {t} \subseteq Alive' \cup Given("final")'
      BY <1>4, <2>3 DEF Sends
    <3>4. HasResult' \subseteq HasResult \cup {t}
      BY <1>4
    <3>5. Ledger(c)
      BY DEF LInv
    <3>6. QED
      BY <1>6, <2>3, <3>1, <3>2, <3>3, <3>4, <3>5 DEF Ledger
  <2>4. QED
    BY <1>1, <1>2, <2>1, <2>2, <2>3 DEF Outcomes
<1>12. QED
  BY <1>4, <1>5, <1>7, <1>8, <1>9, <1>10, <1>11 DEF LInv

LEMMA SendLedger ==
    ASSUME PInv, LInv, NEW t, NEW outcome, Sends(t, outcome)
    PROVE  LInv'
BY DroppedLedger, QueuedLedger

-----------------------------------------------------------------------------
\* The result a reader takes is the first of its tasks.
LEMMA TakenGiven ==
    ASSUME results \in Seq(Result), LastWord(results), NEW ids, Take(ids)
    PROVE  \E i \in DOMAIN results :
              /\ i = FirstOf(ids) /\ results[i].task \in ids
              /\ results' \in Seq(Result) /\ LastWord(results')
              /\ \A o : Given(o)' \subseteq Given(o)
              /\ \A o : Given(o) \ Given(o)' \subseteq
                           IF o = results[i].outcome THEN {results[i].task} ELSE {}
              /\ results[i].outcome # "partial" => results[i].task \notin HasResult'
<1> DEFINE I == {k \in 1..Len(results) : results[k].task \in ids}
           i == FirstOf(ids)
<1>1. i = IF I # {} THEN Min(I) ELSE 0
  BY DEF FirstOf, SelectInSeq
<1>2. DOMAIN results = 1..Len(results) /\ Len(results) \in Nat /\ I \in SUBSET Nat
  OBVIOUS
<1>3. i \in I /\ \A k \in I : i <= k
  BY <1>1, <1>2, SmallestExists DEF Take
<1>4. results' = RemoveAt(results, i)
  BY DEF Take
<1> HIDE DEF i
<1>5. i \in DOMAIN results /\ results[i].task \in ids
  BY <1>3
<1>6. /\ results' \in Seq(Result)
      /\ Thinned(results', results, DOMAIN results \ {i})
  BY <1>4, <1>5, RemoveThins
<1>7. LastWord(results')
  BY <1>6, ThinnedLast
<1>8. ToSet(results') = {results[k] : k \in DOMAIN results \ {i}}
  BY <1>6, ThinnedHolds
<1>9. \A o : Given(o)' \subseteq Given(o)
  BY <1>8 DEF Given, ToSet
<1>10. ASSUME NEW o, NEW u \in Given(o) \ Given(o)'
       PROVE  o = results[i].outcome /\ u = results[i].task
  <2>1. PICK k \in DOMAIN results : results[k] = [task |-> u, outcome |-> o]
    BY DEF Given, ToSet
  <2>2. results[k] \notin ToSet(results')
    BY <2>1 DEF Given
  <2>3. k = i
    BY <1>8, <2>2
  <2>4. QED
    BY <2>1, <2>3
<1>11. ASSUME results[i].outcome # "partial", results[i].task \in HasResult' PROVE FALSE
  <2>1. PICK o : results[i].task \in Given(o)'
    BY <1>11 DEF HasResult
  <2>2. PICK k \in DOMAIN results \ {i} :
           results[k] = [task |-> results[i].task, outcome |-> o]
    BY <1>8, <2>1 DEF Given
  <2>3. k <= i
    BY <1>5, <1>11, <2>2 DEF LastWord
  <2>4. k \in I
    BY <1>5, <2>2
  <2>5. QED
    BY <1>2, <1>3, <2>2, <2>3, <2>4
<1>12. QED
  BY <1>5, <1>6, <1>7, <1>9, <1>10, <1>11 DEF i
-----------------------------------------------------------------------------
LEMMA SameAlive ==
    ASSUME UNCHANGED <<queue, deferred, inHand, slots, releasing>>
    PROVE  Alive' = Alive /\ Cancelled' = Cancelled
<1>1. Waiting' = Waiting /\ Active' = Active
  BY DEF Waiting, Runs, Handled, Active, Busy
<1>2. QED
  BY <1>1 DEF Alive, Cancelled

LEMMA GotoPlace ==
    ASSUME Flags, NEW c \in Clients, NEW place, Goto(c, place)
    PROVE  /\ client'[c] = place
           /\ \A d \in Clients \ {c} : client'[d] = client[d]
           /\ received' = received
BY DEF Goto, Flags

\* A handler that moves on without touching results or waiting, neither from
\* nor to a place where the ledger differs.
LEMMA MovesLedger ==
    ASSUME Flags, LInv, NEW c \in Clients, NEW place, Goto(c, place),
           UNCHANGED <<results, waiting>>, Alive' = Alive, Cancelled' = Cancelled,
           \/ client[c] \in {"new", "wake"} /\ place \in {"wake", "prepare"}
           \/ client[c] = "read" /\ place = "stop"
    PROVE  LInv'
<1>1. HasResult' = HasResult /\ \A o : Given(o)' = Given(o)
  BY SameGiven
<1>2. /\ client'[c] = place /\ received' = received
      /\ \A d \in Clients \ {c} : client'[d] = client[d]
  BY GotoPlace
<1>3. \A d \in Clients : Reading(d)' <=> Reading(d)
  BY <1>2 DEF Reading
<1>4. Registered'
  BY <1>3 DEF LInv, Registered
<1>5. /\ results' \in Seq(Result) /\ received' \in [Clients -> Nat]
      /\ LastWord(results') /\ Ended'
  BY <1>1, <1>2 DEF LInv, Ended
<1>6. Wanted' /\ LeftBehind'
  BY <1>1, <1>2 DEF LInv, Wanted, LeftBehind
<1>7. ASSUME NEW d \in Clients PROVE Ledger(d)'
  <2>1. Ledger(d)
    BY DEF LInv
  <2>2. CASE d = c
    BY <1>2, <2>1, <2>2 DEF Ledger
  <2>3. CASE d # c
    BY <1>1, <1>2, <2>1, <2>3, LedgerSame
  <2>4. QED
    BY <2>2, <2>3
<1>8. QED
  BY <1>4, <1>5, <1>6, <1>7 DEF LInv

\* Who waits for a task.
LEMMA RegisteredIs ==
    /\ Registered <=> \A t : t \in waiting <=> \E c \in Clients : Reading(c) /\ t \in IdsOf(c)
    /\ Registered' <=> \A t : t \in waiting' <=> \E c \in Clients : Reading(c)' /\ t \in IdsOf(c)
BY DEF Registered

\* A reader that unregisters: its last result is taken, or its results are
\* purged next.
LEMMA UnregisteredLedger ==
    ASSUME Flags, LInv, NEW c \in Clients, Reading(c), NEW place \in {"purge", "gone"},
           Goto(c, place), RemoveWaiting(IdsOf(c)), Alive' = Alive, Cancelled' = Cancelled,
           place = "gone" => IdsOf(c) \cap HasResult = {},
           client[c] # "post"
    PROVE  LInv'
<1>1. HasResult' = HasResult /\ \A o : Given(o)' = Given(o)
  BY SameGiven DEF RemoveWaiting
<1>2. /\ client'[c] = place /\ received' = received /\ results' = results
      /\ \A d \in Clients \ {c} : client'[d] = client[d]
  BY GotoPlace DEF RemoveWaiting
<1>3. \A d \in Clients : Reading(d)' <=> Reading(d) /\ d # c
  BY <1>2 DEF Reading
<1>4. Registered'
  <2>1. Registered /\ waiting' = waiting \ IdsOf(c)
    BY DEF LInv, RemoveWaiting
  <2>2. \A t : t \in waiting' <=> \E d \in Clients : Reading(d) /\ d # c /\ t \in IdsOf(d)
    BY <2>1, RegisteredIs, OneOwner
  <2>3. QED
    BY <1>3, <2>2, RegisteredIs
<1>5. /\ results' \in Seq(Result) /\ received' \in [Clients -> Nat]
      /\ LastWord(results') /\ Ended'
  BY <1>1, <1>2 DEF LInv, Ended
<1>6. Wanted' /\ LeftBehind'
  BY <1>1, <1>2 DEF LInv, Wanted, LeftBehind, Reading
<1>7. ASSUME NEW d \in Clients PROVE Ledger(d)'
  <2>1. Ledger(d)
    BY DEF LInv
  <2>2. CASE d = c
    BY <1>2, <2>2 DEF Ledger
  <2>3. CASE d # c
    BY <1>1, <1>2, <2>1, <2>3, LedgerSame
  <2>4. QED
    BY <2>2, <2>3
<1>8. QED
  BY <1>4, <1>5, <1>6, <1>7 DEF LInv

\* A reader that has counted every task has no result left in the queue.
LEMMA AllCounted ==
    ASSUME LInv, NEW c \in Clients, client[c] = "read", ~HasNext(c)
    PROVE  IdsOf(c) \cap HasResult = {}
<1>1. received[c] \in Nat /\ received[c] <= Cardinality(Settled(c))
  BY DEF LInv, Ledger
<1>2. IsFiniteSet(IdsOf(c)) /\ Cardinality(IdsOf(c)) \in Nat
  BY IdsFinite, FS_CardinalityType
<1>3. Cardinality(IdsOf(c)) <= received[c]
  BY <1>1, <1>2 DEF HasNext
<1>4. Settled(c) \subseteq IdsOf(c)
  BY DEF Settled
<1>5. Cardinality(Settled(c)) \in Nat
  BY SettledFinite
<1>6. Settled(c) = IdsOf(c)
  BY <1>1, <1>2, <1>3, <1>4, <1>5, FS_Subset
<1>7. QED
  BY <1>6 DEF Settled

LEMMA LeaveLedger ==
    ASSUME Flags, LInv, NEW c \in Clients, Leave(c) \/ Unregister(c)
    PROVE  LInv'
<1>1. UNCHANGED queueVars /\ UNCHANGED loopVars
  BY DEF Leave, Unregister
<1>2. Alive' = Alive /\ Cancelled' = Cancelled
  BY <1>1, SameAlive DEF queueVars, loopVars
<1>3. Reading(c) /\ client[c] # "post" /\ RemoveWaiting(IdsOf(c))
  BY DEF Leave, Unregister, Reading
<1>4. CASE Leave(c)
  <2>1. IdsOf(c) \cap HasResult = {} /\ Goto(c, "gone")
    BY <1>4, AllCounted DEF Leave
  <2>2. QED
    BY <1>2, <1>3, <2>1, UnregisteredLedger
<1>5. CASE Unregister(c)
  BY <1>2, <1>3, <1>5, UnregisteredLedger DEF Unregister
<1>6. QED
  BY <1>4, <1>5

LEMMA RegisterLedger ==
    ASSUME Flags, LInv, NEW c \in Clients, Register(c)
    PROVE  LInv'
<1>1. /\ Goto(c, "post") /\ client[c] = "prepare"
      /\ waiting' = waiting \cup IdsOf(c) /\ results' = results
      /\ UNCHANGED queueVars /\ UNCHANGED loopVars
  BY DEF Register, AddWaiting
<1>2. Alive' = Alive /\ Cancelled' = Cancelled
  BY <1>1, SameAlive DEF queueVars, loopVars
<1>3. HasResult' = HasResult /\ \A o : Given(o)' = Given(o)
  BY <1>1, SameGiven
<1>4. /\ client'[c] = "post" /\ received' = received
      /\ \A d \in Clients \ {c} : client'[d] = client[d]
  BY <1>1, GotoPlace
<1>5. \A d \in Clients : Reading(d)' <=> Reading(d) \/ d = c
  BY <1>4 DEF Reading
<1>6. Registered'
  BY <1>1, <1>5 DEF LInv, Registered
<1>7. /\ results' \in Seq(Result) /\ received' \in [Clients -> Nat]
      /\ LastWord(results') /\ Ended'
  BY <1>1, <1>2, <1>3, <1>4 DEF LInv, Ended
<1>8. Wanted' /\ LeftBehind'
  BY <1>1, <1>2, <1>3, <1>4 DEF LInv, Wanted, LeftBehind
<1>9. ASSUME NEW d \in Clients PROVE Ledger(d)'
  <2>1. Ledger(d)
    BY DEF LInv
  <2>2. CASE d = c
    BY <1>1, <1>4, <2>1, <2>2 DEF Ledger
  <2>3. CASE d # c
    BY <1>2, <1>3, <1>4, <2>1, <2>3, LedgerSame
  <2>4. QED
    BY <2>2, <2>3
<1>10. QED
  BY <1>6, <1>7, <1>8, <1>9 DEF LInv

\* What is purged was the last trace of the request in queue_results.
LEMMA PurgeLedger ==
    ASSUME Flags, LInv, NEW c \in Clients, PurgeResults(c)
    PROVE  LInv'
<1> DEFINE kept == {i \in DOMAIN results : results[i].task \notin IdsOf(c)}
<1>1. /\ Goto(c, "cancel") /\ client[c] = "purge"
      /\ waiting' = waiting \ IdsOf(c) /\ results' = SubseqAt(results, kept)
      /\ UNCHANGED queueVars /\ UNCHANGED loopVars
  BY DEF PurgeResults, Purge
<1>2. Alive' = Alive /\ Cancelled' = Cancelled
  BY <1>1, SameAlive DEF queueVars, loopVars
<1>3. /\ results' \in Seq(Result) /\ LastWord(results')
      /\ ToSet(results') = {results[k] : k \in kept}
  <2>1. kept \in SUBSET DOMAIN results
    OBVIOUS
  <2> HIDE DEF kept
  <2>2. results' \in Seq(Result) /\ Thinned(results', results, kept)
    BY <1>1, <2>1, SubseqThins DEF LInv
  <2>3. QED
    BY <2>1, <2>2, ThinnedHolds, ThinnedLast DEF LInv
<1>4. \A o : Given(o)' = Given(o) \ IdsOf(c)
  BY <1>3 DEF Given, ToSet
<1>5. HasResult' = HasResult \ IdsOf(c)
  BY <1>4 DEF HasResult
<1>6. /\ client'[c] = "cancel" /\ received' = received
      /\ \A d \in Clients \ {c} : client'[d] = client[d]
  BY <1>1, GotoPlace
<1>7. \A d \in Clients : (Reading(d)' <=> Reading(d)) /\ ~Reading(c)
  BY <1>1, <1>6 DEF Reading
<1>8. waiting' = waiting
  <2>1. ASSUME NEW d \in Clients, Reading(d) PROVE IdsOf(d) \cap IdsOf(c) = {}
    BY <1>7, <2>1, OneOwner
  <2>2. QED
    BY <1>1, <2>1 DEF LInv, Registered
<1>9. Registered'
  BY <1>7, <1>8 DEF LInv, Registered
<1>10. /\ received' \in [Clients -> Nat] /\ Ended' /\ Wanted' /\ LeftBehind'
  BY <1>1, <1>2, <1>4, <1>5, <1>6 DEF LInv, Ended, Wanted, LeftBehind
<1>11. ASSUME NEW d \in Clients PROVE Ledger(d)'
  <2>1. Ledger(d)
    BY DEF LInv
  <2>2. CASE d = c
    BY <1>6, <2>2 DEF Ledger
  <2>3. CASE d # c
    <3>1. IdsOf(d) \cap IdsOf(c) = {}
      BY <2>3, OneOwner
    <3>2. \A o : IdsOf(d) \cap Given(o)' = IdsOf(d) \cap Given(o)
      BY <1>4, <3>1
    <3>3. QED
      BY <1>2, <1>6, <2>1, <2>3, <3>2, LedgerSame
  <2>4. QED
    BY <2>2, <2>3
<1>12. QED
  BY <1>3, <1>9, <1>10, <1>11 DEF LInv
\* A result is taken: counted if it is final, passed on if it is partial; an
\* error stops the reader.
LEMMA ReceiveLedger ==
    ASSUME Flags, LInv, NEW c \in Clients, Receive(c)
    PROVE  LInv'
<1>1. /\ client[c] = "read" /\ Take(IdsOf(c)) /\ waiting' = waiting
      /\ UNCHANGED queueVars /\ UNCHANGED loopVars
  BY DEF Receive, Take
<1>2. Alive' = Alive /\ Cancelled' = Cancelled
  BY <1>1, SameAlive DEF queueVars, loopVars
<1>3. PICK i \in DOMAIN results :
              /\ i = FirstOf(IdsOf(c)) /\ results[i].task \in IdsOf(c)
              /\ results' \in Seq(Result) /\ LastWord(results')
              /\ \A o : Given(o)' \subseteq Given(o)
              /\ \A o : Given(o) \ Given(o)' \subseteq
                           IF o = results[i].outcome THEN {results[i].task} ELSE {}
              /\ results[i].outcome # "partial" => results[i].task \notin HasResult'
  BY <1>1, TakenGiven DEF LInv
<1> DEFINE t == results[i].task
           outcome == results[i].outcome
<1>4. t \in Given(outcome) /\ t \in HasResult /\ t \in IdsOf(c)
      /\ outcome \in {"partial", "final", "error"}
  BY <1>3, ResultIndex, ResultGiven DEF LInv
<1>5. \/ outcome = "partial" /\ UNCHANGED clientVars
      \/ /\ outcome = "final"
         /\ received' = [received EXCEPT ![c] = @ + 1]
         /\ UNCHANGED <<client, terminating>>
      \/ outcome = "error" /\ Goto(c, "stop")
  BY <1>3 DEF Receive
<1>6. /\ results' \in Seq(Result) /\ LastWord(results')
      /\ \A o : Given(o)' \subseteq Given(o)
      /\ \A o : o # outcome => Given(o)' = Given(o)
      /\ \A o : Given(o) \ {t} \subseteq Given(o)'
      /\ outcome # "partial" => t \notin HasResult'
  <2>1. ASSUME NEW o, o # outcome PROVE Given(o)' = Given(o)
    <3>1. Given(o)' \subseteq Given(o) /\ Given(o) \ Given(o)' \subseteq {}
      BY <1>3, <2>1
    <3>2. QED
      BY <3>1
  <2>2. ASSUME NEW o PROVE Given(o) \ {t} \subseteq Given(o)'
    <3>1. Given(o) \ Given(o)' \subseteq IF o = outcome THEN {t} ELSE {}
      BY <1>3
    <3>2. QED
      BY <3>1
  <2>3. QED
    BY <1>3, <2>1, <2>2
<1> HIDE DEF t, outcome
<1>7. HasResult' \subseteq HasResult /\ HasResult \ {t} \subseteq HasResult'
  BY <1>6 DEF HasResult
<1>8. /\ received' \in [Clients -> Nat]
      /\ \A d \in Clients \ {c} : client'[d] = client[d] /\ received'[d] = received[d]
      /\ client'[c] = IF outcome = "error" THEN "stop" ELSE "read"
      /\ received'[c] = IF outcome = "final" THEN received[c] + 1 ELSE received[c]
  <2>1. received \in [Clients -> Nat] /\ client \in [Clients -> Places]
    BY DEF LInv, Flags
  <2>2. QED
    BY <1>1, <1>5, <2>1 DEF Goto, clientVars
<1>9. \A d \in Clients : Reading(d)' <=> Reading(d)
  BY <1>1, <1>8 DEF Reading
<1>10. Registered'
  BY <1>1, <1>9 DEF LInv, Registered
<1>11. Ended' /\ LeftBehind' /\ Wanted'
  <2>1. Ended'
    BY <1>2, <1>6 DEF LInv, Ended
  <2>2. LeftBehind'
    BY <1>1, <1>2, <1>8 DEF LInv, LeftBehind
  <2>3. Wanted'
    BY <1>1, <1>7, <1>8 DEF LInv, Wanted
  <2>4. QED
    BY <2>1, <2>2, <2>3
<1>12. ASSUME NEW d \in Clients, d # c PROVE Ledger(d)'
  <2>1. Ledger(d) /\ t \notin IdsOf(d)
    BY <1>4, <1>12, OneOwner DEF LInv
  <2>2. \A o : IdsOf(d) \cap Given(o)' = IdsOf(d) \cap Given(o)
    BY <1>6, <2>1
  <2>3. QED
    BY <1>2, <1>8, <1>12, <2>1, <2>2, LedgerSame
<1>13. /\ received[c] \in Nat /\ received[c] <= Cardinality(Settled(c))
       /\ IdsOf(c) \cap Given("error") = {} =>
             /\ received[c] = Cardinality(Settled(c))
             /\ IdsOf(c) \cap HasResult \subseteq Alive \cup Given("final")
  BY <1>1 DEF LInv, Ledger
<1>14. CASE outcome = "error"
  <2>1. client'[c] = "stop"
    BY <1>8, <1>14
  <2>2. Ledger(c)'
    BY <2>1 DEF Ledger
  <2>3. QED
    BY <1>6, <1>8, <1>10, <1>11, <1>12, <2>2 DEF LInv
<1>15. CASE outcome = "final"
  <2>1. t \notin Alive /\ t \notin Given("error")
    <3>1. t \notin Alive
      BY <1>4, <1>15 DEF LInv, Ended
    <3>2. ASSUME t \in Given("error") PROVE FALSE
      <4>1. PICK j \in DOMAIN results : results[j].task = t /\ results[j].outcome = "error"
        BY <3>2, GivenIndex DEF LInv
      <4>2. j <= i /\ i <= j
        BY <1>15, <4>1 DEF LInv, LastWord, t, outcome
      <4>3. i \in Int /\ j \in Int
        BY DEF LInv
      <4>4. i = j
        BY <4>2, <4>3
      <4>5. QED
        BY <1>15, <4>1, <4>4 DEF outcome
    <3>3. QED
      BY <3>1, <3>2
  <2>2. HasResult' = HasResult \ {t}
    BY <1>6, <1>7, <1>15
  <2>3. Settled(c)' = Settled(c) \cup {t} /\ t \notin Settled(c)
    BY <1>2, <1>4, <2>1, <2>2 DEF Settled
  <2>4. Cardinality(Settled(c)') = Cardinality(Settled(c)) + 1
    BY <2>3, SettledFinite, FS_AddElement
  <2>5. Cardinality(Settled(c)) \in Nat
    BY SettledFinite
  <2>6. Given("error")' = Given("error")
    BY <1>6, <1>15
  <2>7. client'[c] = "read" /\ received'[c] = received[c] + 1
    BY <1>8, <1>15
  <2>8. Given("final") \ {t} \subseteq Given("final")'
    BY <1>6
  <2>9. Ledger(c)'
    BY <1>2, <1>13, <2>2, <2>4, <2>5, <2>6, <2>7, <2>8 DEF Ledger
  <2>10. QED
    BY <1>6, <1>8, <1>10, <1>11, <1>12, <2>9 DEF LInv
<1>16. CASE outcome = "partial"
  <2>1. client'[c] = "read" /\ received'[c] = received[c]
    BY <1>8, <1>16
  <2>2. Given("error")' = Given("error") /\ Given("final")' = Given("final")
    BY <1>6, <1>16
  <2>3. Settled(c) \subseteq Settled(c)'
    BY <1>2, <1>7 DEF Settled
  <2>4. Cardinality(Settled(c)) <= Cardinality(Settled(c)')
    BY <2>3, SettledFinite, FS_Subset
  <2>5. received'[c] <= Cardinality(Settled(c)')
    BY <1>13, <2>1, <2>4, SettledFinite
  <2>6. ASSUME IdsOf(c) \cap Given("error") = {}
        PROVE  /\ Settled(c)' = Settled(c)
               /\ IdsOf(c) \cap HasResult' \subseteq Alive' \cup Given("final")'
    <3>1. t \in Alive \cup Given("final")
      BY <1>4, <1>13, <2>6
    <3>2. t \in Alive \/ t \in HasResult'
      BY <2>2, <3>1 DEF HasResult
    <3>3. Settled(c)' = Settled(c)
      BY <1>2, <1>7, <3>2 DEF Settled
    <3>4. QED
      BY <1>2, <1>7, <1>13, <2>2, <2>6, <3>3
  <2>7. Ledger(c)'
    BY <1>13, <2>1, <2>2, <2>5, <2>6 DEF Ledger
  <2>8. QED
    BY <1>6, <1>8, <1>10, <1>11, <1>12, <2>7 DEF LInv
<1>17. QED
  BY <1>4, <1>14, <1>15, <1>16

-----------------------------------------------------------------------------
\* A handler posts its tasks: nothing was sent for them before.
LEMMA PostLedger ==
    ASSUME Flags, PInv, LInv, NEW c \in Clients, PostTasks(c)
    PROVE  LInv'
<1>1. /\ client[c] = "post" /\ Goto(c, "read")
      /\ UNCHANGED responseVars /\ UNCHANGED loopVars
  BY DEF PostTasks
<1>2. /\ UNCHANGED <<inHand, slots, releasing>> /\ UNCHANGED <<results, waiting>>
      /\ deferred' = deferred
      /\ ToSet(queue') = ToSet(queue) \cup {Run(t) : t \in Posted(c)}
  BY <1>1, PostPlaces DEF loopVars, responseVars
<1>3. Posted(c) \subseteq Tasks
  BY RequestFlowAssumption DEF Posted, ToSet
<1>4. Waiting' = Waiting \cup Posted(c) /\ Active' = Active
  <2>1. Runs' = Runs \cup Posted(c)
    BY <1>2, <1>3, MessageTypes DEF Runs
  <2>2. QED
    BY <1>2, <2>1 DEF Waiting, Handled, Active, Busy
<1>5. Alive' = Alive \cup IdsOf(c)
  BY <1>4 DEF Alive, IdsOf
<1>6. Cancelled' = Cancelled
  BY <1>2, <1>3, MessageTypes DEF Cancelled
<1>7. HasResult' = HasResult /\ \A o : Given(o)' = Given(o)
  BY <1>2, SameGiven
<1>8. /\ client'[c] = "read" /\ received' = received
      /\ \A d \in Clients \ {c} : client'[d] = client[d]
  BY <1>1, GotoPlace
<1>9. IdsOf(c) \cap HasResult = {}
  <2>1. SUFFICES ASSUME NEW t \in HasResult, t \in IdsOf(c) PROVE FALSE
    OBVIOUS
  <2>2. PICK d \in Clients : t \in IdsOf(d) /\ client[d] \in {"read", "stop", "purge"}
    BY DEF LInv, Wanted
  <2>3. QED
    BY <1>1, <2>1, <2>2, OneOwner
<1>10. \A d \in Clients : Reading(d)' <=> Reading(d)
  BY <1>1, <1>8 DEF Reading
<1>11. Registered'
  BY <1>2, <1>10 DEF LInv, Registered
<1>12. /\ results' \in Seq(Result) /\ received' \in [Clients -> Nat] /\ LastWord(results')
  BY <1>2, <1>8 DEF LInv
<1>13. Ended'
  BY <1>5, <1>7, <1>9 DEF LInv, Ended, HasResult
<1>14. Wanted' /\ LeftBehind'
  BY <1>1, <1>6, <1>7, <1>8 DEF LInv, Wanted, LeftBehind
<1>15. ASSUME NEW d \in Clients PROVE Ledger(d)'
  <2>1. Ledger(d)
    BY DEF LInv
  <2>2. CASE d = c
    <3>1. Settled(c)' = {}
      BY <1>5 DEF Settled
    <3>2. received'[c] = 0
      BY <1>1, <1>8, <2>1, <2>2 DEF Ledger
    <3>3. Cardinality(Settled(c)') = 0
      BY <3>1, FS_EmptySet
    <3>4. QED
      BY <1>7, <1>8, <1>9, <2>2, <3>2, <3>3 DEF Ledger
  <2>3. CASE d # c
    <3>1. IdsOf(d) \cap Alive' = IdsOf(d) \cap Alive
      BY <1>5, <2>3, OneOwner
    <3>2. QED
      BY <1>7, <1>8, <2>1, <2>3, <3>1, LedgerSame
  <2>4. QED
    BY <2>2, <2>3
<1>16. QED
  BY <1>11, <1>12, <1>13, <1>14, <1>15 DEF LInv

\* A cancel takes away the tasks of its own request only.
LEMMA CancelLedger ==
    ASSUME Flags, PInv, LInv, NEW c \in Clients, CancelTasks(c)
    PROVE  LInv'
<1>1. /\ client[c] = "cancel" /\ Goto(c, "gone")
      /\ UNCHANGED responseVars /\ UNCHANGED loopVars
  BY DEF CancelTasks
<1>2. /\ UNCHANGED <<inHand, slots, releasing>> /\ UNCHANGED <<results, waiting>>
      /\ ToSet(queue') \subseteq ToSet(queue) \cup {Cancel(t) : t \in IdsOf(c)}
      /\ ToSet(queue) \subseteq ToSet(queue') \cup {Run(t) : t \in IdsOf(c)}
      /\ ToSet(deferred') \subseteq ToSet(deferred)
      /\ ToSet(deferred) \subseteq ToSet(deferred') \cup IdsOf(c)
  BY <1>1, CancelPlaces DEF loopVars, responseVars
<1>3. IdsOf(c) \subseteq Tasks
  BY IdsFinite
<1>4. Waiting' \subseteq Waiting /\ Waiting \ Waiting' \subseteq IdsOf(c) /\ Active' = Active
  <2>1. Runs' \subseteq Runs /\ Runs \ Runs' \subseteq IdsOf(c)
    BY <1>2, <1>3, MessageTypes DEF Runs
  <2>2. QED
    BY <1>2, <2>1 DEF Waiting, Handled, Active, Busy
<1>5. Alive' \subseteq Alive /\ Alive \ Alive' \subseteq IdsOf(c)
  <2>1. ASSUME NEW t \in Waiting, t \in IdsOf(c) PROVE Children[t] \subseteq IdsOf(c)
    <3>1. t \in Owned
      BY DEF PInv, OneEachPlace
    <3>2. QED
      BY <2>1, <3>1, OwnedIds, OneOwner
  <2>2. QED
    BY <1>4, <2>1 DEF Alive
<1>6. Cancelled' \subseteq Cancelled \cup IdsOf(c)
  BY <1>2, <1>3, MessageTypes DEF Cancelled
<1>7. HasResult' = HasResult /\ \A o : Given(o)' = Given(o)
  BY <1>2, SameGiven
<1>8. /\ client'[c] = "gone" /\ received' = received
      /\ \A d \in Clients \ {c} : client'[d] = client[d]
  BY <1>1, GotoPlace
<1>9. \A d \in Clients : Reading(d)' <=> Reading(d)
  BY <1>1, <1>8 DEF Reading
<1>10. Registered'
  BY <1>2, <1>9 DEF LInv, Registered
<1>11. /\ results' \in Seq(Result) /\ received' \in [Clients -> Nat] /\ LastWord(results')
       /\ Ended'
  BY <1>2, <1>5, <1>7, <1>8 DEF LInv, Ended
<1>12. Wanted' /\ LeftBehind'
  <2>1. Wanted'
    BY <1>1, <1>7, <1>8 DEF LInv, Wanted
  <2>2. LeftBehind'
    BY <1>1, <1>6, <1>8 DEF LInv, LeftBehind
  <2>3. QED
    BY <2>1, <2>2
<1>13. ASSUME NEW d \in Clients PROVE Ledger(d)'
  <2>1. Ledger(d)
    BY DEF LInv
  <2>2. CASE d = c
    BY <1>8, <2>2 DEF Ledger
  <2>3. CASE d # c
    <3>1. IdsOf(d) \cap Alive' = IdsOf(d) \cap Alive
      BY <1>5, <2>3, OneOwner
    <3>2. QED
      BY <1>7, <1>8, <2>1, <2>3, <3>1, LedgerSame
  <2>4. QED
    BY <2>2, <2>3
<1>14. QED
  BY <1>10, <1>11, <1>12, <1>13 DEF LInv
-----------------------------------------------------------------------------
(* The main loop.                                                          *)

LEMMA StillLedger ==
    ASSUME LInv, UNCHANGED <<results, waiting, client, received>>,
           Waiting' = Waiting, Active' = Active, Cancelled' \subseteq Cancelled
    PROVE  LInv'
<1>1. Alive' = Alive
  BY DEF Alive
<1>2. QED
  BY <1>1, QuietLedger

LEMMA QuietLoopLedger ==
    ASSUME LInv, \/ StartLoop \/ EndLoop \/ BeginUpdate \/ EndUpdate \/ EndRest
                 \/ GoToSleep \/ Wake \/ FillBatch \/ DecodeFails \/ Interrupt
                 \/ UNCHANGED vars
    PROVE  LInv'
<1>1. UNCHANGED <<queue, deferred, inHand, slots, releasing, client, received>>
  BY DEF StartLoop, EndLoop, BeginUpdate, EndUpdate, EndRest, GoToSleep, Wake, FillBatch,
         DecodeFails, Interrupt, LoopGoes, StartRunning, FallAsleep, WakeUp, WaitAgain,
         Terminate, queueVars, clientVars, loopVars, vars
<1>2. UNCHANGED <<results, waiting>>
  BY DEF StartLoop, EndLoop, BeginUpdate, EndUpdate, EndRest, GoToSleep, Wake, FillBatch,
         DecodeFails, Interrupt, responseVars, vars
<1>3. Alive' = Alive /\ Cancelled' = Cancelled
  BY <1>1, SameAlive
<1>4. QED
  BY <1>1, <1>2, <1>3, QuietLedger

\* Tasks that move between the queues, the loop's hand and the slots.
LEMMA PopTaskLedger ==
    ASSUME PInv, LInv, PopTask
    PROVE  LInv'
<1>1. Waiting' = Waiting /\ ToSet(queue') \cup {inHand'} = ToSet(queue)
  BY PopTaskPlaces
<1>2. UNCHANGED <<results, waiting, client, received, slots, releasing>>
  BY DEF PopTask, LoopGoes, responseVars, clientVars
<1>3. Active' = Active
  BY <1>2 DEF Active, Busy
<1>4. Cancelled' \subseteq Cancelled
  BY <1>1 DEF Cancelled
<1>5. QED
  BY <1>1, <1>2, <1>3, <1>4, StillLedger

LEMMA PostNextLedger ==
    ASSUME PInv, LInv, PostNext
    PROVE  LInv'
<1>1. Waiting' = Waiting
  BY PostNextPlaces
<1>2. UNCHANGED <<results, waiting, client, received, slots, releasing, inHand>>
  BY DEF PostNext, LoopGoes, responseVars, clientVars
<1>3. ToSet(queue') = ToSet(queue) \cup {NextResponse}
  BY NextMoves DEF PostNext, PInv, FlowTypes
<1>4. Cancelled' \subseteq Cancelled
  BY <1>2, <1>3, MessageTypes DEF Cancelled
<1>5. Active' = Active
  BY <1>2 DEF Active, Busy
<1>6. QED
  BY <1>1, <1>2, <1>4, <1>5, StillLedger

LEMMA DeferLedger ==
    ASSUME PInv, LInv, at = "process", NEW t \in Tasks, inHand = Run(t), DeferTask
    PROVE  LInv'
<1>1. Waiting' = Waiting /\ queue' = queue
  BY DeferPlaces
<1>2. UNCHANGED <<results, waiting, client, received, slots, releasing>>
      /\ inHand' = NextResponse
  BY DEF DeferTask, Done, responseVars, clientVars
<1>3. Cancelled' \subseteq Cancelled
  BY <1>1, <1>2, MessageTypes DEF Cancelled
<1>4. Active' = Active
  BY <1>2 DEF Active, Busy
<1>5. QED
  BY <1>1, <1>2, <1>3, <1>4, StillLedger

LEMMA ReleaseLedger ==
    ASSUME PInv, LInv, NEW s \in Slots, Release(s)
    PROVE  LInv'
<1>1. /\ Waiting' = Waiting /\ Busy' = Busy \ {s}
      /\ \A m \in ToSet(queue') \ ToSet(queue) : m.type = "run"
  BY ReleasePlaces
<1>2. /\ UNCHANGED <<results, waiting, client, received, inHand>>
      /\ s \in releasing /\ releasing' = releasing \ {s}
      /\ slots' = [slots EXCEPT ![s] = Idle] /\ slots \in [Slots -> SlotRecord \cup {Idle}]
  BY DEF Release, responseVars, clientVars, PInv, FlowTypes
<1>3. Cancelled' \subseteq Cancelled
  BY <1>1, <1>2, MessageTypes DEF Cancelled
<1>4. Active' = Active
  <2>1. Busy' \ releasing' = Busy \ releasing
    BY <1>1, <1>2
  <2>2. \A k \in Busy \ releasing : slots'[k].task = slots[k].task
    BY <1>2 DEF Busy
  <2>3. QED
    BY <2>1, <2>2 DEF Active
<1>5. QED
  BY <1>1, <1>2, <1>3, <1>4, StillLedger

LEMMA MovesOnLedger ==
    ASSUME PInv, LInv, NEW s \in Slots, PromptDone(s) \/ GoOn(s)
    PROVE  LInv'
<1>1. /\ UNCHANGED <<queue, deferred, inHand, releasing, client>>
      /\ Busy' = Busy /\ \A k \in Busy : slots'[k].task = slots[k].task
  BY SlotPlaces
<1>2. received' = received
  BY DEF PromptDone, GoOn, clientVars
<1>3. Waiting' = Waiting /\ Active' = Active /\ Cancelled' = Cancelled
  BY <1>1 DEF Waiting, Runs, Handled, Active, Cancelled
<1>4. Alive' = Alive
  BY <1>3 DEF Alive
<1>5. CASE UNCHANGED responseVars
  BY <1>1, <1>2, <1>3, <1>5, StillLedger DEF responseVars
<1>6. CASE Send(slots[s].task, "partial") /\ Decoded(s, "generating")
  <2>1. s \in Busy \ releasing
    BY <1>6 DEF Decoded, PInv, FlowTypes
  <2>2. slots[s].task \in Alive
    BY <2>1 DEF Alive, Active
  <2>3. Sends(slots[s].task, "partial")
    BY <1>1, <1>2, <1>3, <1>4, <1>6, <2>2 DEF Sends, Outcomes
  <2>4. QED
    BY <2>3, SendLedger
<1>7. QED
  BY <1>5, <1>6 DEF PromptDone, GoOn

\* A slot's task ends.
LEMMA EndsLedger ==
    ASSUME PInv, LInv, NEW s \in Slots, Refuse(s) \/ FailSlot(s) \/ Finish(s)
    PROVE  LInv'
<1> DEFINE t == slots[s].task
<1>1. /\ UNCHANGED <<queue, deferred, inHand, slots, client, received>>
      /\ releasing = {} /\ releasing' = {s} /\ s \in Busy
  BY DEF Refuse, FailSlot, Finish, Decoded, queueVars, clientVars, PInv, FlowTypes
<1>2. \E outcome \in {"final", "error"} : Send(t, outcome)
  BY DEF Refuse, FailSlot, Finish
<1>3. t \in InSlots
  BY <1>1 DEF InSlots
<1>4. Waiting' = Waiting /\ Cancelled' = Cancelled
  BY <1>1 DEF Waiting, Runs, Handled, Cancelled
<1>5. Active' = Active \ {t} /\ t \in Active
  BY <1>1 DEF Active, Busy, PInv, OneEachPlace
<1> HIDE DEF t
<1>6. t \notin Waiting /\ \A u \in Waiting : t \notin Children[u]
  BY <1>3, SlotsNotWaited
<1>7. Alive' = Alive \ {t} /\ t \in Alive
  BY <1>4, <1>5, <1>6 DEF Alive
<1>8. PICK outcome \in {"final", "error"} : Send(t, outcome)
  BY <1>2
<1>9. Sends(t, outcome)
  BY <1>1, <1>4, <1>7, <1>8 DEF Sends, Outcomes
<1>10. QED
  BY <1>9, SendLedger

\* The task in hand has been dealt with.
LEMMA HandledEnds ==
    ASSUME PInv, at = "process", NEW t \in Tasks, inHand = Run(t), inHand' = NextResponse,
           UNCHANGED <<queue, deferred>>
    PROVE  /\ t \in Waiting /\ Waiting' = Waiting \ {t} /\ t \in Owned
           /\ t \notin InSlots /\ \A u \in Waiting : t \notin Children[u]
           /\ Cancelled' = Cancelled
<1>1. Handled = {t} /\ Handled' = {} /\ Runs' = Runs
  BY MessageTypes DEF Handled, Runs
<1>2. t \in Waiting /\ Waiting' = Waiting \ {t} /\ t \in Owned /\ t \notin InSlots
  BY <1>1 DEF Waiting, PInv, OneEachPlace, InOneQueue
<1>3. ASSUME NEW u \in Waiting, t \in Children[u] PROVE FALSE
  <2>1. u \in Owned
    BY DEF PInv, OneEachPlace
  <2>2. QED
    BY <1>2, <1>3, <2>1, Family
<1>4. Cancelled' = Cancelled
  BY MessageTypes DEF Cancelled
<1>5. QED
  BY <1>2, <1>3, <1>4

LEMMA ProcessLedger ==
    ASSUME PInv, LInv, \/ ProcessNext \/ ProcessMetrics
                       \/ (ProcessSlotAction /\ ~DeferTask)
    PROVE  LInv'
<1>1. /\ UNCHANGED <<queue, deferred, slots, client, received, releasing>>
      /\ at = "process" /\ inHand' = NextResponse
  BY DEF ProcessNext, ProcessMetrics, ProcessSlotAction, Done,
         Processing, queueVars, clientVars
<1>2. Active' = Active
  BY <1>1 DEF Active, Busy
<1>3. CASE ProcessNext
  <2>1. inHand.type = "next" /\ UNCHANGED <<results, waiting>>
    BY <1>3 DEF ProcessNext, Processing, responseVars
  <2>2. Waiting' = Waiting /\ Cancelled' \subseteq Cancelled
    BY <1>1, <2>1, MessageTypes DEF Waiting, Runs, Handled, Cancelled
  <2>3. QED
    BY <1>1, <1>2, <2>1, <2>2, StillLedger
<1>4. CASE ProcessMetrics \/ (ProcessSlotAction /\ ~DeferTask)
  <2>1. PICK t \in Tasks : inHand = Run(t) /\ inHand.task = t
    BY <1>4, RunMessage DEF ProcessMetrics, ProcessSlotAction, Processing, PInv, FlowTypes
  <2>2. Kind[t] # "completion" /\ Children[t] = {}
    BY <1>4, <2>1, ServerTaskAssumption DEF ProcessMetrics, ProcessSlotAction
  <2>3. /\ t \in Waiting /\ Waiting' = Waiting \ {t}
        /\ t \notin InSlots /\ \A u \in Waiting : t \notin Children[u]
        /\ Cancelled' = Cancelled
    BY <1>1, <2>1, HandledEnds
  <2>4. t \notin Active
    BY <2>3 DEF Active, InSlots
  <2>5. Alive' = Alive \ {t} /\ t \in Alive
    BY <1>2, <2>2, <2>3, <2>4 DEF Alive
  <2>6. PICK outcome \in {"final", "error"} : Send(t, outcome)
    <3>1. CASE ProcessMetrics
      BY <2>1, <3>1 DEF ProcessMetrics
    <3>2. CASE (ProcessSlotAction /\ ~DeferTask)
      BY <2>1, <3>2 DEF ProcessSlotAction
    <3>3. QED
      BY <1>4, <3>1, <3>2
  <2>7. Sends(t, outcome)
    BY <1>1, <2>3, <2>5, <2>6 DEF Sends, Outcomes
  <2>8. QED
    BY <2>7, SendLedger
<1>5. QED
  BY <1>3, <1>4

\* A cancelled slot's task is nobody's any more.
LEMMA ProcessCancelLedger ==
    ASSUME PInv, LInv, ProcessCancel
    PROVE  LInv'
<1>1. /\ UNCHANGED <<queue, deferred, slots, client, received, results, waiting>>
      /\ at = "process" /\ inHand' = NextResponse /\ inHand.type = "cancel"
      /\ releasing' = {s \in Busy : slots[s].task = inHand.task} /\ releasing = {}
  BY DEF ProcessCancel, Done, Processing, queueVars, responseVars, clientVars, PInv, FlowTypes
<1>2. PICK t \in Tasks : inHand = Cancel(t) /\ inHand.task = t
  BY <1>1 DEF PInv, FlowTypes, Message, Cancel
<1>3. Waiting' = Waiting /\ Cancelled' \subseteq Cancelled
  BY <1>1, MessageTypes DEF Waiting, Runs, Handled, Cancelled
<1>4. Active' \subseteq Active /\ Active \ Active' \subseteq {t}
  BY <1>1, <1>2 DEF Active, Busy
<1>5. Alive' \subseteq Alive /\ Alive \ Alive' \subseteq {t}
  BY <1>3, <1>4 DEF Alive
<1>6. t \in Cancelled
  BY <1>2 DEF Cancelled
<1>7. \E c \in Clients : t \in IdsOf(c) /\ client[c] = "gone"
  BY <1>6 DEF LInv, LeftBehind
<1>8. QED
  BY <1>1, <1>3, <1>5, <1>7, QuietLedger
\* A completion gets its slots, all of it, or is refused, all of it.
LEMMA LaunchLedger ==
    ASSUME IInv, PInv, LInv, Launch
    PROVE  LInv'
<1>1. PICK t \in Tasks : inHand = Run(t) /\ inHand.task = t
  BY RunMessage DEF Launch, Processing, PInv, FlowTypes
<1>2. /\ at = "process" /\ Done /\ UNCHANGED <<queue, deferred, sleeping, client, releasing>>
      /\ UNCHANGED <<results, waiting, received>> /\ inHand' = NextResponse
      /\ releasing = {}
  BY DEF Launch, Processing, Done, queueVars, clientVars, responseVars, PInv, FlowTypes
<1>3. PICK p \in Placements(t) : slots' = Started(p, t, Children[t] \cup {t})
  BY <1>1 DEF Launch
<1>4. /\ InSlots' = InSlots \cup (Children[t] \cup {t})
      /\ Waiting' = Waiting \ {t} /\ t \in Waiting
  BY <1>1, <1>2, <1>3, StartPlaces
<1>5. Active = InSlots /\ Active' = InSlots'
  BY <1>2 DEF Active, InSlots
<1>6. Alive' = Alive
  <2>1. Alive = InSlots \cup Waiting \cup UNION {Children[u] : u \in Waiting}
    BY <1>5 DEF Alive
  <2>2. Alive' = InSlots' \cup Waiting' \cup UNION {Children[u] : u \in Waiting'}
    BY <1>5 DEF Alive
  <2>3. QED
    BY <1>4, <2>1, <2>2
<1>7. Cancelled' = Cancelled
  BY <1>1, <1>2, HandledEnds
<1>8. QED
  BY <1>2, <1>6, <1>7, QuietLedger

LEMMA LaunchFailsLedger ==
    ASSUME IInv, PInv, LInv, LaunchFails
    PROVE  LInv'
<1>1. PICK t \in Tasks : inHand = Run(t) /\ inHand.task = t
  BY RunMessage DEF LaunchFails, Processing, PInv, FlowTypes
<1>2. /\ at = "process" /\ Done /\ UNCHANGED <<queue, deferred, sleeping, client>>
      /\ received' = received /\ inHand' = NextResponse /\ releasing = {}
  BY DEF LaunchFails, Processing, Done, queueVars, clientVars, PInv, FlowTypes
<1>3. PICK p \in Placements(t), launched \in SUBSET Children[t],
           refused \in Children[t] \cup {t} :
             /\ Send(refused, "error")
             /\ slots' = Started(p, t, launched)
             /\ releasing' = {p[k] : k \in launched}
  BY <1>1 DEF LaunchFails
<1>4. launched \in SUBSET (Children[t] \cup {t})
  OBVIOUS
<1>5. /\ Busy' = Busy \cup {p[k] : k \in launched}
      /\ \A k \in launched : p[k] \in Slots \ Busy
      /\ \A s \in Busy : slots'[s] = slots[s]
  BY <1>3, <1>4, StartedSlots DEF PInv
<1>6. Active' = Active
  BY <1>2, <1>3, <1>5 DEF Active
<1>7. InSlots \cap (Children[t] \cup {t}) = {} /\ Waiting \cap Children[t] = {}
  BY <1>1, <1>2, <1>3, <1>4, StartPlaces
<1>8. /\ t \in Waiting /\ Waiting' = Waiting \ {t} /\ t \in Owned
      /\ \A u \in Waiting : t \notin Children[u]
      /\ Cancelled' = Cancelled
  BY <1>1, <1>2, HandledEnds
<1>9. Alive' \subseteq Alive /\ Alive \ Alive' \subseteq Children[t] \cup {t}
  BY <1>6, <1>8 DEF Alive
<1>10. refused \in Alive /\ refused \notin Alive'
  <2>1. refused \in Alive
    BY <1>8 DEF Alive
  <2>2. refused \notin Active
    BY <1>7 DEF Active, InSlots
  <2>3. refused \notin Waiting'
    BY <1>7, <1>8
  <2>4. ASSUME NEW u \in Waiting', refused \in Children[u] PROVE FALSE
    <3>1. u \in Waiting /\ u # t /\ u \in Owned
      BY <1>8 DEF PInv, OneEachPlace
    <3>2. refused # t
      BY <1>8, <2>4, <3>1
    <3>3. refused \in Children[t]
      BY <3>2
    <3>4. QED
      BY <1>8, <2>4, <3>1, <3>3, Family
  <2>5. QED
    BY <1>6, <2>1, <2>2, <2>3, <2>4 DEF Alive
<1>11. ASSUME NEW u \in Alive \ Alive', NEW c \in Clients, u \in IdsOf(c)
       PROVE  refused \in IdsOf(c)
  <2>1. PICK d \in Clients : t \in IdsOf(d) /\ Children[t] \subseteq IdsOf(d)
    BY <1>8, OwnedIds
  <2>2. u \in IdsOf(d)
    BY <1>9, <2>1
  <2>3. QED
    BY <1>11, <2>1, <2>2, OneOwner
<1>12. Sends(refused, "error")
  BY <1>2, <1>3, <1>8, <1>9, <1>10, <1>11 DEF Sends, Outcomes
<1>13. QED
  BY <1>12, SendLedger

-----------------------------------------------------------------------------
LEMMA InitLedger == Init => LInv
<1> SUFFICES ASSUME Init PROVE LInv
  OBVIOUS
<1>1. /\ results = << >> /\ waiting = {} /\ queue = << >> /\ deferred = << >>
      /\ inHand = NextResponse /\ slots = [s \in Slots |-> Idle]
      /\ client = [c \in Clients |-> "new"] /\ received = [c \in Clients |-> 0]
  BY DEF Init, QueueInit, ResponseInit
<1>2. ToSet(results) = {} /\ ToSet(queue) = {} /\ ToSet(deferred) = {}
  BY <1>1 DEF ToSet
<1>3. HasResult = {} /\ \A o : Given(o) = {}
  BY <1>2 DEF HasResult, Given
<1>4. Cancelled = {}
  BY <1>1, <1>2, MessageTypes DEF Cancelled
<1>5. results \in Seq(Result) /\ received \in [Clients -> Nat] /\ LastWord(results)
  BY <1>1 DEF LastWord
<1>6. Registered
  BY <1>1 DEF Registered, Reading
<1>7. Wanted /\ Ended /\ LeftBehind
  BY <1>3, <1>4 DEF Wanted, Ended, LeftBehind
<1>8. \A c \in Clients : Ledger(c)
  BY <1>1 DEF Ledger
<1>9. QED
  BY <1>5, <1>6, <1>7, <1>8 DEF LInv

LEMMA HandlersLedger ==
    ASSUME Flags, PInv, LInv, NEW c \in Clients, ClientStep(c) \/ Arrive(c) \/ Disconnect(c)
    PROVE  LInv'
<1>1. CASE Arrive(c) \/ Rouse(c) \/ Disconnect(c)
  <2>1. UNCHANGED <<queue, deferred>> /\ UNCHANGED responseVars /\ UNCHANGED loopVars
    BY <1>1 DEF Arrive, Rouse, Disconnect, AskToWake, WaitAgain, queueVars
  <2>2. Alive' = Alive /\ Cancelled' = Cancelled /\ UNCHANGED <<results, waiting>>
    BY <2>1, SameAlive DEF loopVars, responseVars
  <2>3. CASE UNCHANGED clientVars
    BY <2>2, <2>3, QuietLedger DEF clientVars
  <2>4. CASE \/ Arrive(c) /\ \E place \in {"wake", "prepare"} : Goto(c, place)
             \/ Rouse(c) /\ Goto(c, "prepare")
             \/ Disconnect(c)
    BY <2>2, <2>4, MovesLedger DEF Arrive, Rouse, Disconnect
  <2>5. QED
    BY <1>1, <2>3, <2>4 DEF Arrive, Rouse
<1>2. QED
  BY <1>1, RegisterLedger, PostLedger, ReceiveLedger, LeaveLedger, PurgeLedger, CancelLedger
     DEF ClientStep

LEMMA NextLedger == IInv /\ PInv /\ LInv /\ [Next]_vars => LInv'
<1> SUFFICES ASSUME IInv, PInv, LInv, [Next]_vars PROVE LInv'
  OBVIOUS
<1>1. CASE \E c \in Clients : ClientStep(c) \/ Arrive(c) \/ Disconnect(c)
  BY <1>1, HandlersLedger DEF IInv
<1>2. CASE \/ StartLoop \/ EndLoop \/ BeginUpdate \/ EndUpdate \/ EndRest
           \/ GoToSleep \/ Wake \/ FillBatch \/ DecodeFails \/ Interrupt
           \/ UNCHANGED vars
  BY <1>2, QuietLoopLedger
<1>3. CASE \/ ProcessNext \/ ProcessCancel \/ ProcessMetrics
           \/ ProcessSlotAction \/ DeferCompletion
  <2>1. CASE DeferTask /\ Processing("run")
    <3>1. PICK t \in Tasks : inHand = Run(t)
      BY <2>1, RunMessage DEF Processing, PInv, FlowTypes
    <3>2. at = "process"
      BY <2>1 DEF Processing
    <3>3. QED
      BY <2>1, <3>1, <3>2, DeferLedger
  <2>2. QED
    BY <1>3, <2>1, ProcessLedger, ProcessCancelLedger DEF ProcessSlotAction, DeferCompletion
<1>4. CASE Launch \/ LaunchFails
  BY <1>4, LaunchLedger, LaunchFailsLedger
<1>5. CASE PopTask \/ PostNext
  BY <1>5, PopTaskLedger, PostNextLedger
<1>6. CASE \E s \in Slots : \/ Release(s) \/ Refuse(s) \/ FailSlot(s) \/ Finish(s)
                            \/ PromptDone(s) \/ GoOn(s)
  BY <1>6, ReleaseLedger, EndsLedger, MovesOnLedger
<1>7. QED
  BY <1>1, <1>2, <1>3, <1>4, <1>5, <1>6 DEF Next, LoopStep

\* The ledger of every reader, always.
THEOREM LedgerInvariant == Spec => []LInv
BY InitLedger, NextLedger, PlacesInvariant, Sleeping, PTL DEF Spec

\* A result that is queued belongs to a reader that will still take it or
\* purge it (server_response, server_response_reader::stop).
THEOREM ResultsAreRead == Spec => []NoStaleResult
<1>1. LInv => NoStaleResult
  <2>1. SUFFICES ASSUME LInv, NEW i \in DOMAIN results
                 PROVE  \E c \in Clients :
                           /\ results[i].task \in IdsOf(c)
                           /\ client[c] \in {"post", "read", "stop", "purge"}
    BY DEF NoStaleResult
  <2>2. results[i].task \in HasResult
    BY <2>1, ResultIndex DEF LInv
  <2>3. QED
    BY <2>1, <2>2 DEF LInv, Wanted
<1>2. QED
  BY <1>1, LedgerInvariant, PTL

\* What is pending is what may still get a result.
LEMMA PendingIsAlive ==
    ASSUME PInv, NEW t \in Tasks
    PROVE  Pending(t) <=> t \in Alive
<1>1. \A p \in Tasks : Waits(p) <=> p \in Waiting
  BY DEF Waits, Waiting, Runs, Handled, ToSet
<1>2. Waiting \subseteq Tasks
  BY OwnedTasks DEF PInv, OneEachPlace
<1>3. QED
  BY <1>1, <1>2 DEF Pending, Alive, Active

\* As many final results as tasks that have one.
LEMMA FinalsCount ==
    ASSUME LInv, NEW c \in Clients
    PROVE  /\ Cardinality(ResultsOf(c, "final")) = Cardinality(IdsOf(c) \cap Given("final"))
<1> DEFINE R == ResultsOf(c, "final")
           F == IdsOf(c) \cap Given("final")
           f == [i \in R |-> results[i].task]
<1>1. \A i \in R : /\ i \in DOMAIN results /\ results[i].outcome = "final"
                   /\ results[i].task \in IdsOf(c)
  BY DEF ResultsOf
<1>2. IsFiniteSet(R)
  <2>1. Len(results) \in Nat /\ DOMAIN results = 1..Len(results)
    BY DEF LInv
  <2>2. IsFiniteSet(1..Len(results))
    BY <2>1, FS_Interval
  <2>3. QED
    BY <1>1, <2>1, <2>2, FS_Subset
<1>3. \A i \in R : results[i].task \in F
  BY <1>1, ResultIndex DEF LInv
<1>4. \A t \in F : \E i \in R : results[i].task = t
  <2>1. SUFFICES ASSUME NEW t \in F PROVE \E i \in R : results[i].task = t
    OBVIOUS
  <2>2. PICK i \in DOMAIN results : results[i].task = t /\ results[i].outcome = "final"
    BY GivenIndex DEF LInv
  <2>3. QED
    BY <2>2 DEF ResultsOf
<1>5. \A i, j \in R : results[i].task = results[j].task => i = j
  <2>1. SUFFICES ASSUME NEW i \in R, NEW j \in R, results[i].task = results[j].task
                 PROVE  i = j
    OBVIOUS
  <2>2. i <= j /\ j <= i
    BY <1>1, <2>1 DEF LInv, LastWord
  <2>3. i \in Int /\ j \in Int
    BY <1>1 DEF LInv
  <2>4. QED
    BY <2>2, <2>3
<1> HIDE DEF R, F
<1>6. f \in Bijection(R, F)
  BY <1>3, <1>4, <1>5 DEF Bijection, Injection, Surjection, IsInjective
<1>7. Cardinality(R) = Cardinality(F)
  BY <1>2, <1>6, FS_Bijection DEF ExistsBijection
<1>8. QED
  BY <1>7 DEF R, F

\* Every task of a request that is read is counted, has its final result in
\* the queue, or will still get one, unless an error is queued.
THEOREM AnswersAreOnTheirWay == Spec => []Answerable
<1>1. ASSUME PInv, LInv, NEW c \in Clients, client[c] = "read", ResultsOf(c, "error") = {}
      PROVE  Cardinality(IdsOf(c)) =
                received[c] + Cardinality(ResultsOf(c, "final"))
                            + Cardinality({t \in IdsOf(c) : Pending(t)})
  <2> DEFINE S == Settled(c)
             F == IdsOf(c) \cap Given("final")
             P == {t \in IdsOf(c) : Pending(t)}
  <2>1. IdsOf(c) \cap Given("error") = {}
    <3>1. SUFFICES ASSUME NEW t \in IdsOf(c), t \in Given("error") PROVE FALSE
      OBVIOUS
    <3>2. PICK i \in DOMAIN results : results[i].task = t /\ results[i].outcome = "error"
      BY <1>1, <3>1, GivenIndex DEF LInv
    <3>3. QED
      BY <1>1, <3>1, <3>2 DEF ResultsOf
  <2>2. /\ received[c] = Cardinality(S)
        /\ IdsOf(c) \cap HasResult \subseteq Alive \cup Given("final")
    BY <1>1, <2>1 DEF LInv, Ledger
  <2>3. P = IdsOf(c) \cap Alive
    BY <1>1, IdsFinite, PendingIsAlive
  <2>4. F \cap P = {}
    BY <1>1, <2>3 DEF LInv, Ended
  <2>5. IdsOf(c) = (S \cup F) \cup P /\ S \cap F = {} /\ (S \cup F) \cap P = {}
    BY <2>2, <2>3, <2>4 DEF Settled, HasResult
  <2>6. Cardinality(ResultsOf(c, "final")) = Cardinality(F)
    BY <1>1, FinalsCount
  <2> HIDE DEF S, F, P
  <2>7. IsFiniteSet(S) /\ IsFiniteSet(F) /\ IsFiniteSet(P) /\ IsFiniteSet(S \cup F)
    BY <2>5, IdsFinite, FS_Subset
  <2>8. /\ Cardinality(S) \in Nat /\ Cardinality(F) \in Nat /\ Cardinality(P) \in Nat
        /\ Cardinality(S \cup F) \in Nat /\ Cardinality({}) = 0
    BY <2>7, FS_CardinalityType, FS_EmptySet
  <2>9. Cardinality(S \cup F) = Cardinality(S) + Cardinality(F)
    BY <2>5, <2>7, <2>8, DisjointUnion
  <2>10. Cardinality(IdsOf(c)) = Cardinality(S \cup F) + Cardinality(P)
    BY <2>5, <2>7, <2>8, DisjointUnion
  <2>11. QED
    BY <2>2, <2>6, <2>8, <2>9, <2>10 DEF P
<1>2. PInv /\ LInv => Answerable
  BY <1>1 DEF Answerable
<1>3. QED
  BY <1>2, PlacesInvariant, LedgerInvariant, PTL
=============================================================================
