------------------------------- MODULE LogRing -------------------------------
(***************************************************************************)
(* The log (common/log.cpp): threads add messages to a ring buffer that    *)
(* doubles when it is full, one worker prints them, and the main thread    *)
(* stops the worker (pause) to write to the same streams itself and starts *)
(* it again (resume).  One mutex guards the ring; printing is done without *)
(* it.  A message is its number in the order in which add accepted it.     *)
(***************************************************************************)
EXTENDS Naturals, Sequences

CONSTANTS
    Capacity,     \* the size of the ring at first
    MaxMessages,  \* bound: how many messages are added
    MaxPauses,    \* bound: how often the worker is stopped
    EndMark       \* the entry that tells the worker to stop

ASSUME CapacityAssumption == Capacity \in Nat \ {0, 1}
ASSUME EndMarkAssumption == EndMark \notin Nat

VARIABLES
    entries,      \* the ring: message numbers and EndMark (0: never used)
    head, tail,   \* the next entry to print and the next to fill, from 0
    running,      \* add accepts messages
    worker,       \* "waiting", "printing" or "ended"
    cur,          \* the worker's copy of an entry
    joining,      \* the main thread is in pause(), at the join
    added,        \* how many messages add has accepted
    printed,      \* the messages printed, in order
    pauses        \* how often the worker was stopped

logVars == <<entries, head, tail, running, worker, cur, joining, added, printed, pauses>>

LogInit ==
    /\ entries = [i \in 1 .. Capacity |-> 0]
    /\ head = 0 /\ tail = 0
    /\ running = TRUE
    /\ worker = "waiting" /\ cur = 0
    /\ joining = FALSE
    /\ added = 0 /\ printed = <<>>
    /\ pauses = 0

RingSize == Len(entries)
After(i) == (i + 1) % RingSize

(* The ring's entries from head on, all of them, then as many blank ones.  *)
MutDoubled(ring) == [i \in 1 .. 2 * RingSize |-> IF i <= RingSize THEN ring[i] ELSE 0]
Doubled(ring) == [i \in 1 .. 2 * RingSize |-> IF i <= RingSize THEN ring[((head + i - 1) % RingSize) + 1] ELSE 0]

(* add: while paused, a message is discarded.                              *)
LogAdd ==
    /\ running
    /\ added < MaxMessages
    /\ added' = added + 1
    /\ LET filled == [entries EXCEPT ![tail + 1] = added + 1]
       IN IF After(tail) = head
          THEN entries' = Doubled(filled) /\ head' = 0 /\ tail' = RingSize
          ELSE entries' = filled /\ tail' = After(tail) /\ UNCHANGED head
    /\ UNCHANGED <<running, worker, cur, joining, printed, pauses>>

(* The worker waits for head # tail, copies an entry, and prints it.       *)
Take ==
    /\ worker = "waiting"
    /\ head # tail
    /\ cur' = entries[head + 1]
    /\ head' = After(head)
    /\ worker' = IF cur' = EndMark THEN "ended" ELSE "printing"
    /\ UNCHANGED <<entries, tail, running, joining, added, printed, pauses>>

PrintEntry ==
    /\ worker = "printing"
    /\ printed' = Append(printed, cur)
    /\ worker' = "waiting"
    /\ UNCHANGED <<entries, head, tail, running, cur, joining, added, pauses>>

MutPause ==
    /\ running /\ ~joining
    /\ pauses < MaxPauses
    /\ running' = FALSE /\ joining' = TRUE /\ pauses' = pauses + 1
    /\ UNCHANGED <<entries, head, tail, worker, cur, added, printed>>

(* pause: the entry that ends the worker is written without the check that *)
(* add makes for a full ring.                                              *)
Pause ==
    /\ running /\ ~joining
    /\ pauses < MaxPauses
    /\ running' = FALSE /\ joining' = TRUE /\ pauses' = pauses + 1
    /\ entries' = [entries EXCEPT ![tail + 1] = EndMark]
    /\ tail' = After(tail)
    /\ UNCHANGED <<head, worker, cur, added, printed>>

Joined ==
    /\ joining /\ worker = "ended"
    /\ joining' = FALSE
    /\ UNCHANGED <<entries, head, tail, running, worker, cur, added, printed, pauses>>

Resume ==
    /\ ~running /\ ~joining
    /\ running' = TRUE /\ worker' = "waiting"
    /\ UNCHANGED <<entries, head, tail, cur, joining, added, printed, pauses>>

LogNext == LogAdd \/ Take \/ PrintEntry \/ Pause \/ Joined \/ Resume

LogSpec == LogInit /\ [][LogNext]_logVars

(***************************************************************************)
(* Properties.                                                             *)
(***************************************************************************)
(* The entry that pause wrote filled the ring, which therefore looks empty *)
(* to the worker: it waits for a message that nobody can add any more.     *)
Overrun == joining /\ worker = "waiting" /\ head = tail /\ Len(printed) < added

Count == (tail + RingSize - head) % RingSize
Pending == [i \in 1 .. Count |-> entries[((head + i - 1) % RingSize) + 1]]
InHand == IF worker = "printing" THEN <<cur>> ELSE <<>>
AllAdded == [i \in 1 .. added |-> i]

(* Every message that was accepted is printed once, in order, through any  *)
(* number of growths of the ring: what was printed, what is being printed  *)
(* and what the ring holds are the messages added, and the end mark last.  *)
(* When pause returns everything accepted is on the streams, and until     *)
(* resume the worker writes nothing: the caller owns them.                 *)
NothingLost ==
    /\ ~Overrun /\ ~(joining /\ worker = "printing" /\ head = tail) =>
          printed \o InHand \o Pending =
              AllAdded \o (IF joining /\ worker # "ended" THEN <<EndMark>> ELSE <<>>)
    /\ ~running /\ ~joining => worker = "ended" /\ printed = AllAdded

(* pause returns, unless the end mark filled the ring.                     *)
PauseEnds == joining ~> (~joining \/ Overrun)
=============================================================================
