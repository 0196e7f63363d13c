--------------------------- MODULE ComponentProofs ---------------------------
(* Proofs about the components that share no state with the others          *)
(* (MCComponents checks the same properties on small instances).            *)
EXTENDS LogRing, SpecDecode, PromptCache, PleStore, RunDirectories, SequenceFacts

-----------------------------------------------------------------------------
(* The log: what add accepted has been printed or waits in the ring, in     *)
(* order, through any number of growths and pauses, for a ring of any size. *)

\* What the ring holds: the numbers of messages, and the end mark.
Entry == Nat \union {EndMark}

\* The k-th entry from head on, and how many there are, without a remainder.
At(k) == IF head + k < RingSize THEN head + k + 1 ELSE head + k + 1 - RingSize
Held == IF head <= tail THEN tail - head ELSE tail + RingSize - head

\* The end mark is in the ring, its last entry; and it filled the ring, which
\* then looks empty.
EndsIn == joining /\ worker # "ended"
Overfull == EndsIn /\ head = tail

\* How many messages the worker has taken, and how many the ring holds.
Done == Len(printed) + (IF worker = "printing" THEN 1 ELSE 0)
Messages == IF EndsIn THEN Held - 1 ELSE Held

LogTypes ==
    /\ entries \in Seq(Entry) /\ RingSize >= 2
    /\ head \in 0 .. RingSize - 1 /\ tail \in 0 .. RingSize - 1
    /\ running \in BOOLEAN /\ joining \in BOOLEAN
    /\ worker \in {"waiting", "printing", "ended"}
    /\ added \in Nat /\ printed \in Seq(Nat)

\* The worker runs unless pause has joined it; it ended on the last entry.
Phases ==
    /\ running => ~joining /\ worker # "ended"
    /\ ~running /\ ~joining => worker = "ended"
    /\ worker = "ended" => head = tail

\* Messages are numbered in the order of add, and printed in it.
InOrder ==
    /\ \A i \in 1 .. Len(printed) : printed[i] = i
    /\ worker = "printing" => cur = Len(printed) + 1

\* What add accepted and the worker has not taken is in the ring, in order,
\* and the end mark after it.
InRing ==
    IF Overfull
    THEN Done + RingSize - 1 = added
    ELSE /\ Done + Messages = added
         /\ \A k \in 0 .. Messages - 1 : entries[At(k)] = Done + k + 1
         /\ EndsIn => Messages >= 0 /\ entries[At(Messages)] = EndMark

LInv == LogTypes /\ Phases /\ InOrder /\ InRing

\* A remainder of what is less than twice the divisor.
LEMMA OnceAround ==
    ASSUME NEW n \in Nat \ {0}, NEW x \in 0 .. 2 * n - 1
    PROVE  x % n = IF x < n THEN x ELSE x - n
OBVIOUS

\* The model's places and counts are those above.
LEMMA PlacesAre ==
    ASSUME LogTypes
    PROVE  /\ \A k \in 0 .. RingSize - 1 : ((head + k) % RingSize) + 1 = At(k) /\ At(k) \in 1 .. RingSize
           /\ Count = Held /\ Held \in 0 .. RingSize - 1
           /\ After(tail) = IF tail + 1 < RingSize THEN tail + 1 ELSE 0
           /\ After(head) = IF head + 1 < RingSize THEN head + 1 ELSE 0
           /\ RingSize \in Nat \ {0}
<1>1. RingSize \in Nat \ {0} /\ head \in 0 .. RingSize - 1 /\ tail \in 0 .. RingSize - 1
  BY DEF LogTypes, RingSize
<1>2. ASSUME NEW k \in 0 .. RingSize - 1 PROVE ((head + k) % RingSize) + 1 = At(k) /\ At(k) \in 1 .. RingSize
  <2> DEFINE x == head + k
  <2>1. x \in 0 .. 2 * RingSize - 1
    BY <1>1
  <2> HIDE DEF x
  <2>2. x % RingSize = IF x < RingSize THEN x ELSE x - RingSize
    BY <1>1, <2>1, OnceAround
  <2>3. QED
    BY <1>1, <2>2 DEF At, x
<1>3. Count = Held /\ Held \in 0 .. RingSize - 1
  <2> DEFINE x == tail + RingSize - head
  <2>1. x \in 0 .. 2 * RingSize - 1
    BY <1>1
  <2> HIDE DEF x
  <2>2. x % RingSize = IF x < RingSize THEN x ELSE x - RingSize
    BY <1>1, <2>1, OnceAround
  <2>3. QED
    BY <1>1, <2>2 DEF Count, Held, x
<1>4. After(tail) = IF tail + 1 < RingSize THEN tail + 1 ELSE 0
  <2>1. tail + 1 \in 0 .. 2 * RingSize - 1
    BY <1>1
  <2>2. QED
    BY <1>1, <2>1, OnceAround DEF After
<1>5. After(head) = IF head + 1 < RingSize THEN head + 1 ELSE 0
  <2>1. head + 1 \in 0 .. 2 * RingSize - 1
    BY <1>1
  <2>2. QED
    BY <1>1, <2>1, OnceAround DEF After
<1>6. QED
  BY <1>1, <1>2, <1>3, <1>4, <1>5

LEMMA InitInv == LogInit => LInv
<1>1. SUFFICES ASSUME LogInit PROVE LInv
  OBVIOUS
<1>2. Len(entries) = Capacity /\ entries \in Seq(Nat)
  BY <1>1, CapacityAssumption DEF LogInit
<1>3. LogTypes
  <2>1. entries \in Seq(Entry)
    BY <1>1, CapacityAssumption DEF LogInit, Entry
  <2>2. RingSize = Capacity
    BY <1>2 DEF RingSize
  <2>3. head \in 0 .. RingSize - 1 /\ tail \in 0 .. RingSize - 1 /\ RingSize >= 2
    BY <1>1, <2>2, CapacityAssumption DEF LogInit
  <2>4. printed \in Seq(Nat)
    BY <1>1 DEF LogInit
  <2>5. QED
    BY <1>1, <2>1, <2>3, <2>4 DEF LogInit, LogTypes
<1>4. Held = 0 /\ Messages = 0 /\ Done = 0 /\ ~EndsIn
  BY <1>1 DEF LogInit, Held, Messages, Done, EndsIn
<1>5. QED
  BY <1>1, <1>3, <1>4 DEF LogInit, LInv, Phases, InOrder, InRing, Overfull

LEMMA AddStep == LInv /\ LogAdd => LInv'
<1>1. SUFFICES ASSUME LInv, LogAdd PROVE LInv'
  OBVIOUS
<1> DEFINE n == RingSize
           filled == [entries EXCEPT ![tail + 1] = added + 1]
<1>2. /\ n \in Nat /\ n >= 2 /\ head \in 0 .. n - 1 /\ tail \in 0 .. n - 1
      /\ entries \in Seq(Entry) /\ added \in Nat /\ printed \in Seq(Nat)
      /\ worker \in {"waiting", "printing"} /\ ~joining /\ running
  BY <1>1 DEF LInv, LogTypes, Phases, LogAdd, RingSize
<1>3. /\ \A k \in 0 .. n - 1 : ((head + k) % n) + 1 = At(k) /\ At(k) \in 1 .. n
      /\ Held \in 0 .. n - 1
      /\ After(tail) = IF tail + 1 < n THEN tail + 1 ELSE 0
  BY <1>1, PlacesAre DEF LInv
<1>4. /\ ~EndsIn /\ ~EndsIn' /\ Messages = Held /\ Done' = Done /\ Done \in Nat
      /\ Messages' = Held'
  BY <1>1, <1>2 DEF LogAdd, EndsIn, Messages, Done
<1>5. /\ Done + Held = added
      /\ \A k \in 0 .. Held - 1 : entries[At(k)] = Done + k + 1
  BY <1>1, <1>4 DEF LInv, InRing, Overfull
<1>6. /\ filled \in Seq(Entry) /\ Len(filled) = n
      /\ filled[tail + 1] = added + 1
      /\ \A i \in 1 .. n : i # tail + 1 => filled[i] = entries[i]
  BY <1>2 DEF RingSize, Entry
<1>7. tail + 1 = At(Held) /\ \A k \in 0 .. Held - 1 : At(k) # tail + 1
  BY <1>2, <1>3 DEF At, Held
<1>8. \A k \in 0 .. Held : filled[At(k)] = Done + k + 1
  <2>1. ASSUME NEW k \in 0 .. Held - 1 PROVE filled[At(k)] = Done + k + 1
    BY <2>1, <1>2, <1>3, <1>5, <1>6, <1>7
  <2>2. filled[At(Held)] = Done + Held + 1
    BY <1>5, <1>6, <1>7
  <2>3. QED
    BY <1>3, <2>1, <2>2
<1> HIDE DEF filled
<1>9. CASE After(tail) = head
  <2>1. entries' = Doubled(filled) /\ head' = 0 /\ tail' = n
    BY <1>1, <1>9 DEF LogAdd, filled
  <2>2. Held = n - 1
    BY <1>2, <1>3, <1>9 DEF Held
  <2>3. /\ entries' \in Seq(Entry) /\ Len(entries') = 2 * n
        /\ \A i \in 1 .. n : entries'[i] = filled[((head + i - 1) % n) + 1]
    <3>1. entries' = [i \in 1 .. 2 * n |-> IF i <= n THEN filled[((head + i - 1) % n) + 1] ELSE 0]
      BY <2>1 DEF Doubled
    <3>2. ASSUME NEW i \in 1 .. n PROVE filled[((head + i - 1) % n) + 1] \in Entry
      <4>1. i - 1 \in 0 .. n - 1 /\ head + (i - 1) = head + i - 1
        BY <1>2
      <4>2. ((head + i - 1) % n) + 1 \in 1 .. n
        BY <4>1, <1>3
      <4>3. QED
        BY <4>2, <1>6
    <3>3. \A i \in 1 .. 2 * n : (IF i <= n THEN filled[((head + i - 1) % n) + 1] ELSE 0) \in Entry
      BY <1>2, <3>2 DEF Entry
    <3> DEFINE g == [i \in 1 .. 2 * n |-> IF i <= n THEN filled[((head + i - 1) % n) + 1] ELSE 0]
    <3>4. g \in [1 .. 2 * n -> Entry]
      BY <3>3
    <3>5. \A i \in 1 .. n : g[i] = filled[((head + i - 1) % n) + 1]
      BY <1>2
    <3>6. entries' = g
      BY <3>1
    <3> HIDE DEF g
    <3>7. 2 * n \in Nat
      BY <1>2
    <3>8. QED
      BY <3>4, <3>5, <3>6, <3>7
  <2>4. \A k \in 0 .. n - 1 : entries'[k + 1] = Done + k + 1
    <3>1. SUFFICES ASSUME NEW k \in 0 .. n - 1 PROVE entries'[k + 1] = Done + k + 1
      OBVIOUS
    <3>2. entries'[k + 1] = filled[((head + (k + 1) - 1) % n) + 1]
      BY <1>2, <2>3
    <3>3. head + (k + 1) - 1 = head + k
      BY <1>2
    <3>4. entries'[k + 1] = filled[At(k)]
      BY <3>2, <3>3, <1>3
    <3>5. QED
      BY <3>4, <1>8, <2>2
  <2>5. Held' = n /\ RingSize' = 2 * n
    BY <1>2, <2>1, <2>3 DEF Held, RingSize
  <2>6. LogTypes'
    <3>1. RingSize' >= 2 /\ head' \in 0 .. RingSize' - 1 /\ tail' \in 0 .. RingSize' - 1
      BY <1>2, <2>1, <2>5
    <3>2. QED
      BY <1>1, <1>2, <2>3, <3>1 DEF LogTypes, LogAdd, LInv
  <2>7. InRing'
    <3>1. \A k \in 0 .. n - 1 : At(k)' = k + 1
      BY <1>2, <2>1, <2>5 DEF At
    <3>2. added' = added + 1 /\ ~Overfull'
      BY <1>1, <1>4 DEF LogAdd, Overfull
    <3>3. QED
      BY <1>2, <1>4, <1>5, <2>2, <2>4, <2>5, <3>1, <3>2 DEF InRing
  <2>8. QED
    BY <1>1, <1>2, <2>6, <2>7 DEF LInv, LogAdd, Phases, InOrder
<1>10. CASE After(tail) # head
  <2>1. entries' = filled /\ head' = head /\ tail' = After(tail)
    BY <1>1, <1>10 DEF LogAdd, filled
  <2>2. Held' = Held + 1 /\ RingSize' = n /\ (\A k \in 0 .. n - 1 : At(k)' = At(k))
    <3>1. RingSize' = n
      BY <1>6, <2>1 DEF RingSize
    <3>2. \A k \in 0 .. n - 1 : At(k)' = At(k)
      BY <2>1, <3>1 DEF At
    <3>3. Held' = Held + 1
      BY <1>2, <1>3, <1>10, <2>1, <3>1 DEF Held
    <3>4. QED
      BY <3>1, <3>2, <3>3
  <2>3. LogTypes'
    <3>1. RingSize' >= 2 /\ head' \in 0 .. RingSize' - 1 /\ tail' \in 0 .. RingSize' - 1
      BY <1>2, <1>3, <2>1, <2>2
    <3>2. QED
      BY <1>1, <1>2, <1>6, <2>1, <3>1 DEF LogTypes, LogAdd, LInv
  <2>4. InRing'
    <3>1. added' = added + 1 /\ ~Overfull'
      BY <1>1, <1>4 DEF LogAdd, Overfull
    <3>2. \A k \in 0 .. Held : At(k)' = At(k)
      <4>1. \A k \in 0 .. Held : k \in 0 .. n - 1
        BY <1>2, <1>3
      <4>2. QED
        BY <4>1, <2>2
    <3>3. QED
      BY <1>2, <1>3, <1>4, <1>5, <1>8, <2>1, <2>2, <3>1, <3>2 DEF InRing
  <2>5. QED
    BY <1>1, <1>2, <2>1, <2>3, <2>4 DEF LInv, LogAdd, Phases, InOrder
<1>11. QED
  BY <1>9, <1>10

LEMMA TakeStep == LInv /\ Take => LInv'
<1>1. SUFFICES ASSUME LInv, Take PROVE LInv'
  OBVIOUS
<1> DEFINE n == RingSize
<1>2. /\ n \in Nat /\ n >= 2 /\ head \in 0 .. n - 1 /\ tail \in 0 .. n - 1
      /\ added \in Nat /\ printed \in Seq(Nat) /\ joining \in BOOLEAN
      /\ worker = "waiting" /\ head # tail /\ ~Overfull
      /\ cur' = entries[head + 1] /\ head' = After(head)
      /\ worker' = (IF cur' = EndMark THEN "ended" ELSE "printing")
      /\ UNCHANGED <<entries, tail, running, joining, added, printed>>
  BY <1>1 DEF LInv, LogTypes, Take, RingSize, Overfull
<1>3. /\ Held \in 1 .. n - 1 /\ At(0) = head + 1
      /\ head' = IF head + 1 < n THEN head + 1 ELSE 0
  <2>1. After(head) = IF head + 1 < n THEN head + 1 ELSE 0
    BY <1>1, PlacesAre DEF LInv
  <2>2. QED
    BY <1>2, <2>1 DEF Held, At
<1>4. RingSize' = n /\ Held' = Held - 1
  <2>1. RingSize' = n
    BY <1>2 DEF RingSize
  <2>2. QED
    BY <1>2, <1>3, <2>1 DEF Held
<1>5. \A k \in 0 .. n - 2 : At(k)' = At(k + 1)
  BY <1>2, <1>3, <1>4 DEF At
<1>6. /\ Done = Len(printed) /\ Done \in Nat /\ Done + Messages = added
      /\ \A k \in 0 .. Messages - 1 : entries[At(k)] = Done + k + 1
      /\ EndsIn => Messages >= 0 /\ entries[At(Messages)] = EndMark
      /\ EndsIn = joining
      /\ Messages = IF joining THEN Held - 1 ELSE Held
  BY <1>1, <1>2 DEF LInv, InRing, Done, EndsIn, Messages
<1>7. LogTypes'
  <2>1. RingSize' >= 2 /\ head' \in 0 .. RingSize' - 1 /\ tail' \in 0 .. RingSize' - 1
    BY <1>2, <1>3, <1>4
  <2>2. QED
    BY <1>1, <1>2, <2>1 DEF LogTypes, LInv
<1>8. CASE Messages = 0
  <2>1. joining /\ Held = 1 /\ cur' = EndMark
    BY <1>2, <1>3, <1>6, <1>8
  <2>2. worker' = "ended" /\ joining' /\ head' = tail'
    BY <1>2, <1>3, <2>1 DEF Held
  <2>3. ~EndsIn' /\ ~Overfull' /\ Messages' = 0 /\ Done' = Done
    BY <1>2, <1>4, <1>6, <2>1, <2>2 DEF EndsIn, Overfull, Messages, Done
  <2>4. InRing'
    BY <1>2, <1>6, <1>8, <2>3 DEF InRing
  <2>5. Phases' /\ InOrder'
    BY <1>1, <1>2, <2>2 DEF LInv, Phases, InOrder
  <2>6. QED
    BY <1>7, <2>4, <2>5 DEF LInv
<1>9. CASE Messages # 0
  <2>1. Messages \in 1 .. n - 1 /\ Messages <= Held
    BY <1>2, <1>3, <1>6, <1>9
  <2>2. cur' = Done + 1
    BY <1>2, <1>3, <1>6, <2>1
  <2>3. worker' = "printing"
    BY <1>2, <1>6, <2>2, EndMarkAssumption
  <2>4. EndsIn' = EndsIn /\ Messages' = Messages - 1 /\ Done' = Done + 1
    BY <1>2, <1>3, <1>4, <1>6, <2>3 DEF EndsIn, Messages, Done
  <2>5. ~Overfull'
    <3>1. joining => Held >= 2
      BY <1>3, <1>6, <2>1
    <3>2. QED
      BY <1>2, <1>4, <2>3, <3>1 DEF Overfull, EndsIn, Held
  <2>6. \A k \in 0 .. Messages - 2 : entries'[At(k)'] = Done + 1 + k + 1
    <3>1. SUFFICES ASSUME NEW k \in 0 .. Messages - 2 PROVE entries[At(k)'] = Done + 1 + k + 1
      BY <1>2
    <3>2. k \in 0 .. n - 2 /\ k + 1 \in 0 .. Messages - 1
      BY <1>2, <2>1
    <3>3. QED
      BY <1>5, <1>6, <3>2
  <2>7. EndsIn => \A m \in 0 .. n - 2 : m + 1 = Messages => entries'[At(m)'] = EndMark
    BY <1>2, <1>5, <1>6
  <2>8. InRing'
    <3>1. \A k \in 0 .. Messages' - 1 : entries'[At(k)'] = Done' + k + 1
      BY <2>1, <2>4, <2>6
    <3>2. EndsIn' => Messages' >= 0 /\ entries'[At(Messages)'] = EndMark
      <4>1. Messages' \in 0 .. n - 2 /\ Messages' + 1 = Messages
        BY <1>2, <2>1, <2>4
      <4>2. QED
        BY <2>4, <2>7, <4>1
    <3>3. Done \in Nat /\ Done + Messages = added /\ added' = added
      BY <1>2, <1>6
    <3>4. Done' + Messages' = added'
      BY <2>1, <2>4, <3>3
    <3>5. QED
      BY <2>5, <3>1, <3>2, <3>4 DEF InRing
  <2>9. Phases' /\ InOrder'
    BY <1>1, <1>2, <1>6, <2>2, <2>3 DEF LInv, Phases, InOrder
  <2>10. QED
    BY <1>7, <2>8, <2>9 DEF LInv
<1>10. QED
  BY <1>8, <1>9

LEMMA PrintStep == LInv /\ PrintEntry => LInv'
<1>1. SUFFICES ASSUME LInv, PrintEntry PROVE LInv'
  OBVIOUS
<1>2. /\ worker = "printing" /\ worker' = "waiting" /\ cur = Len(printed) + 1
      /\ printed' = Append(printed, cur) /\ printed \in Seq(Nat)
      /\ UNCHANGED <<entries, head, tail, running, cur, joining, added>>
  BY <1>1 DEF LInv, LogTypes, InOrder, PrintEntry
<1>3. /\ printed' \in Seq(Nat) /\ Len(printed') = Len(printed) + 1
      /\ \A i \in 1 .. Len(printed') : printed'[i] = i
  BY <1>1, <1>2 DEF LInv, InOrder
<1>4. /\ Done' = Done /\ EndsIn' = EndsIn /\ Overfull' = Overfull /\ RingSize' = RingSize
      /\ Held' = Held /\ Messages' = Messages /\ \A k : At(k)' = At(k)
  <2>1. RingSize' = RingSize
    BY <1>2 DEF RingSize
  <2>2. QED
    BY <1>2, <1>3, <2>1 DEF Done, EndsIn, Overfull, Held, Messages, At
<1>5. At(Messages)' = At(Messages)
  BY <1>2, <1>4 DEF At
<1>6. InRing'
  BY <1>1, <1>2, <1>4, <1>5 DEF LInv, InRing
<1>7. QED
  BY <1>1, <1>2, <1>3, <1>4, <1>6 DEF LInv, LogTypes, Phases, InOrder

LEMMA PauseStep == LInv /\ Pause => LInv'
<1>1. SUFFICES ASSUME LInv, Pause PROVE LInv'
  OBVIOUS
<1> DEFINE n == RingSize
<1>2. /\ n \in Nat /\ n >= 2 /\ head \in 0 .. n - 1 /\ tail \in 0 .. n - 1
      /\ entries \in Seq(Entry) /\ added \in Nat /\ printed \in Seq(Nat)
      /\ worker \in {"waiting", "printing"} /\ ~joining /\ running /\ ~running' /\ joining'
      /\ entries' = [entries EXCEPT ![tail + 1] = EndMark] /\ tail' = After(tail)
      /\ UNCHANGED <<head, worker, cur, added, printed>>
  BY <1>1 DEF LInv, LogTypes, Phases, Pause, RingSize
<1>3. /\ \A k \in 0 .. n - 1 : At(k) \in 1 .. n
      /\ Held \in 0 .. n - 1
      /\ tail' = IF tail + 1 < n THEN tail + 1 ELSE 0
  BY <1>1, <1>2, PlacesAre DEF LInv
<1>4. /\ ~EndsIn /\ EndsIn' /\ Messages = Held /\ Done' = Done /\ Done \in Nat
  BY <1>2 DEF EndsIn, Messages, Done
<1>5. /\ Done + Held = added
      /\ \A k \in 0 .. Held - 1 : entries[At(k)] = Done + k + 1
  BY <1>1, <1>4 DEF LInv, InRing, Overfull
<1>6. /\ entries' \in Seq(Entry) /\ RingSize' = n
      /\ entries'[tail + 1] = EndMark
      /\ \A i \in 1 .. n : i # tail + 1 => entries'[i] = entries[i]
  BY <1>2 DEF RingSize, Entry
<1>7. tail + 1 = At(Held) /\ \A k \in 0 .. Held - 1 : At(k) # tail + 1
  BY <1>2, <1>3 DEF At, Held
<1>8. \A k \in 0 .. n - 1 : At(k)' = At(k)
  BY <1>2, <1>6 DEF At
<1>9. LogTypes'
  <2>1. RingSize' >= 2 /\ head' \in 0 .. RingSize' - 1 /\ tail' \in 0 .. RingSize' - 1
    BY <1>2, <1>3, <1>6
  <2>2. QED
    BY <1>1, <1>2, <1>6, <2>1 DEF LogTypes, Pause
<1>10. Phases' /\ InOrder'
  BY <1>1, <1>2 DEF LInv, Phases, InOrder
<1>11. CASE tail' = head
  <2>1. Held = n - 1
    BY <1>2, <1>3, <1>11 DEF Held
  <2>2. Overfull' /\ Done' + RingSize' - 1 = added'
    BY <1>2, <1>4, <1>5, <1>6, <1>11, <2>1 DEF Overfull
  <2>3. QED
    BY <1>9, <1>10, <2>2 DEF LInv, InRing
<1>12. CASE tail' # head
  <2>1. Held' = Held + 1 /\ ~Overfull' /\ Messages' = Held
    <3>1. Held' = Held + 1
      BY <1>2, <1>3, <1>6, <1>12 DEF Held
    <3>2. QED
      BY <1>2, <1>3, <1>4, <1>12, <3>1 DEF Overfull, Messages
  <2>2. \A k \in 0 .. Held - 1 : entries'[At(k)'] = Done + k + 1
    <3>1. SUFFICES ASSUME NEW k \in 0 .. Held - 1 PROVE entries'[At(k)'] = Done + k + 1
      OBVIOUS
    <3>2. k \in 0 .. n - 1
      BY <1>2, <1>3
    <3>3. QED
      BY <1>3, <1>5, <1>6, <1>7, <1>8, <3>2
  <2>3. entries'[At(Messages)'] = EndMark
    BY <1>3, <1>6, <1>7, <1>8, <2>1
  <2>4. Done' + Messages' = added'
    BY <1>2, <1>4, <1>5, <2>1
  <2>5. QED
    BY <1>3, <1>4, <1>9, <1>10, <2>1, <2>2, <2>3, <2>4 DEF LInv, InRing
<1>13. QED
  BY <1>11, <1>12

\* The main thread's other steps move nothing in the ring.
LEMMA JoinStep == LInv /\ (Joined \/ Resume) => LInv'
<1>1. SUFFICES ASSUME LInv, Joined \/ Resume PROVE LInv'
  OBVIOUS
<1>2. /\ worker = "ended" /\ UNCHANGED <<entries, head, tail, cur, added, printed>>
      /\ worker' \in {"waiting", "ended"} /\ ~joining'
      /\ running' => worker' = "waiting"
      /\ ~running' => worker' = "ended"
      /\ running' \in BOOLEAN /\ joining' \in BOOLEAN
  <2>1. running \in BOOLEAN /\ joining \in BOOLEAN
    BY <1>1 DEF LInv, LogTypes
  <2>2. CASE Joined
    <3>1. ~running
      BY <1>1, <2>2 DEF LInv, Phases, Joined
    <3>2. QED
      BY <2>1, <2>2, <3>1 DEF Joined
  <2>3. CASE Resume
    <3>1. worker = "ended"
      BY <1>1, <2>3 DEF LInv, Phases, Resume
    <3>2. QED
      BY <2>1, <2>3, <3>1 DEF Resume
  <2>4. QED
    BY <1>1, <2>2, <2>3
<1>3. RingSize' = RingSize
  BY <1>2 DEF RingSize
<1>4. head = tail /\ ~EndsIn /\ ~Overfull /\ ~EndsIn' /\ ~Overfull'
  BY <1>1, <1>2 DEF LInv, Phases, EndsIn, Overfull
<1>5. Held = 0 /\ Held' = 0 /\ Messages = 0 /\ Messages' = 0 /\ Done' = Done
  BY <1>1, <1>2, <1>3, <1>4 DEF LInv, LogTypes, Held, Messages, Done
<1>6. InRing'
  BY <1>1, <1>2, <1>4, <1>5 DEF LInv, InRing
<1>7. LogTypes' /\ Phases' /\ InOrder'
  BY <1>1, <1>2, <1>3, <1>4 DEF LInv, LogTypes, Phases, InOrder
<1>8. QED
  BY <1>6, <1>7 DEF LInv

LEMMA StepInv == LInv /\ [LogNext]_logVars => LInv'
<1>1. ASSUME LInv, UNCHANGED logVars PROVE LInv'
  <2>1. /\ LogTypes' /\ Phases' /\ InOrder'
    BY <1>1 DEF LInv, logVars, LogTypes, Phases, InOrder, RingSize
  <2>2. InRing'
    BY <1>1 DEF LInv, logVars, InRing, Overfull, EndsIn, Done, Messages, Held, RingSize, At
  <2>3. QED
    BY <2>1, <2>2 DEF LInv
<1>2. QED
  BY <1>1, AddStep, TakeStep, PrintStep, PauseStep, JoinStep DEF LogNext

\* The ring always holds what add accepted and the worker has not taken.
THEOREM RingInvariant == LogSpec => []LInv
BY InitInv, StepInv, PTL DEF LogSpec

LEMMA ConcatAt ==
    ASSUME NEW s \in Seq(Entry), NEW t \in Seq(Entry), NEW m \in Nat, NEW n \in Nat,
           Len(s) = m, Len(t) = n
    PROVE  /\ s \o t \in Seq(Entry) /\ Len(s \o t) = m + n
           /\ \A i \in 1 .. m + n : (s \o t)[i] = IF i <= m THEN s[i] ELSE t[i - m]
<1>1. DOMAIN (s \o t) = 1 .. m + n
  BY Concat
<1>2. QED
  BY <1>1, Concat

\* Pointwise, LInv says what NothingLost says of whole sequences.
LEMMA InvImplies == LInv => NothingLost
<1>1. SUFFICES ASSUME LInv PROVE NothingLost
  OBVIOUS
<1>2. /\ RingSize \in Nat /\ RingSize >= 2 /\ added \in Nat /\ printed \in Seq(Nat)
      /\ worker \in {"waiting", "printing", "ended"}
      /\ joining \in BOOLEAN
      /\ \A k \in 0 .. RingSize - 1 : ((head + k) % RingSize) + 1 = At(k)
      /\ Count = Held /\ Held \in 0 .. RingSize - 1
      /\ head \in Nat
  BY <1>1, PlacesAre DEF LInv, LogTypes
<1>3. ASSUME ~running, ~joining PROVE worker = "ended" /\ printed = AllAdded
  <2>1. worker = "ended" /\ head = tail /\ ~EndsIn /\ ~Overfull
    BY <1>1, <1>3 DEF LInv, Phases, EndsIn, Overfull
  <2>2. Held = 0
    BY <1>2, <2>1 DEF Held
  <2>3. Done = Len(printed) /\ Messages = 0
    BY <2>1, <2>2 DEF Done, Messages
  <2>4. Len(printed) = added
    BY <1>1, <1>2, <2>1, <2>3 DEF LInv, InRing
  <2>5. \A i \in 1 .. added : printed[i] = i
    BY <1>1, <2>4 DEF LInv, InOrder
  <2>6. QED
    BY <1>2, <2>1, <2>4, <2>5 DEF AllAdded
<1>4. ASSUME ~Overrun, ~(joining /\ worker = "printing" /\ head = tail)
      PROVE  printed \o InHand \o Pending
               = AllAdded \o (IF joining /\ worker # "ended" THEN <<EndMark>> ELSE <<>>)
  <2>1. ~Overfull
    <3>1. SUFFICES ASSUME Overfull PROVE FALSE
      OBVIOUS
    <3>2. joining /\ worker = "waiting" /\ head = tail
      BY <1>2, <1>4, <3>1 DEF Overfull, EndsIn
    <3>3. Len(printed) + RingSize - 1 = added
      BY <1>1, <1>2, <3>1, <3>2 DEF LInv, InRing, Done
    <3>4. QED
      BY <1>2, <1>4, <3>2, <3>3 DEF Overrun
  <2>2. /\ Done + Messages = added
        /\ \A k \in 0 .. Messages - 1 : entries[At(k)] = Done + k + 1
        /\ EndsIn => Messages >= 0 /\ entries[At(Messages)] = EndMark
    BY <1>1, <2>1 DEF LInv, InRing
  <2> DEFINE Mark == IF joining /\ worker # "ended" THEN <<EndMark>> ELSE <<>>
             Taken == printed \o InHand
  <2>3. /\ Taken \in Seq(Nat) /\ Len(Taken) = Done /\ Done \in Nat
        /\ \A i \in 1 .. Done : Taken[i] = i
    <3>1. CASE worker = "printing"
      <4>1. InHand = <<Len(printed) + 1>> /\ Done = Len(printed) + 1
        BY <1>1, <3>1 DEF LInv, InOrder, InHand, Done
      <4>2. QED
        BY <1>1, <1>2, <4>1 DEF LInv, InOrder
    <3>2. CASE worker # "printing"
      <4>1. InHand = <<>> /\ Done = Len(printed)
        BY <1>2, <3>2 DEF InHand, Done
      <4>2. QED
        BY <1>1, <1>2, <4>1 DEF LInv, InOrder
    <3>3. QED
      BY <3>1, <3>2
  <2>4. /\ Pending \in Seq(Entry) /\ Len(Pending) = Held
        /\ \A i \in 1 .. Held : Pending[i] = entries[At(i - 1)]
    <3>1. ASSUME NEW i \in 1 .. Held PROVE entries[((head + i - 1) % RingSize) + 1] = entries[At(i - 1)]
      <4>1. i - 1 \in 0 .. RingSize - 1 /\ head + (i - 1) = head + i - 1
        BY <1>2
      <4>2. QED
        BY <1>2, <4>1
    <3>2. ASSUME NEW i \in 1 .. Held PROVE entries[At(i - 1)] \in Entry
      <4>1. i - 1 \in 0 .. RingSize - 1
        BY <1>2
      <4>2. At(i - 1) \in 1 .. RingSize
        BY <1>1, <4>1, PlacesAre DEF LInv
      <4>3. QED
        BY <1>1, <4>2 DEF LInv, LogTypes, RingSize
    <3>3. Pending = [i \in 1 .. Held |-> entries[((head + i - 1) % RingSize) + 1]]
      BY <1>2 DEF Pending
    <3> HIDE DEF Pending
    <3>4. \A i \in 1 .. Held : Pending[i] = entries[At(i - 1)] /\ Pending[i] \in Entry
      BY <3>1, <3>2, <3>3
    <3>5. Pending \in [1 .. Held -> Entry]
      BY <3>3, <3>4
    <3>6. Held \in Nat
      BY <1>2
    <3>7. QED
      BY <3>4, <3>5, <3>6
  <2> DEFINE marks == IF EndsIn THEN 1 ELSE 0
  <2>5. /\ Mark \in Seq(Entry) /\ Len(Mark) = marks
        /\ marks = 1 => Mark[1] = EndMark /\ entries[At(Messages)] = EndMark
    <3>1. CASE EndsIn
      <4>1. Mark = <<EndMark>> /\ marks = 1
        BY <3>1 DEF EndsIn
      <4> HIDE DEF Mark, marks
      <4>2. Mark \in Seq(Entry) /\ Len(Mark) = 1 /\ Mark[1] = EndMark
        BY <4>1 DEF Entry
      <4>3. QED
        BY <2>2, <3>1, <4>1, <4>2
    <3>2. CASE ~EndsIn
      <4>1. Mark = <<>> /\ marks = 0
        BY <3>2 DEF EndsIn
      <4> HIDE DEF Mark, marks
      <4>2. Mark \in Seq(Entry) /\ Len(Mark) = 0
        BY <4>1
      <4>3. QED
        BY <4>1, <4>2
    <3>3. QED
      BY <3>1, <3>2
  <2>6. AllAdded \in Seq(Nat) /\ Len(AllAdded) = added /\ \A i \in 1 .. added : AllAdded[i] = i
    BY <1>2 DEF AllAdded
  <2> DEFINE left == Taken \o Pending
             right == AllAdded \o Mark
  <2>7. /\ marks \in {0, 1} /\ Messages \in Nat /\ Done \in Nat /\ added \in Nat
        /\ Held = Messages + marks /\ Done + Messages = added
    <3>1. EndsIn => Messages >= 0
      BY <2>2
    <3>2. Done + Messages = added /\ Done \in Nat /\ added \in Nat
      BY <1>2, <2>2, <2>3
    <3>3. QED
      BY <1>2, <3>1, <3>2 DEF Messages
  <2> HIDE DEF Taken, Mark, Pending, AllAdded, marks, left, right
  <2>8. /\ left \in Seq(Entry) /\ Len(left) = Done + Held
        /\ \A i \in 1 .. Done + Held : left[i] = IF i <= Done THEN Taken[i] ELSE Pending[i - Done]
    <3>1. Taken \in Seq(Entry)
      BY <2>3 DEF Entry
    <3>2. /\ Pending \in Seq(Entry) /\ Len(Taken) = Done /\ Len(Pending) = Held
          /\ Done \in Nat /\ Held \in Nat
      BY <1>2, <2>3, <2>4
    <3>3. QED
      BY <3>1, <3>2, ConcatAt DEF left
  <2>9. /\ right \in Seq(Entry) /\ Len(right) = added + marks
        /\ \A i \in 1 .. added + marks : right[i] = IF i <= added THEN AllAdded[i] ELSE Mark[i - added]
    <3>1. AllAdded \in Seq(Entry)
      BY <2>6 DEF Entry
    <3>2. /\ Mark \in Seq(Entry) /\ Len(AllAdded) = added /\ Len(Mark) = marks
          /\ added \in Nat /\ marks \in Nat
      BY <2>5, <2>6, <2>7
    <3>3. QED
      BY <3>1, <3>2, ConcatAt DEF right
  <2>10. Len(left) = Len(right)
    BY <2>8, <2>9, <2>7
  <2>11. ASSUME NEW i \in 1 .. Len(left) PROVE left[i] = right[i]
    <3>1. i \in Nat /\ i <= Done + Held /\ i <= added + marks /\ i >= 1
      BY <2>8, <2>9, <2>7
    <3>2. CASE i <= Done
      <4>1. i \in 1 .. Done /\ i \in 1 .. added /\ i <= added
        BY <2>7, <3>1, <3>2
      <4>2. QED
        BY <2>3, <2>6, <2>8, <2>9, <3>1, <3>2, <4>1
    <3>3. CASE i > Done /\ i <= added
      <4>1. i - Done - 1 \in 0 .. Messages - 1 /\ i - Done \in 1 .. Held
        BY <2>7, <3>1, <3>3
      <4>2. left[i] = entries[At(i - Done - 1)]
        BY <2>3, <2>4, <2>8, <3>1, <3>3, <4>1
      <4>3. left[i] = i
        BY <2>2, <2>3, <3>1, <4>1, <4>2
      <4>4. right[i] = i
        BY <2>6, <2>9, <3>1, <3>3
      <4>5. QED
        BY <4>3, <4>4
    <3>4. CASE i > added
      <4>1. i = added + 1 /\ marks = 1 /\ i - Done = Messages + 1 /\ i > Done /\ i - Done \in 1 .. Held
        BY <2>7, <3>1, <3>4
      <4>2. left[i] = entries[At(i - Done - 1)]
        BY <2>3, <2>4, <2>8, <3>1, <4>1
      <4>3. i - Done - 1 = Messages
        BY <2>7, <3>1, <4>1
      <4>4. left[i] = EndMark
        BY <2>5, <4>1, <4>2, <4>3
      <4>5. right[i] = EndMark
        BY <2>5, <2>9, <2>7, <3>1, <3>4, <4>1
      <4>6. QED
        BY <4>4, <4>5
    <3>5. QED
      BY <2>7, <3>1, <3>2, <3>3, <3>4
  <2>12. left = right
    BY <2>8, <2>9, <2>10, <2>11
  <2>13. QED
    BY <2>12 DEF Taken, Mark, left, right
<1>5. QED
  BY <1>3, <1>4 DEF NothingLost

\* For a ring of any size, any number of messages and of pauses: the messages
\* printed, the one in hand and those in the ring are those that add accepted, in
\* order; and pause returns with all of them printed, unless its end mark filled
\* the ring.
THEOREM LogLosesNothing == LogSpec => []NothingLost
BY RingInvariant, InvImplies, PTL

-----------------------------------------------------------------------------
(* The budget sampler.                                                     *)

Budgets ==
    [state : {"IDLE", "COUNTING", "WARN_FORCING", "FORCING", "WAITING_UTF8", "DONE"},
     start : Nat, end : Nat, remaining : Int, warned : BOOLEAN, warnPos : Nat, forcePos : Nat]

\* A sampler without a budget never counts: the blocks it sees are closed at once.
Sound(b) == b \in Budgets /\ (Budget = 0 => b.state \in {"IDLE", "FORCING", "DONE"})

LEMMA AdvanceType ==
    ASSUME NEW tokens, NEW pos \in Nat, NEW x
    PROVE  Advance(tokens, pos, x) \in Nat
BY DEF Advance

LEMMA FreshSound == Sound(InitState("IDLE"))
BY BudgetAssumption DEF Sound, InitState, Budgets

LEMMA ActivatedSound ==
    ASSUME NEW b \in Budgets
    PROVE  Sound(Activated(b))
<1> DEFINE forced == [b EXCEPT !.state = "FORCING", !.remaining = Budget, !.forcePos = 0]
           counts == [b EXCEPT !.state = "COUNTING", !.remaining = Budget]
<1>1. Budget \in Int
  BY BudgetAssumption
<1>2. forced \in Budgets /\ forced.state = "FORCING" /\ counts \in Budgets
  BY <1>1 DEF Budgets
<1>3. Activated(b) = IF Budget <= 0 THEN forced ELSE counts
  BY DEF Activated
<1> HIDE DEF forced, counts
<1>4. QED
  BY <1>2, <1>3, BudgetAssumption DEF Sound

LEMMA SpentSound ==
    ASSUME NEW b \in Budgets, NEW x, Budget # 0
    PROVE  Sound(Spent(b, x))
<1> DEFINE left == b.remaining - 1
           warns == ~b.warned /\ WarnTokens # <<>> /\ Complete(x) /\ left <= WarnAt /\ left > 0
           warning == [b EXCEPT !.remaining = left, !.warned = TRUE, !.warnPos = 0, !.end = 0,
                                !.state = "WARN_FORCING"]
           forced == [b EXCEPT !.remaining = left, !.state = "FORCING", !.forcePos = 0, !.end = 0]
           waits == [b EXCEPT !.remaining = left, !.state = "WAITING_UTF8", !.end = 0]
           counts == [b EXCEPT !.remaining = left]
<1>1. left \in Int /\ b.warned \in BOOLEAN
  BY DEF Budgets
<1>2. Spent(b, x) = CASE warns -> warning
                      [] ~warns /\ left <= 0 /\ Complete(x) -> forced
                      [] ~warns /\ left <= 0 /\ ~Complete(x) -> waits
                      [] ~warns /\ left > 0 -> counts
  BY DEF Spent
<1> HIDE DEF left
<1>3. warning \in Budgets /\ forced \in Budgets /\ waits \in Budgets /\ counts \in Budgets
  BY <1>1 DEF Budgets
<1> HIDE DEF warns, warning, forced, waits, counts
<1>4. Spent(b, x) \in Budgets
  BY <1>1, <1>2, <1>3
<1>5. QED
  BY <1>4 DEF Sound

LEMMA AcceptSound ==
    ASSUME NEW b, Sound(b), NEW x
    PROVE  Sound(BudgetAccept(b, x))
<1>1. /\ b \in Budgets /\ (Budget = 0 => b.state \in {"IDLE", "FORCING", "DONE"})
      /\ b.start \in Nat /\ b.end \in Nat
  BY DEF Sound, Budgets
<1>2. CASE b.state \in {"IDLE", "DONE"}
  <2> DEFINE seen == [b EXCEPT !.start = Advance(StartTokens, b.start, x)]
             reset == [seen EXCEPT !.end = 0, !.warned = FALSE, !.warnPos = 0]
  <2>1. Advance(StartTokens, b.start, x) \in Nat
    BY <1>1, AdvanceType
  <2>2. seen \in Budgets /\ seen.state = b.state
    BY <1>1, <2>1 DEF Budgets
  <2>3. reset \in Budgets
    BY <2>2 DEF Budgets
  <2>4. Sound(seen)
    BY <1>1, <2>2 DEF Sound
  <2>5. BudgetAccept(b, x) \in {seen, Activated(seen), Activated(reset)}
    BY <1>2 DEF BudgetAccept, InIdle, InDone
  <2> HIDE DEF seen, reset
  <2>6. QED
    BY <2>2, <2>3, <2>4, <2>5, ActivatedSound
<1>3. CASE b.state \in {"COUNTING", "WAITING_UTF8"}
  <2> DEFINE seen == [b EXCEPT !.end = Advance(EndTokens, b.end, x)]
  <2>1. Advance(EndTokens, b.end, x) \in Nat
    BY <1>1, AdvanceType
  <2>2. seen \in Budgets
    BY <1>1, <2>1 DEF Budgets
  <2>3. BudgetAccept(b, x) \in {[seen EXCEPT !.state = "DONE"], Spent(seen, x), seen,
                                [seen EXCEPT !.state = "FORCING", !.forcePos = 0, !.end = 0]}
    BY <1>3 DEF BudgetAccept, InThinking
  <2> HIDE DEF seen
  <2>4. Budget # 0
    BY <1>1, <1>3
  <2>5. Sound([seen EXCEPT !.state = "DONE"]) /\ Sound(seen)
        /\ Sound([seen EXCEPT !.state = "FORCING", !.forcePos = 0, !.end = 0])
    BY <2>2, <2>4 DEF Sound, Budgets
  <2>6. QED
    BY <2>2, <2>3, <2>4, <2>5, SpentSound
<1>4. CASE b.state = "WARN_FORCING"
  <2> DEFINE next == b.warnPos + 1
  <2>1. Budget # 0 /\ next \in Nat
    BY <1>1, <1>4 DEF Budgets
  <2> DEFINE done == [b EXCEPT !.warnPos = next, !.state = "COUNTING", !.end = 0]
             more == [b EXCEPT !.warnPos = next]
  <2>2. BudgetAccept(b, x) \in {done, more}
    BY <1>4 DEF BudgetAccept, InWarning
  <2> HIDE DEF next
  <2>3. done \in Budgets /\ more \in Budgets
    BY <1>1, <2>1 DEF Budgets
  <2> HIDE DEF done, more
  <2>4. QED
    BY <2>1, <2>2, <2>3 DEF Sound
<1>5. CASE b.state = "FORCING"
  <2> DEFINE next == b.forcePos + 1
             done == [b EXCEPT !.forcePos = next, !.state = "DONE"]
             more == [b EXCEPT !.forcePos = next]
  <2>1. next \in Nat
    BY <1>1 DEF Budgets
  <2>2. BudgetAccept(b, x) \in {done, more}
    BY <1>5 DEF BudgetAccept, InForcing
  <2> HIDE DEF next
  <2>3. /\ done \in Budgets /\ more \in Budgets
        /\ done.state = "DONE" /\ more.state = "FORCING"
    BY <1>1, <1>5, <2>1 DEF Budgets
  <2> HIDE DEF done, more
  <2>4. QED
    BY <2>2, <2>3 DEF Sound
<1>6. QED
  BY <1>1, <1>2, <1>3, <1>4, <1>5 DEF Budgets

\* The copy of a sampler is the sampler.
LEMMA CloneIsSame ==
    ASSUME NEW b, Sound(b)
    PROVE  Clone(b) = b
<1>1. b \in Budgets /\ ~(b.state = "COUNTING" /\ Budget <= 0)
  BY BudgetAssumption DEF Sound
<1> DEFINE fresh == InitState(b.state)
           copy == [fresh EXCEPT !.remaining = b.remaining, !.start = b.start, !.end = b.end,
                                 !.forcePos = b.forcePos, !.warned = b.warned, !.warnPos = b.warnPos]
<1>2. fresh \in Budgets /\ fresh.state = b.state
  BY <1>1, BudgetAssumption DEF InitState, Budgets
<1> HIDE DEF fresh
<1>3. copy \in Budgets /\ copy.state = b.state
  BY <1>1, <1>2 DEF Budgets
<1>4. /\ copy.remaining = b.remaining /\ copy.start = b.start /\ copy.end = b.end
      /\ copy.forcePos = b.forcePos /\ copy.warned = b.warned /\ copy.warnPos = b.warnPos
  BY <1>2 DEF Budgets
<1>5. Clone(b) = copy
  BY DEF Clone, fresh
<1> HIDE DEF copy
<1>6. QED
  BY <1>1, <1>3, <1>4, <1>5 DEF Budgets

\* The samplers without a budget never count.
Sounds == {b \in Budgets : Sound(b)}

LEMMA RunIs ==
    ASSUME NEW t, Len(t) \in Nat, NEW b \in Sounds, NEW g \in [0 .. Len(t) -> Sounds], g[0] = b,
           \A i \in 1 .. Len(t) : g[i] = BudgetAccept(g[i - 1], t[i])
    PROVE  BudgetAfter(b, t) = g[Len(t)]
<1> DEFINE n == Len(t)
           Is(h) == h = [i \in 0 .. n |-> IF i = 0 THEN b ELSE LET before == h[i - 1] IN BudgetAccept(before, t[i])]
           h == CHOOSE f : Is(f)
<1>1. Is(g)
  <2>1. ASSUME NEW i \in 0 .. n PROVE g[i] = IF i = 0 THEN b ELSE BudgetAccept(g[i - 1], t[i])
    <3>1. i # 0 => i \in 1 .. n
      OBVIOUS
    <3>2. QED
      BY <3>1
  <2>2. QED
    BY <2>1
<1>2. BudgetAfter(b, t) = h[n]
  BY DEF BudgetAfter
<1>3. Is(h)
  <2> HIDE DEF Is
  <2>1. QED
    BY <1>1
<1>4. /\ h[0] = b
      /\ \A i \in 1 .. n : h[i] = BudgetAccept(h[i - 1], t[i])
  <2> HIDE DEF h
  <2>1. ASSUME NEW i \in 0 .. n PROVE h[i] = IF i = 0 THEN b ELSE BudgetAccept(h[i - 1], t[i])
    BY <1>3
  <2>2. 0 \in 0 .. n
    OBVIOUS
  <2>3. \A i \in 1 .. n : i \in 0 .. n /\ i # 0
    OBVIOUS
  <2>4. QED
    BY <2>1, <2>2, <2>3
<1> DEFINE N == {m \in Nat : m <= n => h[m] = g[m]}
<1> HIDE DEF h
<1>5. 0 \in N
  BY <1>4
<1>6. ASSUME NEW m \in N PROVE m + 1 \in N
  <2>1. SUFFICES ASSUME m + 1 <= n PROVE h[m + 1] = g[m + 1]
    BY <1>6
  <2>2. m + 1 \in 1 .. n /\ m + 1 - 1 = m /\ h[m] = g[m]
    BY <1>6, <2>1
  <2>3. QED
    BY <1>4, <2>2
<1>7. N = Nat
  <2> HIDE DEF N
  <2>1. N \in SUBSET Nat
    BY DEF N
  <2>2. QED
    BY <1>5, <1>6, <2>1, NatInductionSet
<1>8. h[n] = g[n]
  BY <1>7
<1>9. QED
  BY <1>2, <1>8

\* What a sampler is after some tokens, and after one more.
LEMMA BudgetRun ==
    ASSUME NEW T, NEW s \in Seq(T), NEW b \in Sounds
    PROVE  /\ BudgetAfter(b, s) \in Sounds
           /\ BudgetAfter(b, <<>>) = b
           /\ \A x \in T : BudgetAfter(b, Append(s, x)) = BudgetAccept(BudgetAfter(b, s), x)
<1>1. ASSUME NEW t \in Seq(T)
      PROVE  \E g \in [0 .. Len(t) -> Sounds] :
                /\ g[0] = b
                /\ \A i \in 1 .. Len(t) : g[i] = BudgetAccept(g[i - 1], t[i])
  <2> DEFINE step == [i \in 1 .. Len(t) |-> [c \in Sounds |-> BudgetAccept(c, t[i])]]
  <2>1. step \in [1 .. Len(t) -> [Sounds -> Sounds]]
    <3>1. \A i \in 1 .. Len(t) : \A c \in Sounds : BudgetAccept(c, t[i]) \in Sounds
      BY AcceptSound DEF Sounds, Sound
    <3>2. QED
      BY <3>1
  <2>2. PICK g \in [0 .. Len(t) -> Sounds] :
           g[0] = b /\ \A i \in 1 .. Len(t) : g[i] = step[i][g[i - 1]]
    <3>1. Steps(step, Len(t), Sounds) /\ Len(t) \in Nat
      BY <2>1 DEF Steps
    <3> HIDE DEF step
    <3>2. HasRun(step, Len(t), Sounds, b)
      BY <3>1, RecursionExists
    <3>3. QED
      BY <3>2 DEF HasRun
  <2>3. ASSUME NEW i \in 1 .. Len(t) PROVE g[i] = BudgetAccept(g[i - 1], t[i])
    <3>1. i - 1 \in 0 .. Len(t)
      OBVIOUS
    <3>2. g[i - 1] \in Sounds
      BY <3>1
    <3>3. QED
      BY <2>2, <3>2
  <2>4. QED
    BY <2>2, <2>3
<1>2. PICK g \in [0 .. Len(s) -> Sounds] :
         g[0] = b /\ \A i \in 1 .. Len(s) : g[i] = BudgetAccept(g[i - 1], s[i])
  BY <1>1
<1>3. BudgetAfter(b, s) = g[Len(s)] /\ g[Len(s)] \in Sounds
  BY <1>2, RunIs
<1>4. BudgetAfter(b, <<>>) = b
  <2>1. <<>> \in Seq(T) /\ Len(<<>>) = 0
    OBVIOUS
  <2>2. PICK e \in [0 .. Len(<<>>) -> Sounds] :
           e[0] = b /\ \A i \in 1 .. Len(<<>>) : e[i] = BudgetAccept(e[i - 1], (<<>>)[i])
    BY <1>1, <2>1
  <2>3. BudgetAfter(b, <<>>) = e[Len(<<>>)]
    BY <2>1, <2>2, RunIs
  <2>4. QED
    BY <2>1, <2>2, <2>3
<1>5. ASSUME NEW x \in T PROVE BudgetAfter(b, Append(s, x)) = BudgetAccept(BudgetAfter(b, s), x)
  <2> DEFINE t == Append(s, x)
             n == Len(s)
  <2>1. /\ t \in Seq(T) /\ Len(t) = n + 1 /\ t[n + 1] = x /\ n \in Nat
        /\ \A i \in 1 .. n : t[i] = s[i]
    OBVIOUS
  <2> HIDE DEF t
  <2>2. PICK e \in [0 .. Len(t) -> Sounds] :
           e[0] = b /\ \A i \in 1 .. Len(t) : e[i] = BudgetAccept(e[i - 1], t[i])
    BY <1>1, <2>1
  <2>3. BudgetAfter(b, t) = e[n + 1]
    BY <2>1, <2>2, RunIs
  <2>4. e[n + 1] = BudgetAccept(e[n], x)
    <3>1. n + 1 \in 1 .. Len(t) /\ n + 1 - 1 = n
      BY <2>1
    <3>2. QED
      BY <2>1, <2>2, <3>1
  <2>5. BudgetAfter(b, s) = e[n]
    <3> DEFINE f == [i \in 0 .. n |-> e[i]]
    <3>1. f \in [0 .. Len(s) -> Sounds]
      <4>1. \A i \in 0 .. n : i \in 0 .. Len(t)
        BY <2>1
      <4>2. QED
        BY <4>1
    <3>2. ASSUME NEW i \in 1 .. Len(s) PROVE f[i] = BudgetAccept(f[i - 1], s[i])
      <4>1. i \in 0 .. n /\ i - 1 \in 0 .. n /\ i \in 1 .. Len(t)
        BY <2>1
      <4>2. f[i] = e[i] /\ f[i - 1] = e[i - 1]
        BY <4>1
      <4>3. QED
        BY <2>1, <2>2, <4>1, <4>2
    <3>3. f[0] = b /\ f[Len(s)] = e[n]
      BY <2>1, <2>2
    <3> HIDE DEF f
    <3>4. QED
      BY <2>1, <3>1, <3>2, <3>3, RunIs
  <2>6. QED
    BY <2>3, <2>4, <2>5 DEF t
<1>6. QED
  BY <1>3, <1>4, <1>5

-----------------------------------------------------------------------------
(* The sampler, and what decoding one token at a time emits.               *)

Chosen == UNION {Range(text) : text \in Truths}
Tokens == Chosen \union {Prompt, Noise, Miss} \union Range(WarnTokens) \union Range(ForcedTokens)

\* The sampler that has accepted the tokens of s.
Follow(s) == [budget |-> BudgetAfter(FreshSampler.budget, s), prev |-> s]
Samplers == [budget : Sounds, prev : Seq(Tokens)]

LEMMA TokensOf ==
    /\ \A text \in Truths : text \in Seq(Tokens)
    /\ WarnTokens \in Seq(Tokens) /\ ForcedTokens \in Seq(Tokens)
    /\ Prompt \in Tokens /\ Noise \in Tokens /\ Miss \in Tokens
<1>1. ASSUME NEW text, text \in Seq(Range(text)), Range(text) \subseteq Tokens PROVE text \in Seq(Tokens)
  BY <1>1
<1>2. ASSUME NEW text \in Truths PROVE text \in Seq(Tokens)
  <2>1. Range(text) \subseteq Chosen
    BY DEF Chosen
  <2>2. Chosen \subseteq Tokens
    BY DEF Tokens
  <2>3. QED
    BY <1>1, <2>1, <2>2, TextAssumption
<1>3. Range(WarnTokens) \subseteq Tokens /\ Range(ForcedTokens) \subseteq Tokens
  BY DEF Tokens
<1>4. WarnTokens \in Seq(Tokens) /\ ForcedTokens \in Seq(Tokens)
  <2>1. WarnTokens \in Seq(Range(WarnTokens)) /\ ForcedTokens \in Seq(Range(ForcedTokens))
    BY TextAssumption
  <2>2. QED
    BY <1>1, <1>3, <2>1
<1>5. Prompt \in Tokens /\ Noise \in Tokens /\ Miss \in Tokens
  BY DEF Tokens
<1>6. QED
  BY <1>2, <1>4, <1>5

LEMMA FreshBudget == FreshSampler.budget \in Sounds /\ FreshSampler = Follow(<<>>)
<1>1. InitState("IDLE") \in Sounds
  BY FreshSound DEF Sounds, Sound
<1>2. Prefill \in Seq(Range(Prefill))
  BY TextAssumption
<1>3. BudgetAfter(InitState("IDLE"), Prefill) \in Sounds
  BY <1>1, <1>2, BudgetRun
<1>4. FreshSampler.budget \in Sounds
  BY <1>3 DEF FreshSampler
<1>5. BudgetAfter(FreshSampler.budget, <<>>) = FreshSampler.budget
  <2>1. <<>> \in Seq({})
    OBVIOUS
  <2>2. QED
    BY <1>4, <2>1, BudgetRun
<1>6. QED
  BY <1>4, <1>5 DEF FreshSampler, Follow

LEMMA FollowIs ==
    ASSUME NEW s \in Seq(Tokens)
    PROVE  /\ Follow(s) \in Samplers
           /\ Cloned(Follow(s)) = Follow(s)
           /\ \A x \in Tokens : Accepted(Follow(s), x) = Follow(Append(s, x))
<1> DEFINE b == FreshSampler.budget
<1>1. b \in Sounds
  BY FreshBudget
<1> HIDE DEF b
<1>2. /\ BudgetAfter(b, s) \in Sounds
      /\ \A x \in Tokens : BudgetAfter(b, Append(s, x)) = BudgetAccept(BudgetAfter(b, s), x)
  BY <1>1, BudgetRun
<1>3. Follow(s) = [budget |-> BudgetAfter(b, s), prev |-> s]
  BY DEF Follow, b
<1>4. Follow(s) \in Samplers
  BY <1>2, <1>3 DEF Samplers
<1>5. Clone(BudgetAfter(b, s)) = BudgetAfter(b, s)
  BY <1>2, CloneIsSame DEF Sounds
<1>6. Cloned(Follow(s)) = Follow(s)
  BY <1>3, <1>5 DEF Cloned
<1>7. ASSUME NEW x \in Tokens PROVE Accepted(Follow(s), x) = Follow(Append(s, x))
  <2>1. Follow(Append(s, x)) = [budget |-> BudgetAfter(b, Append(s, x)), prev |-> Append(s, x)]
    BY DEF Follow, b
  <2>2. QED
    BY <1>2, <1>3, <2>1 DEF Accepted
<1>8. QED
  BY <1>4, <1>6, <1>7

LEMMA SampledType ==
    ASSUME NEW smpl \in Samplers, NEW choice \in Tokens
    PROVE  /\ Sampled(smpl, choice) \in Tokens
           /\ \A x \in Tokens : Accepted(smpl, x) \in Samplers
<1> DEFINE b == smpl.budget
<1>1. b \in Sounds /\ smpl.prev \in Seq(Tokens)
  BY DEF Samplers
<1>2. b.warnPos \in Nat /\ b.forcePos \in Nat
  BY <1>1 DEF Sounds, Budgets
<1>3. BudgetForces(b) # <<>> => Head(BudgetForces(b)) \in Tokens
  <2>1. CASE b.state = "WARN_FORCING" /\ b.warnPos < Len(WarnTokens)
    <3>1. BudgetForces(b) = <<WarnTokens[b.warnPos + 1]>>
      BY <2>1 DEF BudgetForces
    <3>2. WarnTokens[b.warnPos + 1] \in Tokens
      BY <1>2, <2>1, TokensOf
    <3>3. QED
      BY <3>1, <3>2
  <2>2. CASE b.state = "FORCING" /\ b.forcePos < Len(ForcedTokens)
    <3>1. BudgetForces(b) = <<ForcedTokens[b.forcePos + 1]>>
      BY <2>2 DEF BudgetForces
    <3>2. ForcedTokens[b.forcePos + 1] \in Tokens
      BY <1>2, <2>2, TokensOf
    <3>3. QED
      BY <3>1, <3>2
  <2>3. CASE ~(b.state = "WARN_FORCING" /\ b.warnPos < Len(WarnTokens))
             /\ ~(b.state = "FORCING" /\ b.forcePos < Len(ForcedTokens))
    BY <2>3 DEF BudgetForces
  <2>4. QED
    BY <2>1, <2>2, <2>3
<1>4. Sampled(smpl, choice) \in Tokens
  BY <1>3 DEF Sampled
<1>5. ASSUME NEW x \in Tokens PROVE Accepted(smpl, x) \in Samplers
  <2>1. BudgetAccept(b, x) \in Sounds
    BY <1>1, AcceptSound DEF Sounds, Sound
  <2>2. QED
    BY <1>1, <2>1 DEF Accepted, Samplers
<1>6. QED
  BY <1>4, <1>5

\* One token of plain decoding: what was sampled so far, and the choice.
Takes(was, choice) ==
    [smpl |-> Accepted(was.smpl, Sampled(was.smpl, choice)),
     ids |-> Append(was.ids, Sampled(was.smpl, choice))]
Decoded == [smpl : Samplers, ids : Seq(Tokens)]

LEMMA TakesType ==
    ASSUME NEW was \in Decoded, NEW choice \in Tokens
    PROVE  Takes(was, choice) \in Decoded
BY SampledType DEF Takes, Decoded

\* g is the run of plain decoding from smpl with the choices.
PlainRun(g, smpl, choices) ==
    /\ g \in [0 .. Len(choices) -> Decoded]
    /\ g[0] = [smpl |-> smpl, ids |-> <<>>]
    /\ \A i \in 1 .. Len(choices) : g[i] = Takes(g[i - 1], choices[i])

LEMMA PlainRunExists ==
    ASSUME NEW smpl \in Samplers, NEW choices \in Seq(Tokens)
    PROVE  \E g : PlainRun(g, smpl, choices)
<1> DEFINE n == Len(choices)
           first == [smpl |-> smpl, ids |-> <<>>]
           step == [i \in 1 .. n |-> [was \in Decoded |-> Takes(was, choices[i])]]
<1>1. n \in Nat /\ first \in Decoded
  BY DEF Decoded
<1>2. Steps(step, n, Decoded)
  <2>1. \A i \in 1 .. n : choices[i] \in Tokens
    OBVIOUS
  <2>2. \A i \in 1 .. n : \A was \in Decoded : Takes(was, choices[i]) \in Decoded
    BY <2>1, TakesType
  <2>3. QED
    BY <2>2 DEF Steps
<1>3. PICK g \in [0 .. n -> Decoded] : g[0] = first /\ \A i \in 1 .. n : g[i] = step[i][g[i - 1]]
  <2> HIDE DEF step, n, first
  <2>1. HasRun(step, n, Decoded, first)
    BY <1>1, <1>2, RecursionExists
  <2>2. QED
    BY <2>1 DEF HasRun
<1>4. ASSUME NEW i \in 1 .. n PROVE g[i] = Takes(g[i - 1], choices[i])
  <2>1. i - 1 \in 0 .. n
    OBVIOUS
  <2>2. g[i - 1] \in Decoded
    BY <2>1
  <2>3. QED
    BY <1>3, <2>2
<1>5. QED
  BY <1>3, <1>4 DEF PlainRun

LEMMA PlainIs ==
    ASSUME NEW smpl \in Samplers, NEW choices \in Seq(Tokens), NEW g, PlainRun(g, smpl, choices)
    PROVE  Plain(smpl, choices) = g[Len(choices)].ids
<1> DEFINE n == Len(choices)
           Is(h) == h = [i \in 0 .. n |->
                          IF i = 0 THEN [smpl |-> smpl, ids |-> <<>>]
                          ELSE LET was == h[i - 1]
                                   id == Sampled(was.smpl, choices[i])
                               IN [smpl |-> Accepted(was.smpl, id), ids |-> Append(was.ids, id)]]
           h == CHOOSE f : Is(f)
<1>0. /\ g \in [0 .. n -> Decoded] /\ n \in Nat
      /\ g[0] = [smpl |-> smpl, ids |-> <<>>]
      /\ \A i \in 1 .. n : g[i] = Takes(g[i - 1], choices[i])
  BY DEF PlainRun
<1>1. Is(g)
  <2>1. ASSUME NEW i \in 0 .. n
        PROVE  g[i] = IF i = 0 THEN [smpl |-> smpl, ids |-> <<>>] ELSE Takes(g[i - 1], choices[i])
    <3>1. i # 0 => i \in 1 .. n
      BY <1>0
    <3>2. QED
      BY <1>0, <3>1
  <2>2. QED
    BY <1>0, <2>1 DEF Takes
<1>2. Plain(smpl, choices) = h[n].ids
  BY DEF Plain
<1>3. Is(h)
  <2> HIDE DEF Is
  <2>1. QED
    BY <1>1
<1>4. /\ h[0] = [smpl |-> smpl, ids |-> <<>>]
      /\ \A i \in 1 .. n : h[i] = Takes(h[i - 1], choices[i])
  <2> HIDE DEF h
  <2>1. ASSUME NEW i \in 0 .. n
        PROVE  h[i] = IF i = 0 THEN [smpl |-> smpl, ids |-> <<>>] ELSE Takes(h[i - 1], choices[i])
    BY <1>3 DEF Takes
  <2>2. 0 \in 0 .. n
    BY <1>0
  <2>3. \A i \in 1 .. n : i \in 0 .. n /\ i # 0
    BY <1>0
  <2>4. QED
    BY <2>1, <2>2, <2>3
<1> DEFINE N == {m \in Nat : m <= n => h[m] = g[m]}
<1> HIDE DEF h
<1>5. 0 \in N
  BY <1>0, <1>4
<1>6. ASSUME NEW m \in N, m + 1 <= n PROVE m + 1 \in N
  <2>1. m + 1 \in 1 .. n /\ m + 1 - 1 = m /\ h[m] = g[m]
    BY <1>0, <1>6
  <2>2. h[m + 1] = g[m + 1]
    BY <1>0, <1>4, <2>1
  <2>3. QED
    BY <2>2
<1>7. n \in N
  <2>1. N \in SUBSET Nat
    OBVIOUS
  <2> HIDE DEF N
  <2>2. n \in 0 .. n
    BY <1>0
  <2>3. QED
    BY <1>0, <1>5, <1>6, <2>1, <2>2, InductionUpTo
<1>8. QED
  BY <1>0, <1>2, <1>7

LEMMA PlainType ==
    ASSUME NEW smpl \in Samplers, NEW choices \in Seq(Tokens)
    PROVE  Plain(smpl, choices) \in Seq(Tokens) /\ Len(Plain(smpl, choices)) = Len(choices)
<1> DEFINE n == Len(choices)
<1>1. PICK g : PlainRun(g, smpl, choices)
  BY PlainRunExists
<1>2. /\ g \in [0 .. n -> Decoded] /\ n \in Nat
      /\ g[0] = [smpl |-> smpl, ids |-> <<>>]
      /\ \A i \in 1 .. n : g[i] = Takes(g[i - 1], choices[i])
  BY <1>1 DEF PlainRun
<1>3. \A i \in 0 .. n : g[i].ids \in Seq(Tokens)
  BY <1>2 DEF Decoded
<1> DEFINE N == {m \in Nat : m <= n => Len(g[m].ids) = m}
<1>4. 0 \in N
  <2>1. g[0].ids = <<>>
    BY <1>2
  <2>2. QED
    BY <2>1
<1>5. ASSUME NEW m \in N, m + 1 <= n PROVE m + 1 \in N
  <2>1. m + 1 \in 1 .. n /\ m + 1 - 1 = m /\ Len(g[m].ids) = m /\ m \in 0 .. n
    BY <1>2, <1>5
  <2>2. g[m + 1].ids = Append(g[m].ids, Sampled(g[m].smpl, choices[m + 1]))
    <3>1. g[m + 1] = Takes(g[m], choices[m + 1])
      BY <1>2, <2>1
    <3>2. QED
      BY <3>1 DEF Takes
  <2>3. Len(g[m + 1].ids) = m + 1
    <3>1. g[m].ids \in Seq(Tokens)
      BY <1>3, <2>1
    <3>2. QED
      BY <2>1, <2>2, <3>1
  <2>4. QED
    BY <2>3
<1>6. n \in N
  <2>1. N \in SUBSET Nat
    OBVIOUS
  <2> HIDE DEF N
  <2>2. n \in 0 .. n
    BY <1>2
  <2>3. QED
    BY <1>2, <1>4, <1>5, <2>1, <2>2, InductionUpTo
<1>7. Plain(smpl, choices) = g[n].ids
  BY <1>1, PlainIs
<1>8. n \in 0 .. n
  BY <1>2
<1>9. QED
  BY <1>3, <1>6, <1>7, <1>8

\* What plain decoding of an answer emits: each token is what the sampler that
\* accepted the ones before it makes of the model's choice.
LEMMA PlainOf ==
    ASSUME NEW text \in Truths, NEW p, p = Plain(FreshSampler, text)
    PROVE  /\ p \in Seq(Tokens) /\ Len(p) = Len(text)
           /\ \A i \in 1 .. Len(text) :
                 p[i] = Sampled(Follow(SubSeq(p, 1, i - 1)), text[i])
<1> DEFINE n == Len(text)
<1>1. text \in Seq(Tokens) /\ FreshSampler \in Samplers /\ FreshSampler = Follow(<<>>)
  <2>1. <<>> \in Seq(Tokens)
    OBVIOUS
  <2>2. QED
    BY <2>1, TokensOf, FreshBudget, FollowIs
<1>2. p \in Seq(Tokens) /\ Len(p) = n
  BY <1>1, PlainType
<1>3. PICK g : PlainRun(g, FreshSampler, text)
  BY <1>1, PlainRunExists
<1>4. /\ g \in [0 .. n -> Decoded] /\ n \in Nat
      /\ g[0] = [smpl |-> FreshSampler, ids |-> <<>>]
      /\ \A i \in 1 .. n : g[i] = Takes(g[i - 1], text[i])
  BY <1>1, <1>3 DEF PlainRun
<1>5. p = g[n].ids
  BY <1>1, <1>3, PlainIs
<1>6. \A m \in 0 .. n : g[m].ids \in Seq(Tokens) /\ g[m].smpl \in Samplers
  BY <1>4 DEF Decoded
<1> DEFINE sampledAt(i) == Sampled(g[i - 1].smpl, text[i])
<1>7. ASSUME NEW i \in 1 .. n
      PROVE  /\ g[i - 1].ids \in Seq(Tokens) /\ sampledAt(i) \in Tokens
             /\ g[i].ids = Append(g[i - 1].ids, sampledAt(i))
             /\ g[i].smpl = Accepted(g[i - 1].smpl, sampledAt(i))
  <2>1. i - 1 \in 0 .. n /\ text[i] \in Tokens
    BY <1>1, <1>4
  <2>2. g[i] = Takes(g[i - 1], text[i])
    BY <1>4
  <2>3. sampledAt(i) \in Tokens
    BY <1>6, <2>1, SampledType
  <2>4. QED
    BY <1>6, <2>1, <2>2, <2>3 DEF Takes
<1> HIDE DEF sampledAt
<1> DEFINE Good(m) ==
             /\ Len(g[m].ids) = m /\ g[m].smpl = Follow(g[m].ids)
             /\ \A i \in 1 .. m : g[m].ids[i] = sampledAt(i)
           N == {m \in Nat : m <= n => Good(m)}
<1>8. 0 \in N
  <2>1. g[0].ids = <<>> /\ g[0].smpl = Follow(<<>>)
    BY <1>1, <1>4
  <2>2. QED
    BY <2>1
<1>9. ASSUME NEW m \in N, m + 1 <= n PROVE m + 1 \in N
  <2>1. m \in Nat /\ m + 1 \in 1 .. n /\ m + 1 - 1 = m /\ Good(m)
    BY <1>4, <1>9
  <2> HIDE DEF Good
  <2>2. /\ g[m].ids \in Seq(Tokens) /\ sampledAt(m + 1) \in Tokens
        /\ g[m + 1].ids = Append(g[m].ids, sampledAt(m + 1))
        /\ g[m + 1].smpl = Accepted(g[m].smpl, sampledAt(m + 1))
    BY <1>7, <2>1
  <2>3. Len(g[m].ids) = m /\ g[m].smpl = Follow(g[m].ids) /\ \A i \in 1 .. m : g[m].ids[i] = sampledAt(i)
    BY <2>1 DEF Good
  <2>4. g[m + 1].smpl = Follow(g[m + 1].ids)
    BY <2>2, <2>3, FollowIs
  <2>5. Len(g[m + 1].ids) = m + 1
    BY <2>2, <2>3
  <2>6. ASSUME NEW i \in 1 .. m + 1 PROVE g[m + 1].ids[i] = sampledAt(i)
    <3>1. CASE i = m + 1
      BY <2>1, <2>2, <2>3, <3>1
    <3>2. CASE i # m + 1
      <4>1. i \in 1 .. m
        BY <2>1, <3>2
      <4>2. QED
        BY <2>1, <2>2, <2>3, <4>1
    <3>3. QED
      BY <3>1, <3>2
  <2>7. QED
    BY <2>1, <2>4, <2>5, <2>6 DEF Good
<1>10. \A m \in 0 .. n : Good(m)
  <2>1. N \in SUBSET Nat
    OBVIOUS
  <2> HIDE DEF N
  <2>2. \A m \in 0 .. n : m \in N
    BY <1>4, <1>8, <1>9, <2>1, InductionUpTo
  <2>3. QED
    BY <1>4, <2>2 DEF N
<1>11. ASSUME NEW i \in 1 .. n PROVE p[i] = Sampled(Follow(SubSeq(p, 1, i - 1)), text[i])
  <2>1. i - 1 \in 0 .. n /\ n \in 0 .. n
    BY <1>4
  <2>2. Good(i - 1) /\ Good(n)
    BY <1>10, <2>1
  <2>3. \A k \in 1 .. n : p[k] = sampledAt(k)
    BY <1>5, <2>2
  <2>4. SubSeq(p, 1, i - 1) = g[i - 1].ids
    <3> DEFINE l == SubSeq(p, 1, i - 1)
               r == g[i - 1].ids
    <3>1. l \in Seq(Tokens) /\ Len(l) = i - 1 /\ \A k \in 1 .. i - 1 : l[k] = p[k]
      BY <1>2, <1>4
    <3>2. r \in Seq(Tokens) /\ Len(r) = i - 1 /\ \A k \in 1 .. i - 1 : r[k] = sampledAt(k)
      BY <1>6, <2>1, <2>2
    <3>3. \A k \in 1 .. i - 1 : k \in 1 .. n
      BY <1>4
    <3> HIDE DEF l, r
    <3>4. \A k \in 1 .. i - 1 : l[k] = r[k]
      BY <2>3, <3>1, <3>2, <3>3
    <3>5. l = r
      BY <3>1, <3>2, <3>4
    <3>6. QED
      BY <3>5 DEF l, r
  <2>5. p[i] = Sampled(g[i - 1].smpl, text[i])
    BY <2>3 DEF sampledAt
  <2>6. QED
    BY <2>2, <2>4, <2>5
<1>12. QED
  BY <1>2, <1>11

-----------------------------------------------------------------------------
(* Sequences of tokens.                                                    *)

LEMMA JoinAt ==
    ASSUME NEW s \in Seq(Tokens), NEW t \in Seq(Tokens)
    PROVE  /\ s \o t \in Seq(Tokens) /\ Len(s \o t) = Len(s) + Len(t)
           /\ \A i \in 1 .. Len(s) + Len(t) : (s \o t)[i] = IF i <= Len(s) THEN s[i] ELSE t[i - Len(s)]
<1>1. DOMAIN (s \o t) = 1 .. Len(s) + Len(t)
  BY Concat
<1>2. QED
  BY <1>1, Concat

LEMMA CutAt ==
    ASSUME NEW s \in Seq(Tokens), NEW n \in Nat, n <= Len(s)
    PROVE  /\ SubSeq(s, 1, n) \in Seq(Tokens) /\ Len(SubSeq(s, 1, n)) = n
           /\ \A i \in 1 .. n : SubSeq(s, 1, n)[i] = s[i]
OBVIOUS

LEMMA SameSeq ==
    ASSUME NEW s \in Seq(Tokens), NEW t \in Seq(Tokens), Len(s) = Len(t),
           \A i \in 1 .. Len(s) : s[i] = t[i]
    PROVE  s = t
OBVIOUS

\* A cut of a joined sequence that reaches m elements into its second part.
LEMMA CutOfJoin ==
    ASSUME NEW s \in Seq(Tokens), NEW t \in Seq(Tokens), NEW m \in Nat, m <= Len(t)
    PROVE  SubSeq(s \o t, 1, Len(s) + m) = s \o SubSeq(t, 1, m)
<1> DEFINE st == s \o t
           l == SubSeq(st, 1, Len(s) + m)
           u == SubSeq(t, 1, m)
           r == s \o u
<1>1. /\ st \in Seq(Tokens) /\ Len(st) = Len(s) + Len(t)
      /\ \A i \in 1 .. Len(s) + Len(t) : st[i] = IF i <= Len(s) THEN s[i] ELSE t[i - Len(s)]
  BY JoinAt
<1>2. u \in Seq(Tokens) /\ Len(u) = m /\ \A i \in 1 .. m : u[i] = t[i]
  BY CutAt
<1> HIDE DEF u
<1>3. /\ r \in Seq(Tokens) /\ Len(r) = Len(s) + m
      /\ \A i \in 1 .. Len(s) + m : r[i] = IF i <= Len(s) THEN s[i] ELSE u[i - Len(s)]
  BY <1>2, JoinAt
<1> HIDE DEF st
<1>4. Len(s) \in Nat /\ Len(s) + m \in Nat /\ Len(s) + m <= Len(st)
  BY <1>1
<1>5. l \in Seq(Tokens) /\ Len(l) = Len(s) + m /\ \A i \in 1 .. Len(s) + m : l[i] = st[i]
  BY <1>1, <1>4, CutAt
<1> HIDE DEF l, r
<1>6. ASSUME NEW i \in 1 .. Len(s) + m PROVE l[i] = r[i]
  <2>1. l[i] = IF i <= Len(s) THEN s[i] ELSE t[i - Len(s)]
    <3>1. i \in 1 .. Len(s) + Len(t)
      BY <1>4
    <3>2. QED
      BY <1>1, <1>5, <3>1
  <2>2. i > Len(s) => i - Len(s) \in 1 .. m
    BY <1>4
  <2>3. QED
    BY <1>2, <1>3, <1>4, <2>1, <2>2
<1>7. l = r
  BY <1>3, <1>5, <1>6, SameSeq
<1>8. QED
  BY <1>7 DEF l, r, u, st

LEMMA CutWithin ==
    ASSUME NEW s \in Seq(Tokens), NEW t \in Seq(Tokens), NEW n \in Nat, n <= Len(s)
    PROVE  SubSeq(s \o t, 1, n) = SubSeq(s, 1, n)
<1> DEFINE st == s \o t
           l == SubSeq(st, 1, n)
           r == SubSeq(s, 1, n)
<1>1. /\ st \in Seq(Tokens) /\ Len(st) = Len(s) + Len(t)
      /\ \A i \in 1 .. Len(s) + Len(t) : st[i] = IF i <= Len(s) THEN s[i] ELSE t[i - Len(s)]
  BY JoinAt
<1>2. r \in Seq(Tokens) /\ Len(r) = n /\ \A i \in 1 .. n : r[i] = s[i]
  BY CutAt
<1> HIDE DEF st
<1>3. n <= Len(st)
  BY <1>1
<1>4. l \in Seq(Tokens) /\ Len(l) = n /\ \A i \in 1 .. n : l[i] = st[i]
  BY <1>1, <1>3, CutAt
<1> HIDE DEF l, r
<1>5. \A i \in 1 .. n : i \in 1 .. Len(s) + Len(t) /\ i <= Len(s)
  OBVIOUS
<1>6. \A i \in 1 .. n : l[i] = r[i]
  BY <1>1, <1>2, <1>4, <1>5
<1>7. l = r
  BY <1>2, <1>4, <1>6, SameSeq
<1>8. QED
  BY <1>7 DEF l, r, st

LEMMA CutWhole ==
    ASSUME NEW s \in Seq(Tokens)
    PROVE  SubSeq(s, 1, Len(s)) = s
<1> DEFINE l == SubSeq(s, 1, Len(s))
<1>1. l \in Seq(Tokens) /\ Len(l) = Len(s) /\ \A i \in 1 .. Len(s) : l[i] = s[i]
  BY CutAt
<1> HIDE DEF l
<1>2. l = s
  BY <1>1, SameSeq
<1>3. QED
  BY <1>2 DEF l

LEMMA FrontAndLast ==
    ASSUME NEW s \in Seq(Tokens), NEW n \in Nat, Len(s) = n + 1
    PROVE  SubSeq(s, 1, n) \o <<s[n + 1]>> = s
<1> DEFINE f == SubSeq(s, 1, n)
           l == <<s[n + 1]>>
           r == f \o l
<1>1. f \in Seq(Tokens) /\ Len(f) = n /\ \A i \in 1 .. n : f[i] = s[i]
  BY CutAt
<1>2. l \in Seq(Tokens) /\ Len(l) = 1 /\ l[1] = s[n + 1]
  BY s[n + 1] \in Tokens
<1> HIDE DEF f, l
<1>3. /\ r \in Seq(Tokens) /\ Len(r) = n + 1
      /\ \A i \in 1 .. n + 1 : r[i] = IF i <= n THEN f[i] ELSE l[i - n]
  <2>1. /\ r \in Seq(Tokens) /\ Len(r) = Len(f) + Len(l)
        /\ \A i \in 1 .. Len(f) + Len(l) : r[i] = IF i <= Len(f) THEN f[i] ELSE l[i - Len(f)]
    BY <1>1, <1>2, JoinAt
  <2> HIDE DEF r
  <2>2. Len(f) = n /\ Len(f) + Len(l) = n + 1
    BY <1>1, <1>2
  <2>3. QED
    BY <2>1, <2>2
<1> HIDE DEF r
<1>4. ASSUME NEW i \in 1 .. n + 1 PROVE r[i] = s[i]
  <2>1. CASE i <= n
    BY <1>1, <1>3, <2>1
  <2>2. CASE i = n + 1
    BY <1>2, <1>3, <2>2
  <2>3. QED
    BY <2>1, <2>2
<1>5. r = s
  BY <1>3, <1>4, SameSeq
<1>6. QED
  BY <1>5 DEF r, f, l

LEMMA JoinAssoc ==
    ASSUME NEW s \in Seq(Tokens), NEW t \in Seq(Tokens), NEW u \in Seq(Tokens)
    PROVE  (s \o t) \o u = s \o (t \o u)
<1> DEFINE st == s \o t
           tu == t \o u
           l == st \o u
           r == s \o tu
<1>1. /\ st \in Seq(Tokens) /\ Len(st) = Len(s) + Len(t)
      /\ \A i \in 1 .. Len(s) + Len(t) : st[i] = IF i <= Len(s) THEN s[i] ELSE t[i - Len(s)]
  BY JoinAt
<1>2. /\ tu \in Seq(Tokens) /\ Len(tu) = Len(t) + Len(u)
      /\ \A i \in 1 .. Len(t) + Len(u) : tu[i] = IF i <= Len(t) THEN t[i] ELSE u[i - Len(t)]
  BY JoinAt
<1> HIDE DEF st, tu
<1>3. /\ l \in Seq(Tokens) /\ Len(l) = Len(st) + Len(u)
      /\ \A i \in 1 .. Len(st) + Len(u) : l[i] = IF i <= Len(st) THEN st[i] ELSE u[i - Len(st)]
  BY <1>1, JoinAt
<1>4. /\ r \in Seq(Tokens) /\ Len(r) = Len(s) + Len(tu)
      /\ \A i \in 1 .. Len(s) + Len(tu) : r[i] = IF i <= Len(s) THEN s[i] ELSE tu[i - Len(s)]
  BY <1>2, JoinAt
<1> HIDE DEF l, r
<1>5. Len(s) \in Nat /\ Len(t) \in Nat /\ Len(u) \in Nat
  OBVIOUS
<1>6. Len(l) = Len(s) + Len(t) + Len(u) /\ Len(r) = Len(l)
  BY <1>1, <1>2, <1>3, <1>4, <1>5
<1>7. ASSUME NEW i \in 1 .. Len(l) PROVE l[i] = r[i]
  <2>1. i \in Nat /\ i >= 1 /\ i <= Len(s) + Len(t) + Len(u)
    BY <1>5, <1>6
  <2>2. /\ i \in 1 .. Len(st) + Len(u) /\ i \in 1 .. Len(s) + Len(tu) /\ Len(st) = Len(s) + Len(t)
        /\ l[i] = IF i <= Len(st) THEN st[i] ELSE u[i - Len(st)]
        /\ r[i] = IF i <= Len(s) THEN s[i] ELSE tu[i - Len(s)]
    <3>1. i \in 1 .. Len(st) + Len(u) /\ i \in 1 .. Len(s) + Len(tu) /\ Len(st) = Len(s) + Len(t)
      BY <1>1, <1>2, <1>5, <2>1
    <3>2. QED
      BY <1>3, <1>4, <3>1
  <2>3. CASE i <= Len(s) + Len(t)
    <3>1. i \in 1 .. Len(s) + Len(t) /\ l[i] = st[i]
      BY <1>5, <2>1, <2>3, <2>2
    <3>2. l[i] = IF i <= Len(s) THEN s[i] ELSE t[i - Len(s)]
      BY <1>1, <3>1
    <3>3. CASE i <= Len(s)
      BY <2>2, <3>2, <3>3
    <3>4. CASE i > Len(s)
      <4>1. i - Len(s) \in 1 .. Len(t) + Len(u) /\ i - Len(s) <= Len(t) /\ ~(i <= Len(s))
        BY <1>5, <2>1, <2>3, <3>4
      <4>2. tu[i - Len(s)] = t[i - Len(s)]
        BY <1>2, <4>1
      <4>3. QED
        BY <2>2, <3>2, <4>1, <4>2
    <3>5. QED
      BY <1>5, <2>1, <3>3, <3>4
  <2>4. CASE i > Len(s) + Len(t)
    <3>1. i - Len(s) \in 1 .. Len(t) + Len(u) /\ i - Len(s) > Len(t) /\ i - Len(s) - Len(t) = i - (Len(s) + Len(t))
      BY <1>5, <2>1, <2>4
    <3>2. l[i] = u[i - (Len(s) + Len(t))]
      BY <1>5, <2>1, <2>4, <2>2
    <3>3. r[i] = u[i - Len(s) - Len(t)]
      <4>1. ~(i <= Len(s)) /\ ~(i - Len(s) <= Len(t))
        BY <1>5, <2>1, <2>4
      <4>2. tu[i - Len(s)] = u[i - Len(s) - Len(t)]
        BY <1>2, <3>1, <4>1
      <4>3. QED
        BY <2>2, <4>1, <4>2
    <3>4. QED
      BY <3>1, <3>2, <3>3
  <2>5. QED
    BY <1>5, <2>1, <2>3, <2>4
<1>8. l = r
  BY <1>3, <1>4, <1>6, <1>7, SameSeq
<1>9. QED
  BY <1>8 DEF l, r, st, tu

LEMMA AppendJoin ==
    ASSUME NEW s \in Seq(Tokens), NEW t \in Seq(Tokens), NEW e \in Tokens
    PROVE  Append(s \o t, e) = s \o Append(t, e)
<1>1. <<e>> \in Seq(Tokens) /\ Append(t, e) = t \o <<e>>
  OBVIOUS
<1>2. s \o t \in Seq(Tokens)
  BY JoinAt
<1> DEFINE so == s \o t
<1> HIDE DEF so
<1>3. Append(so, e) = so \o <<e>>
  BY <1>2 DEF so
<1>4. so \o <<e>> = s \o (t \o <<e>>)
  BY <1>1, JoinAssoc DEF so
<1>5. QED
  BY <1>1, <1>3, <1>4 DEF so

-----------------------------------------------------------------------------
(* The invariant of a slot that decodes speculatively.                     *)

\* The answer and the token before it; and what is decoded before a pass.
Whole == <<Prompt>> \o out
Before == SubSeq(Whole, 1, Len(out))
Decides == Plain(FreshSampler, truth)

SpecTypes ==
    /\ kind \in RmTypes /\ truth \in Truths /\ noisy \in BOOLEAN
    /\ phase \in {"sample", "draft", "done"}
    /\ out \in Seq(Tokens) /\ draft \in Seq(Tokens) /\ ids \in Seq(Tokens)

\* The checkpoint of a draft that may have to be taken back.
Backed ==
    phase # "done" /\ draft # <<>> /\ NeedsCheckpoint(Len(draft)) =>
        ckpt.n = Len(out) /\ ckpt.memory = Before

\* Before a pass.
Ready ==
    phase = "draft" =>
        /\ prompt = Before /\ sampler = Follow(out)

\* In a pass: the guess is in the prompt, and the tokens accepted so far, all
\* but the last, are guesses.
Sampling ==
    phase = "sample" =>
        /\ prompt = Whole \o draft
        /\ original = Follow(out) /\ sampler = Follow(out \o ids)
        /\ Len(ids) <= Len(draft) + 1
        /\ \A i \in 1 .. Len(ids) - 1 : ids[i] = draft[i]

\* The token to decode is the last of the answer, and there is room for the
\* draft and one more.
Going ==
    phase # "done" =>
        /\ sampled = Whole[Len(out) + 1]
        /\ Len(out) + Len(draft) + 1 <= MaxPredict

\* Without noise, everything accepted is what plain decoding decides.
Decided ==
    ~noisy =>
        /\ Len(out) <= Len(Decides)
        /\ \A i \in 1 .. Len(out) : out[i] = Decides[i]
        /\ phase = "sample" => \A i \in 1 .. Len(ids) : ids[i] = Decides[Len(out) + i]

SInv == /\ SpecTypes /\ memory = prompt
        /\ Backed /\ Ready /\ Sampling /\ Going /\ Decided

LEMMA WholeIs ==
    ASSUME out \in Seq(Tokens)
    PROVE  /\ Whole \in Seq(Tokens) /\ Len(Whole) = Len(out) + 1 /\ Len(out) \in Nat
           /\ Before \in Seq(Tokens) /\ Len(Before) = Len(out)
           /\ Whole[Len(out) + 1] \in Tokens
           /\ Before \o <<Whole[Len(out) + 1]>> = Whole
<1>1. <<Prompt>> \in Seq(Tokens) /\ Len(<<Prompt>>) = 1
  BY TokensOf
<1>2. Whole \in Seq(Tokens) /\ Len(Whole) = Len(out) + 1 /\ Len(out) \in Nat
  <2> DEFINE first == <<Prompt>>
  <2>1. first \in Seq(Tokens) /\ Len(first) = 1
    BY <1>1
  <2> HIDE DEF first
  <2>2. first \o out \in Seq(Tokens) /\ Len(first \o out) = 1 + Len(out)
    BY <2>1, JoinAt
  <2>3. Len(out) \in Nat
    OBVIOUS
  <2>4. QED
    BY <2>2, <2>3 DEF Whole, first
<1>3. Before \in Seq(Tokens) /\ Len(Before) = Len(out)
  BY <1>2, CutAt DEF Before
<1>4. QED
  BY <1>2, <1>3, FrontAndLast DEF Before

LEMMA SpecStart == SpecInit => SInv
<1>1. SUFFICES ASSUME SpecInit PROVE SInv
  OBVIOUS
<1>2. /\ kind \in RmTypes /\ truth \in Truths /\ noisy \in BOOLEAN /\ phase = "sample"
      /\ prompt = <<Prompt>> /\ memory = <<Prompt>> /\ sampled = Prompt /\ draft = <<>>
      /\ sampler = FreshSampler /\ original = FreshSampler /\ ids = <<>> /\ out = <<>>
  BY <1>1 DEF SpecInit
<1>3. SpecTypes
  BY <1>2 DEF SpecTypes
<1>4. Whole = <<Prompt>> \o <<>>
  BY <1>2 DEF Whole
<1>5. <<Prompt>> \o <<>> = <<Prompt>> /\ (<<Prompt>> \o <<>>) \o <<>> = <<Prompt>>
  OBVIOUS
<1>6. Going
  BY <1>2, <1>4, <1>5, PredictAssumption DEF Going
<1>7. Sampling
  <2>1. out \o ids = <<>>
    BY <1>2
  <2>2. sampler = Follow(out \o ids) /\ original = Follow(out)
    BY <1>2, <2>1, FreshBudget
  <2>3. QED
    BY <1>2, <1>4, <1>5, <2>2 DEF Sampling
<1>8. Decided
  <2>1. Len(Decides) \in Nat
    BY <1>2, PlainOf DEF Decides
  <2>2. QED
    BY <1>2, <2>1 DEF Decided
<1>9. QED
  BY <1>2, <1>3, <1>6, <1>7, <1>8 DEF SInv, Backed, Ready

\* A pass decodes the token and the guess.
LEMMA PassKeeps ==
    ASSUME SInv, phase = "draft", NEW guess \in Seq(Tokens), Pass(guess),
           UNCHANGED <<kind, truth, noisy, sampled, sampler, out>>,
           Len(out) + Len(guess) + 1 <= MaxPredict,
           guess # <<>> /\ NeedsCheckpoint(Len(guess)) => ckpt'.n = Len(out) /\ ckpt'.memory = Before
    PROVE  SInv'
<1>1. /\ SpecTypes /\ memory = prompt /\ prompt = Before /\ sampler = Follow(out)
      /\ sampled = Whole[Len(out) + 1] /\ Decided
  BY DEF SInv, Ready, Going
<1>2. /\ out \in Seq(Tokens) /\ Whole \in Seq(Tokens) /\ Len(Whole) = Len(out) + 1
      /\ Before \o <<sampled>> = Whole
  BY <1>1, WholeIs DEF SpecTypes
<1>3. /\ prompt' = Whole \o guess /\ memory' = prompt' /\ draft' = guess
      /\ original' = Cloned(sampler) /\ ids' = <<>> /\ phase' = "sample"
  BY <1>1, <1>2 DEF Pass
<1>4. Whole' = Whole /\ Before' = Before /\ Decides' = Decides
  BY DEF Whole, Before, Decides
<1>5. original' = Follow(out)
  BY <1>1, <1>2, <1>3, FollowIs
<1>6. SpecTypes'
  BY <1>1, <1>3 DEF SpecTypes
<1>7. Sampling'
  <2>1. out' \o ids' = out
    BY <1>2, <1>3
  <2>2. sampler' = Follow(out' \o ids') /\ original' = Follow(out')
    BY <1>1, <1>5, <2>1
  <2>3. prompt' = Whole' \o draft'
    BY <1>3, <1>4
  <2>4. Len(ids') <= Len(draft') + 1 /\ \A i \in 1 .. Len(ids') - 1 : ids'[i] = draft'[i]
    BY <1>3
  <2>5. QED
    BY <2>2, <2>3, <2>4 DEF Sampling
<1>8. Going'
  BY <1>1, <1>3, <1>4 DEF Going
<1>9. Decided'
  BY <1>1, <1>3, <1>4 DEF Decided
<1>10. Backed'
  BY <1>3, <1>4 DEF Backed, NeedsCheckpoint
<1>11. QED
  BY <1>3, <1>6, <1>7, <1>8, <1>9, <1>10 DEF SInv, Ready

\* The guesses are tokens.
LEMMA GuessType ==
    ASSUME SInv, phase = "draft", NEW guess \in Guesses(MaxDraft)
    PROVE  guess \in Seq(Tokens)
<1>1. /\ truth \in Seq(Tokens) /\ Len(truth) >= MaxPredict + MaxDraft /\ MaxDraft \in Nat /\ MaxPredict \in Nat
      /\ out \in Seq(Tokens) /\ sampler \in Samplers /\ Len(out) <= MaxPredict
  <2>1. truth \in Truths /\ out \in Seq(Tokens) /\ draft \in Seq(Tokens)
    BY DEF SInv, SpecTypes
  <2>2. Len(out) <= MaxPredict
    <3>1. Len(out) + Len(draft) + 1 <= MaxPredict /\ Len(out) \in Nat /\ Len(draft) \in Nat
      BY <2>1 DEF SInv, Going
    <3>2. QED
      BY <3>1, PredictAssumption
  <2>3. sampler \in Samplers
    BY <2>1, FollowIs DEF SInv, Ready
  <2>4. QED
    BY <2>1, <2>2, <2>3, TokensOf, PredictAssumption
<1> DEFINE choices == SubSeq(truth, Len(out) + 1, Len(out) + MaxDraft)
<1>2. choices \in Seq(Tokens) /\ Len(choices) = MaxDraft
  <2>1. Len(out) \in Nat /\ Len(out) + MaxDraft <= Len(truth)
    BY <1>1
  <2>2. QED
    BY <1>1, <2>1
<1>3. Onwards \in Seq(Tokens) /\ Len(Onwards) = MaxDraft
  <2> HIDE DEF choices
  <2>1. Plain(sampler, choices) \in Seq(Tokens) /\ Len(Plain(sampler, choices)) = MaxDraft
    BY <1>1, <1>2, PlainType
  <2>2. QED
    BY <2>1 DEF Onwards, choices
<1>4. PICK right \in 0 .. MaxDraft, wrong \in 0 .. MaxDraft :
         guess = SubSeq(Onwards, 1, right) \o [i \in 1 .. wrong |-> Miss]
  <2> DEFINE G(r, w) == SubSeq(Onwards, 1, r) \o [i \in 1 .. w |-> Miss]
  <2>1. Guesses(MaxDraft) = {G(r, w) : r \in 0 .. MaxDraft, w \in 0 .. MaxDraft}
    BY DEF Guesses
  <2> HIDE DEF G
  <2>2. \E r \in 0 .. MaxDraft, w \in 0 .. MaxDraft : guess = G(r, w)
    BY <2>1
  <2>3. QED
    BY <2>2 DEF G
<1>5. SubSeq(Onwards, 1, right) \in Seq(Tokens)
  BY <1>1, <1>3, CutAt
<1>6. [i \in 1 .. wrong |-> Miss] \in Seq(Tokens)
  BY <1>1, TokensOf
<1>7. QED
  BY <1>4, <1>5, <1>6, JoinAt

LEMMA DecodeNewStep ==
    ASSUME SInv, NEW guess \in Guesses(MaxDraft), DecodeNew(guess)
    PROVE  SInv'
<1>1. /\ phase = "draft" /\ draft = <<>> /\ Len(guess) <= DraftMax /\ Pass(guess)
      /\ UNCHANGED <<kind, truth, noisy, sampled, sampler, out>>
      /\ ckpt' = IF DraftMax = 0 THEN ckpt
                 ELSE [n |-> Len(prompt),
                       memory |-> IF guess # <<>> /\ NeedsCheckpoint(Len(guess)) THEN memory ELSE ckpt.memory]
  BY DEF DecodeNew
<1>2. guess \in Seq(Tokens)
  BY <1>1, GuessType
<1>3. /\ memory = Before /\ prompt = Before /\ Len(Before) = Len(out) /\ Len(out) \in Nat
      /\ Len(out) + 1 <= MaxPredict
  <2>1. out \in Seq(Tokens) /\ memory = prompt /\ prompt = Before
    BY <1>1 DEF SInv, SpecTypes, Ready
  <2>2. Len(out) + Len(draft) + 1 <= MaxPredict /\ Len(draft) = 0
    BY <1>1 DEF SInv, Going
  <2>3. Len(out) + 1 <= MaxPredict /\ Len(Before) = Len(out) /\ Len(out) \in Nat
    BY <2>1, <2>2, WholeIs
  <2>4. QED
    BY <2>1, <2>3
<1>4. /\ DraftMax \in Nat /\ DraftMax <= MaxPredict - Len(out) - 1
  <2>1. MaxDraft \in Nat /\ MaxPredict - Len(out) - 1 \in Nat
    BY <1>3, PredictAssumption
  <2> DEFINE S == {MaxDraft, MaxPredict - Len(out) - 1}
  <2>2. S \in SUBSET Nat /\ S # {} /\ MaxPredict - Len(out) - 1 \in S
    BY <2>1
  <2>3. Min(S) \in Nat /\ Min(S) <= MaxPredict - Len(out) - 1
    <3> HIDE DEF S
    <3>1. QED
      BY <2>2, SmallestExists
  <2>4. QED
    BY <2>1, <2>3 DEF DraftMax
<1>5. Len(out) + Len(guess) + 1 <= MaxPredict
  <2>1. Len(guess) \in Nat
    BY <1>2
  <2>2. QED
    BY <1>1, <1>3, <1>4, <2>1, PredictAssumption
<1>6. guess # <<>> /\ NeedsCheckpoint(Len(guess)) => ckpt'.n = Len(out) /\ ckpt'.memory = Before
  <2>1. SUFFICES ASSUME guess # <<>>, NeedsCheckpoint(Len(guess))
                 PROVE  ckpt'.n = Len(out) /\ ckpt'.memory = Before
    OBVIOUS
  <2>2. Len(guess) \in Nat /\ Len(guess) # 0
    BY <1>2, <2>1
  <2>3. DraftMax # 0
    BY <1>1, <1>4, <2>2
  <2>4. ckpt' = [n |-> Len(prompt), memory |-> memory]
    BY <1>1, <2>1, <2>3
  <2>5. QED
    BY <1>3, <2>4
<1>7. QED
  BY <1>1, <1>2, <1>5, <1>6, PassKeeps

LEMMA DecodeReplayStep ==
    ASSUME SInv, DecodeReplay
    PROVE  SInv'
<1>1. /\ phase = "draft" /\ draft # <<>> /\ Pass(draft)
      /\ UNCHANGED <<kind, truth, noisy, sampled, ckpt, sampler, out>>
  BY DEF DecodeReplay
<1>2. draft \in Seq(Tokens) /\ Len(out) + Len(draft) + 1 <= MaxPredict
  BY <1>1 DEF SInv, SpecTypes, Going
<1>3. NeedsCheckpoint(Len(draft)) => ckpt'.n = Len(out) /\ ckpt'.memory = Before
  BY <1>1 DEF SInv, Backed
<1>4. QED
  BY <1>1, <1>2, <1>3, PassKeeps

LEMMA SampleStep ==
    ASSUME SInv, NEW choice \in ModelChoices, SampleNext(choice)
    PROVE  SInv'
<1> DEFINE id == Sampled(sampler, choice)
<1>1. /\ phase = "sample" /\ MoreToSample /\ sampler' = Accepted(sampler, id) /\ ids' = Append(ids, id)
      /\ UNCHANGED <<kind, truth, noisy, phase, prompt, sampled, draft, memory, ckpt, original,
                     replayPos, stall, skip, out>>
  BY DEF SampleNext
<1>2. /\ out \in Seq(Tokens) /\ draft \in Seq(Tokens) /\ ids \in Seq(Tokens) /\ truth \in Truths
      /\ sampler = Follow(out \o ids) /\ Len(out) + Len(draft) + 1 <= MaxPredict
      /\ Len(out) \in Nat /\ Len(draft) \in Nat /\ Len(ids) \in Nat
      /\ Len(ids) <= Len(draft) /\ ids = SubSeq(draft, 1, Len(ids))
  BY <1>1 DEF SInv, SpecTypes, Sampling, Going, MoreToSample
<1>3. /\ truth \in Seq(Tokens) /\ Position \in 1 .. Len(truth)
      /\ Position = Len(out) + Len(ids) + 1
  BY <1>2, TokensOf, PredictAssumption DEF Position
<1>4. choice \in Tokens
  <2>1. choice = truth[Position] \/ choice = Noise
    BY DEF ModelChoices
  <2>2. QED
    BY <1>3, <2>1, TokensOf
<1> DEFINE so == out \o ids
<1>5. so \in Seq(Tokens) /\ Len(so) = Len(out) + Len(ids)
  BY <1>2, JoinAt
<1>6. sampler \in Samplers /\ id \in Tokens
  <2> HIDE DEF so
  <2>1. sampler \in Samplers
    BY <1>2, <1>5, FollowIs DEF so
  <2>2. QED
    BY <1>4, <2>1, SampledType
<1> HIDE DEF id
<1>7. sampler' = Follow(out' \o ids')
  <2>1. Append(so, id) = out \o Append(ids, id)
    <3>1. out \in Seq(Tokens) /\ ids \in Seq(Tokens) /\ id \in Tokens
      BY <1>2, <1>6
    <3>2. QED
      BY <3>1, AppendJoin
  <2>2. Accepted(sampler, id) = Follow(Append(so, id))
    <3> HIDE DEF so
    <3>1. QED
      BY <1>2, <1>5, <1>6, FollowIs DEF so
  <2>3. QED
    BY <1>1, <2>1, <2>2
<1>8. /\ ids' \in Seq(Tokens) /\ Len(ids') = Len(ids) + 1 /\ ids'[Len(ids) + 1] = id
      /\ \A i \in 1 .. Len(ids) : ids'[i] = ids[i]
  BY <1>1, <1>2, <1>6
<1>9. Whole' = Whole /\ Before' = Before /\ Decides' = Decides
  BY <1>1 DEF Whole, Before, Decides
<1>10. Sampling'
  <2>1. \A i \in 1 .. Len(ids) : ids[i] = draft[i]
    BY <1>2, CutAt
  <2>2. Len(ids') <= Len(draft') + 1 /\ \A i \in 1 .. Len(ids') - 1 : ids'[i] = draft'[i]
    BY <1>1, <1>2, <1>8, <2>1
  <2>3. prompt' = Whole' \o draft' /\ original' = Follow(out')
    BY <1>1, <1>9 DEF SInv, Sampling
  <2>4. QED
    BY <1>7, <2>2, <2>3 DEF Sampling
<1>11. Decided'
  <2>1. SUFFICES ASSUME ~noisy PROVE Decided'
    BY <1>1 DEF Decided
  <2>2. /\ Len(out) <= Len(Decides)
        /\ \A i \in 1 .. Len(out) : out[i] = Decides[i]
        /\ \A i \in 1 .. Len(ids) : ids[i] = Decides[Len(out) + i]
    BY <1>1, <2>1 DEF SInv, Decided
  <2> DEFINE p == Decides
             here == Position
  <2>3. /\ p \in Seq(Tokens) /\ Len(p) = Len(truth)
        /\ \A i \in 1 .. Len(truth) : p[i] = Sampled(Follow(SubSeq(p, 1, i - 1)), truth[i])
    BY <1>2, PlainOf DEF Decides
  <2> HIDE DEF p, here
  <2>4. here \in 1 .. Len(truth) /\ here = Len(out) + Len(ids) + 1
    BY <1>3 DEF here
  <2>5. SubSeq(p, 1, here - 1) = so
    <3>1. here - 1 = Len(out) + Len(ids) /\ here - 1 \in Nat /\ here - 1 <= Len(p)
      BY <1>2, <2>3, <2>4
    <3> DEFINE l == SubSeq(p, 1, here - 1)
    <3>2. l \in Seq(Tokens) /\ Len(l) = here - 1 /\ \A i \in 1 .. here - 1 : l[i] = p[i]
      BY <2>3, <3>1, CutAt
    <3>3. \A i \in 1 .. Len(out) + Len(ids) : so[i] = IF i <= Len(out) THEN out[i] ELSE ids[i - Len(out)]
      BY <1>2, JoinAt
    <3> HIDE DEF l, so
    <3>4. ASSUME NEW i \in 1 .. Len(out) + Len(ids) PROVE l[i] = so[i]
      <4>1. l[i] = p[i]
        BY <3>1, <3>2
      <4>2. CASE i <= Len(out)
        <5>1. i \in 1 .. Len(out)
          BY <1>2, <4>2
        <5>2. QED
          BY <2>2, <3>3, <4>1, <4>2, <5>1 DEF p
      <4>3. CASE i > Len(out)
        <5>1. i - Len(out) \in 1 .. Len(ids) /\ Len(out) + (i - Len(out)) = i /\ ~(i <= Len(out))
          BY <1>2, <4>3
        <5>2. ids[i - Len(out)] = Decides[i]
          BY <2>2, <5>1
        <5>3. QED
          BY <3>3, <4>1, <5>1, <5>2 DEF p
      <4>4. QED
        BY <1>2, <4>2, <4>3
    <3>5. l = so
      <4>1. Len(l) = Len(so) /\ \A i \in 1 .. Len(l) : l[i] = so[i]
        BY <1>5, <3>1, <3>2, <3>4
      <4>2. QED
        BY <1>5, <3>2, <4>1, SameSeq
    <3>6. QED
      BY <3>5 DEF l
  <2>6. p[here] = Sampled(Follow(so), truth[here])
    BY <2>3, <2>4, <2>5
  <2>7. choice = truth[here]
    BY <2>1 DEF ModelChoices, here
  <2>8. id = p[here]
    BY <1>2, <2>6, <2>7 DEF id
  <2>9. \A i \in 1 .. Len(ids') : ids'[i] = Decides[Len(out) + i]
    <3>1. SUFFICES ASSUME NEW i \in 1 .. Len(ids) + 1 PROVE ids'[i] = Decides[Len(out) + i]
      BY <1>8
    <3>2. CASE i = Len(ids) + 1
      <4>1. Len(out) + i = here
        BY <1>2, <2>4, <3>2
      <4>2. QED
        BY <1>8, <2>8, <3>2, <4>1 DEF p
    <3>3. CASE i # Len(ids) + 1
      <4>1. i \in 1 .. Len(ids)
        BY <1>2, <3>3
      <4>2. QED
        BY <1>8, <2>2, <4>1
    <3>4. QED
      BY <3>2, <3>3
  <2>10. QED
    BY <1>1, <1>9, <2>2, <2>9 DEF Decided
<1>12. SpecTypes' /\ Going' /\ Backed' /\ Ready'
  BY <1>1, <1>8, <1>9 DEF SInv, SpecTypes, Going, Backed, Ready, NeedsCheckpoint
<1>13. memory' = prompt'
  BY <1>1 DEF SInv
<1>14. QED
  BY <1>10, <1>11, <1>12, <1>13 DEF SInv

\* What the verification of a draft finds.
LEMMA VerifyFinds ==
    ASSUME SInv, Verify
    PROVE  /\ phase = "sample" /\ kind \in {"PART", "FULL", "RS"} /\ RsDepth \in Nat
           /\ out \in Seq(Tokens) /\ draft \in Seq(Tokens) /\ ids \in Seq(Tokens)
           /\ Len(ids) \in Nat /\ Len(draft) \in Nat /\ Len(ids) >= 1 /\ Len(ids) <= Len(draft) + 1
           /\ \A i \in 1 .. Len(ids) - 1 : ids[i] = draft[i]
           /\ prompt = Whole \o draft /\ memory = prompt
           /\ UNCHANGED <<kind, truth, noisy>>
<1>1. phase = "sample" /\ ~MoreToSample /\ UNCHANGED <<kind, truth, noisy>>
  BY DEF Verify
<1>2. /\ kind \in {"PART", "FULL", "RS"} /\ RsDepth \in Nat
      /\ out \in Seq(Tokens) /\ draft \in Seq(Tokens) /\ ids \in Seq(Tokens)
  BY MemoryAssumption DEF SInv, SpecTypes
<1>3. /\ Len(ids) <= Len(draft) + 1 /\ prompt = Whole \o draft /\ memory = prompt
      /\ \A i \in 1 .. Len(ids) - 1 : ids[i] = draft[i]
  BY <1>1 DEF SInv, Sampling
<1>4. Len(ids) >= 1
  <2>1. SUFFICES ASSUME Len(ids) = 0 PROVE FALSE
    BY <1>2
  <2>2. ids = <<>> /\ SubSeq(draft, 1, 0) = <<>> /\ Len(draft) >= 0
    BY <1>2, <2>1
  <2>3. QED
    BY <1>1, <2>1, <2>2 DEF MoreToSample
<1>5. QED
  BY <1>1, <1>2, <1>3, <1>4

LEMMA RestoreStep ==
    ASSUME SInv, Verify, Len(draft) + 1 > Len(ids), Restores, Restore
    PROVE  SInv'
<1>1. /\ phase = "sample" /\ kind \in {"PART", "FULL", "RS"} /\ RsDepth \in Nat
      /\ out \in Seq(Tokens) /\ draft \in Seq(Tokens) /\ ids \in Seq(Tokens)
      /\ Len(ids) \in Nat /\ Len(draft) \in Nat /\ Len(ids) >= 1
      /\ prompt = Whole \o draft /\ UNCHANGED <<kind, truth, noisy>>
  BY VerifyFinds
<1>2. /\ memory' = ckpt.memory /\ prompt' = SubSeq(prompt, 1, ckpt.n) /\ sampler' = Cloned(original)
      /\ draft' = (IF Stalls THEN <<>> ELSE ids) /\ phase' = "draft"
      /\ UNCHANGED <<sampled, ckpt, out>>
  BY DEF Restore
<1>3. ids' = <<>>
  BY DEF Verify
<1>4. /\ Whole \in Seq(Tokens) /\ Len(Whole) = Len(out) + 1 /\ Len(out) \in Nat
  BY <1>1, WholeIs
<1>5. draft # <<>> /\ NeedsCheckpoint(Len(draft))
  <2>1. Len(draft) >= 1
    BY <1>1
  <2>2. CASE kind = "FULL"
    BY <1>1, <2>1, <2>2 DEF NeedsCheckpoint
  <2>3. CASE kind # "FULL"
    <3>1. kind = "RS" /\ Len(draft) + 1 - Len(ids) > RsDepth
      BY <2>3 DEF Restores
    <3>2. Len(draft) > RsDepth
      BY <1>1, <3>1
    <3>3. QED
      BY <2>1, <3>1, <3>2 DEF NeedsCheckpoint
  <2>4. QED
    BY <2>2, <2>3
<1>6. ckpt.n = Len(out) /\ ckpt.memory = Before
  BY <1>1, <1>5 DEF SInv, Backed
<1>7. prompt' = Before /\ memory' = Before
  <2>1. SubSeq(Whole \o draft, 1, Len(out)) = Before
    BY <1>1, <1>4, CutWithin DEF Before
  <2>2. QED
    BY <1>1, <1>2, <1>6, <2>1
<1>8. sampler' = Follow(out')
  BY <1>1, <1>2, FollowIs DEF SInv, Sampling
<1>9. Whole' = Whole /\ Before' = Before /\ Decides' = Decides
  BY <1>1, <1>2 DEF Whole, Before, Decides
<1>10. /\ draft' \in Seq(Tokens) /\ Len(draft') <= Len(draft) /\ Len(draft') \in Nat
  BY <1>1, <1>2
<1>11. SpecTypes'
  BY <1>1, <1>2, <1>3, <1>10 DEF SInv, SpecTypes
<1>12. Going'
  <2>1. sampled = Whole[Len(out) + 1] /\ Len(out) + Len(draft) + 1 <= MaxPredict
    BY <1>1 DEF SInv, Going
  <2>2. Len(out) + Len(draft') + 1 <= MaxPredict
    BY <1>1, <1>4, <1>10, <2>1, PredictAssumption
  <2>3. QED
    BY <1>2, <1>9, <2>1, <2>2 DEF Going
<1>13. Decided'
  BY <1>1, <1>2, <1>9 DEF SInv, Decided
<1>14. Backed' /\ Ready' /\ Sampling'
  BY <1>2, <1>6, <1>7, <1>8, <1>9 DEF Backed, Ready, Sampling
<1>15. QED
  BY <1>7, <1>11, <1>12, <1>13, <1>14 DEF SInv

\* The tokens that are emitted are the first of those accepted: all of them,
\* unless one of them ends the answer.
LEMMA EmittedIs ==
    ASSUME NEW tokens \in Seq(Tokens)
    PROVE  \E n \in 0 .. Len(tokens) :
              /\ Emitted(tokens) = SubSeq(tokens, 1, n)
              /\ Finals(tokens) = {} => n = Len(tokens)
<1>1. CASE Finals(tokens) = {}
  <2>1. Emitted(tokens) = SubSeq(tokens, 1, Len(tokens))
    BY <1>1, CutWhole DEF Emitted
  <2>2. Len(tokens) \in 0 .. Len(tokens)
    OBVIOUS
  <2>3. QED
    BY <2>1, <2>2
<1>2. CASE Finals(tokens) # {}
  <2> DEFINE S == Finals(tokens)
             m == CHOOSE i \in S : \A j \in S : i <= j
  <2>1. S \subseteq 1 .. Len(tokens)
    BY DEF Finals
  <2>2. S \in SUBSET Nat /\ S # {}
    BY <1>2, <2>1
  <2>3. m \in S
    <3> HIDE DEF S
    <3>1. \E i \in S : \A j \in S : i <= j
      BY <2>2, SmallestExists
    <3>2. QED
      BY <3>1
  <2>4. Emitted(tokens) = SubSeq(tokens, 1, m)
    BY <1>2 DEF Emitted
  <2> HIDE DEF m
  <2>5. m \in 0 .. Len(tokens)
    BY <2>1, <2>3
  <2>6. QED
    BY <1>2, <2>4, <2>5
<1>3. QED
  BY <1>1, <1>2

LEMMA KeepStep ==
    ASSUME SInv, Verify, ~(Len(draft) + 1 > Len(ids) /\ Restores), Keep
    PROVE  SInv'
<1>1. /\ phase = "sample" /\ kind \in {"PART", "FULL", "RS"} /\ RsDepth \in Nat
      /\ out \in Seq(Tokens) /\ draft \in Seq(Tokens) /\ ids \in Seq(Tokens)
      /\ Len(ids) \in Nat /\ Len(draft) \in Nat /\ Len(ids) >= 1 /\ Len(ids) <= Len(draft) + 1
      /\ \A i \in 1 .. Len(ids) - 1 : ids[i] = draft[i]
      /\ prompt = Whole \o draft /\ memory = prompt /\ UNCHANGED <<kind, truth, noisy>>
  BY VerifyFinds
<1>2. /\ prompt' = KeptPrompt
      /\ memory' = SubSeq(memory, 1, Min({Len(KeptPrompt), Len(memory)}))
      /\ sampled' = ids[Len(ids)] /\ draft' = <<>>
      /\ IF Removable(memory, Len(KeptPrompt)) THEN Emit(ids) ELSE phase' = "aborted" /\ UNCHANGED out
      /\ UNCHANGED <<ckpt, sampler, replayPos, stall, skip>>
  BY DEF Keep
<1>3. ids' = <<>>
  BY DEF Verify
<1>4. Whole \in Seq(Tokens) /\ Len(Whole) = Len(out) + 1 /\ Len(out) \in Nat
  BY <1>1, WholeIs
<1> DEFINE k == Len(ids) - 1
           front == SubSeq(ids, 1, k)
           kept == Whole \o front
<1>5. /\ k \in Nat /\ k <= Len(draft) /\ k <= Len(ids)
      /\ front \in Seq(Tokens) /\ Len(front) = k /\ front = SubSeq(draft, 1, k)
  <2>1. k \in Nat /\ k <= Len(draft) /\ k <= Len(ids)
    BY <1>1
  <2>2. front \in Seq(Tokens) /\ Len(front) = k /\ \A i \in 1 .. k : front[i] = ids[i]
    BY <1>1, <2>1, CutAt
  <2> DEFINE guessed == SubSeq(draft, 1, k)
  <2>3. guessed \in Seq(Tokens) /\ Len(guessed) = k /\ \A i \in 1 .. k : guessed[i] = draft[i]
    BY <1>1, <2>1, CutAt
  <2> HIDE DEF front, guessed
  <2>4. Len(front) = Len(guessed) /\ \A i \in 1 .. Len(front) : front[i] = guessed[i]
    BY <1>1, <2>2, <2>3
  <2>5. front = guessed
    BY <2>2, <2>3, <2>4, SameSeq
  <2>6. QED
    BY <2>1, <2>2, <2>5 DEF guessed
<1>6. /\ prompt \in Seq(Tokens) /\ Len(prompt) = Len(Whole) + Len(draft)
      /\ SubSeq(prompt, 1, Len(prompt) - Len(draft)) = Whole
      /\ SubSeq(prompt, 1, Len(Whole) + k) = kept
  <2>1. prompt \in Seq(Tokens) /\ Len(prompt) = Len(Whole) + Len(draft)
    BY <1>1, <1>4, JoinAt
  <2>2. Len(prompt) - Len(draft) = Len(Whole)
    BY <1>1, <1>4, <2>1
  <2>3. SubSeq(Whole \o draft, 1, Len(Whole)) = SubSeq(Whole, 1, Len(Whole))
    BY <1>1, <1>4, CutWithin
  <2>4. SubSeq(Whole, 1, Len(Whole)) = Whole
    BY <1>4, CutWhole
  <2>5. SubSeq(Whole \o draft, 1, Len(Whole) + k) = kept
    <3> HIDE DEF k, front
    <3>1. SubSeq(Whole \o draft, 1, Len(Whole) + k) = Whole \o SubSeq(draft, 1, k)
      BY <1>1, <1>4, <1>5, CutOfJoin
    <3>2. QED
      BY <1>5, <3>1
  <2>6. QED
    BY <1>1, <2>1, <2>2, <2>3, <2>4, <2>5
<1>7. /\ KeptPrompt = kept /\ kept \in Seq(Tokens) /\ Len(kept) = Len(Whole) + k
  <2>1. KeptPrompt = kept
    BY <1>6 DEF KeptPrompt
  <2>2. kept \in Seq(Tokens) /\ Len(kept) = Len(Whole) + k
    <3>1. front \in Seq(Tokens) /\ Len(front) = k
      BY <1>5
    <3> HIDE DEF front, k
    <3>2. Whole \o front \in Seq(Tokens) /\ Len(Whole \o front) = Len(Whole) + Len(front)
      BY <1>4, <3>1, JoinAt
    <3>3. QED
      BY <3>1, <3>2
  <2>3. QED
    BY <2>1, <2>2
<1> HIDE DEF front, kept
<1>8. memory' = kept /\ prompt' = kept
  <2> DEFINE S == {Len(kept), Len(memory)}
  <2>1. Len(kept) \in Nat /\ Len(memory) \in Nat /\ Len(kept) <= Len(memory)
    BY <1>1, <1>4, <1>5, <1>6, <1>7
  <2>2. Min(S) = Len(kept)
    <3>1. S \in SUBSET Nat /\ S # {} /\ \A i \in S : Len(kept) <= i
      BY <2>1
    <3>2. Min(S) \in S /\ \A i \in S : Min(S) <= i
      <4> HIDE DEF S
      <4>1. QED
        BY <3>1, SmallestExists
    <3>3. Min(S) \in Nat /\ Min(S) <= Len(kept) /\ Len(kept) <= Min(S)
      BY <2>1, <3>1, <3>2
    <3>4. QED
      BY <2>1, <3>3
  <2>3. QED
    BY <1>1, <1>2, <1>6, <1>7, <2>2
<1>9. Removable(memory, Len(KeptPrompt))
  <2>1. Len(memory) - Len(KeptPrompt) = Len(draft) + 1 - Len(ids) /\ Len(memory) \in Nat /\ Len(KeptPrompt) \in Nat
    BY <1>1, <1>4, <1>5, <1>6, <1>7
  <2>2. CASE kind = "PART"
    BY <2>2 DEF Removable
  <2>3. CASE Len(draft) + 1 <= Len(ids)
    <3>1. Len(memory) <= Len(KeptPrompt)
      BY <1>1, <2>1, <2>3
    <3>2. QED
      BY <3>1 DEF Removable
  <2>4. CASE kind = "RS" /\ Len(draft) + 1 - Len(ids) <= RsDepth
    BY <2>1, <2>4 DEF Removable
  <2>5. QED
    BY <1>1, <2>2, <2>3, <2>4 DEF Restores
<1>10. PICK n \in 0 .. Len(ids) : /\ Emitted(ids) = SubSeq(ids, 1, n)
                                  /\ Finals(ids) = {} => n = Len(ids)
  BY <1>1, EmittedIs
<1> DEFINE more == SubSeq(ids, 1, n)
<1>11. /\ more \in Seq(Tokens) /\ Len(more) = n /\ n \in Nat /\ n <= Len(ids)
       /\ \A i \in 1 .. n : more[i] = ids[i]
  BY <1>1, CutAt
<1> HIDE DEF more
<1>12. /\ out' = out \o more /\ phase' = IF Finals(ids) = {} THEN "draft" ELSE "done"
  BY <1>2, <1>9, <1>10 DEF Emit, more
<1>13. /\ out' \in Seq(Tokens) /\ Len(out') = Len(out) + n
       /\ \A i \in 1 .. Len(out) + n : out'[i] = IF i <= Len(out) THEN out[i] ELSE more[i - Len(out)]
  <2> DEFINE o == out \o more
  <2>1. o \in Seq(Tokens) /\ Len(o) = Len(out) + Len(more)
        /\ \A i \in 1 .. Len(out) + Len(more) : o[i] = IF i <= Len(out) THEN out[i] ELSE more[i - Len(out)]
    BY <1>1, <1>11, JoinAt
  <2> HIDE DEF o
  <2>2. Len(more) = n
    BY <1>11
  <2>3. QED
    BY <1>12, <2>1, <2>2 DEF o
<1>14. SpecTypes'
  BY <1>1, <1>2, <1>3, <1>12, <1>13 DEF SInv, SpecTypes
<1>15. Decided'
  <2>1. SUFFICES ASSUME ~noisy PROVE Decided'
    BY <1>1 DEF Decided
  <2>2. /\ Len(out) <= Len(Decides) /\ Decides' = Decides
        /\ \A i \in 1 .. Len(out) : out[i] = Decides[i]
        /\ \A i \in 1 .. Len(ids) : ids[i] = Decides[Len(out) + i]
    BY <1>1, <2>1 DEF SInv, Decided, Decides
  <2>3. Len(out') <= Len(Decides)
    <3>1. Len(Decides) = Len(truth) /\ Len(truth) >= MaxPredict + MaxDraft /\ Len(truth) \in Nat
      BY PlainOf, PredictAssumption, TokensOf DEF SInv, SpecTypes, Decides
    <3>2. Len(out) + Len(draft) + 1 <= MaxPredict
      BY <1>1 DEF SInv, Going
    <3>3. QED
      BY <1>1, <1>4, <1>11, <1>13, <3>1, <3>2, PredictAssumption
  <2>4. ASSUME NEW i \in 1 .. Len(out') PROVE out'[i] = Decides[i]
    <3>1. i \in 1 .. Len(out) + n
      BY <1>13
    <3>2. CASE i <= Len(out)
      <4>1. i \in 1 .. Len(out)
        BY <1>4, <3>2
      <4>2. QED
        BY <1>13, <2>2, <3>1, <3>2, <4>1
    <3>3. CASE i > Len(out)
      <4>1. /\ i - Len(out) \in 1 .. n /\ i - Len(out) \in 1 .. Len(ids)
            /\ Len(out) + (i - Len(out)) = i /\ ~(i <= Len(out))
        BY <1>1, <1>4, <1>11, <3>1, <3>3
      <4>2. out'[i] = ids[i - Len(out)]
        BY <1>11, <1>13, <3>1, <4>1
      <4>3. QED
        BY <2>2, <4>1, <4>2
    <3>4. QED
      BY <1>4, <3>1, <3>2, <3>3
  <2>5. phase' # "sample"
    BY <1>12
  <2>6. QED
    BY <2>2, <2>3, <2>4, <2>5 DEF Decided
<1>16. CASE Finals(ids) # {}
  <2>1. phase' = "done"
    BY <1>12, <1>16
  <2>2. Backed' /\ Ready' /\ Sampling' /\ Going'
    BY <2>1 DEF Backed, Ready, Sampling, Going
  <2>3. QED
    BY <1>8, <1>14, <1>15, <2>2 DEF SInv
<1>17. CASE Finals(ids) = {}
  <2>1. phase' = "draft" /\ n = Len(ids) /\ more = ids
    BY <1>1, <1>10, <1>12, <1>17, CutWhole DEF more
  <2>2. out' = out \o ids
    BY <1>12, <2>1
  <2>3. Whole' = Whole \o ids
    <3>1. <<Prompt>> \in Seq(Tokens)
      BY TokensOf
    <3>2. QED
      BY <1>1, <2>2, <3>1, JoinAssoc DEF Whole
  <2>4. Before' = kept
    <3>1. Len(out') = Len(Whole) + k
      BY <1>1, <1>4, <1>13, <2>1
    <3>2. SubSeq(Whole \o ids, 1, Len(Whole) + k) = Whole \o SubSeq(ids, 1, k)
      <4> HIDE DEF k
      <4>1. QED
        BY <1>1, <1>4, <1>5, CutOfJoin
    <3>3. QED
      BY <2>3, <3>1, <3>2 DEF Before, kept, front
  <2>5. Ready'
    BY <1>1, <1>2, <1>8, <2>2, <2>4 DEF SInv, Ready, Sampling
  <2>6. Going'
    <3>1. Whole'[Len(out') + 1] = ids[Len(ids)]
      <4>1. \A i \in 1 .. Len(Whole) + Len(ids) :
               (Whole \o ids)[i] = IF i <= Len(Whole) THEN Whole[i] ELSE ids[i - Len(Whole)]
        BY <1>1, <1>4, JoinAt
      <4>2. /\ Len(out') + 1 \in 1 .. Len(Whole) + Len(ids) /\ ~(Len(out') + 1 <= Len(Whole))
            /\ Len(out') + 1 - Len(Whole) = Len(ids)
        BY <1>1, <1>4, <1>13, <2>1
      <4>3. QED
        BY <2>3, <4>1, <4>2
    <3>2. Len(out') + Len(draft') + 1 <= MaxPredict
      <4>1. Len(ids) \notin Finals(ids) /\ Len(ids) \in DOMAIN ids
        BY <1>1, <1>17
      <4>2. ~(Len(out) + Len(ids) >= MaxPredict)
        BY <4>1 DEF Finals
      <4>3. Len(draft') = 0
        BY <1>2
      <4>4. QED
        BY <1>1, <1>4, <1>13, <2>1, <4>2, <4>3, PredictAssumption
    <3>3. QED
      BY <1>2, <3>1, <3>2 DEF Going
  <2>7. Backed' /\ Sampling'
    BY <1>2, <2>1 DEF Backed, Sampling
  <2>8. QED
    BY <1>8, <1>14, <1>15, <2>5, <2>6, <2>7 DEF SInv
<1>18. QED
  BY <1>16, <1>17

LEMMA SpecStep == SInv /\ [SpecNext]_specVars => SInv'
<1>1. ASSUME SInv, Verify PROVE SInv'
  <2>1. CASE Len(draft) + 1 > Len(ids) /\ Restores
    <3>1. Restore
      BY <1>1, <2>1 DEF Verify
    <3>2. QED
      BY <1>1, <2>1, <3>1, RestoreStep
  <2>2. CASE ~(Len(draft) + 1 > Len(ids) /\ Restores)
    <3>1. Keep
      BY <1>1, <2>2 DEF Verify
    <3>2. QED
      BY <1>1, <2>2, <3>1, KeepStep
  <2>3. QED
    BY <2>1, <2>2
<1>2. ASSUME SInv, UNCHANGED specVars PROVE SInv'
  BY <1>2 DEF specVars, SInv, SpecTypes, Backed, Ready, Sampling, Going, Decided, NeedsCheckpoint,
              Whole, Before, Decides
<1>3. QED
  BY <1>1, <1>2, DecodeNewStep, DecodeReplayStep, SampleStep DEF SpecNext

\* Whatever is guessed, rejected, put back and decoded again, the prompt, the
\* memory, the sampler and the answer fit together before and in every pass.
THEOREM PassInvariant == SpecSpec => []SInv
BY SpecStart, SpecStep, PTL DEF SpecSpec

\* The sampler and the memory that a pass leaves to the next are those of the
\* answer: a copy that is put back has forgotten the rejected guesses and
\* remembers the budget, the memory holds the prompt and nothing else, and it is
\* never asked to forget what it cannot.
THEOREM PassesFit == SpecSpec => []PassesJoin
<1>1. SInv => PassesJoin
  <2>1. SUFFICES ASSUME SInv PROVE PassesJoin
    OBVIOUS
  <2>2. out \in Seq(Tokens) /\ phase # "aborted"
    BY <2>1 DEF SInv, SpecTypes
  <2>3. SamplerFollowsOutput
    BY <2>1 DEF SamplerFollowsOutput, SInv, Ready, Follow
  <2>4. phase = "draft" => prompt \o <<sampled>> = <<Prompt>> \o out
    <3>1. SUFFICES ASSUME phase = "draft" PROVE prompt \o <<sampled>> = <<Prompt>> \o out
      OBVIOUS
    <3>2. prompt = Before /\ sampled = Whole[Len(out) + 1]
      BY <2>1, <3>1 DEF SInv, Ready, Going
    <3>3. QED
      BY <2>2, <3>2, WholeIs DEF Whole
  <2>5. QED
    BY <2>1, <2>2, <2>3, <2>4 DEF PassesJoin, MemoryIsPrompt, SInv
<1>2. QED
  BY <1>1, PassInvariant, PTL

\* Speculative decoding does not change the answer of a model without noise:
\* what is emitted is what decoding one token at a time emits, with any drafter,
\* any kind of memory and any reasoning budget.
THEOREM SpeculationIsInvisible == SpecSpec => []OutputUnchanged
<1>1. SInv => OutputUnchanged
  <2>1. SUFFICES ASSUME SInv, ~noisy PROVE IsPrefix(out, Decides)
    BY DEF OutputUnchanged, Decides
  <2>2. /\ out \in Seq(Tokens) /\ Decides \in Seq(Tokens) /\ Len(out) <= Len(Decides)
        /\ \A i \in 1 .. Len(out) : out[i] = Decides[i]
    BY <2>1, PlainOf DEF SInv, SpecTypes, Decided, Decides
  <2> DEFINE l == SubSeq(out, 1, Len(out))
             r == SubSeq(Decides, 1, Len(out))
  <2>3. l \in Seq(Tokens) /\ Len(l) = Len(out) /\ \A i \in 1 .. Len(out) : l[i] = out[i]
    BY <2>2, CutAt
  <2>4. r \in Seq(Tokens) /\ Len(r) = Len(out) /\ \A i \in 1 .. Len(out) : r[i] = Decides[i]
    BY <2>2, CutAt
  <2> HIDE DEF l, r
  <2>5. l = r
    BY <2>2, <2>3, <2>4, SameSeq
  <2>6. QED
    BY <2>2, <2>5 DEF IsPrefix, l, r
<1>2. QED
  BY <1>1, PassInvariant, PTL

-----------------------------------------------------------------------------
(* A thinking block is closed within its window.                            *)

\* The tags of an answer: a block starts at one token, which neither the end
\* of a block nor what is forced at the end of the budget contains, and what is
\* forced closes the block.
PlainTags ==
    /\ \E o : StartTokens = <<o>> /\ o \notin Range(EndTokens) \union Range(ForcedTokens)
    /\ EndTokens \in Seq(Range(EndTokens))
    /\ Range(ForcedTokens) \intersect Range(EndTokens) # {}

\* Where the budget can be between two tokens.
Timed(b) ==
    /\ b \in Sounds /\ b.start = 0
    /\ b.state \in {"COUNTING", "WARN_FORCING"} => b.remaining \in 1 .. Budget
    /\ b.state = "WARN_FORCING" => b.warned /\ b.warnPos < Len(WarnTokens)
    /\ b.state = "FORCING" => b.forcePos < Len(ForcedTokens)

\* How many tokens the block has left.
Left(b) ==
    CASE b.state = "COUNTING" -> b.remaining + (IF b.warned THEN 0 ELSE Len(WarnTokens)) + Len(ForcedTokens)
      [] b.state = "WARN_FORCING" -> b.remaining + (Len(WarnTokens) - b.warnPos) + Len(ForcedTokens)
      [] b.state = "WAITING_UTF8" -> 1 + Len(ForcedTokens)
      [] b.state = "FORCING" -> Len(ForcedTokens) - b.forcePos
      [] OTHER -> 0

\* In a block, of which p is where the forced end closes it.
Closing(b, p) ==
    /\ b.state \in {"COUNTING", "WARN_FORCING", "WAITING_UTF8", "FORCING"}
    /\ b.state = "FORCING" => b.forcePos < p
Closer(p) == p \in 1 .. Len(ForcedTokens) /\ ForcedTokens[p] \in Range(EndTokens)

LEMMA LeftType ==
    ASSUME NEW b, Timed(b)
    PROVE  Left(b) \in Int
<1>1. b.remaining \in Int /\ b.warnPos \in Nat /\ b.forcePos \in Nat
  BY DEF Timed, Sounds, Budgets
<1>2. Len(WarnTokens) \in Nat /\ Len(ForcedTokens) \in Nat
  <2>1. WarnTokens \in Seq(Range(WarnTokens)) /\ ForcedTokens \in Seq(Range(ForcedTokens))
    BY TextAssumption
  <2>2. QED
    BY <2>1
<1>3. QED
  BY <1>1, <1>2 DEF Left

\* A token the sampler lets pass.
Allowed(b, x) == BudgetForces(b) # <<>> => x = Head(BudgetForces(b))

LEMMA TagFacts ==
    ASSUME PlainTags
    PROVE  /\ Len(WarnTokens) \in Nat /\ Len(ForcedTokens) \in Nat \ {0} /\ Budget \in Nat /\ WarnAt \in Nat
           /\ WarnTokens # <<>> => Len(WarnTokens) > 0
           /\ \A i \in 1 .. Len(ForcedTokens) : ForcedTokens[i] \in Range(ForcedTokens)
           /\ \E p : Closer(p)
<1>1. /\ WarnTokens \in Seq(Range(WarnTokens)) /\ ForcedTokens \in Seq(Range(ForcedTokens))
  BY TextAssumption
<1>2. PICK x \in Range(ForcedTokens) : x \in Range(EndTokens)
  BY DEF PlainTags
<1>3. PICK p \in DOMAIN ForcedTokens : ForcedTokens[p] = x
  BY DEF Range
<1>4. p \in 1 .. Len(ForcedTokens) /\ Len(ForcedTokens) \in Nat
  BY <1>1, <1>3
<1>5. Closer(p)
  BY <1>2, <1>3, <1>4 DEF Closer
<1>6. QED
  BY <1>1, <1>4, <1>5, BudgetAssumption

\* The start of a block is seen at its only token.
LEMMA StartIs ==
    ASSUME PlainTags, NEW b, b.start = 0, NEW x
    PROVE  /\ Advance(StartTokens, b.start, x) = 0
           /\ Starts(b, x) <=> x \in Range(StartTokens)
<1>1. PICK o : StartTokens = <<o>>
  BY DEF PlainTags
<1>2. Len(StartTokens) = 1 /\ StartTokens[1] = o /\ DOMAIN StartTokens = {1}
  BY <1>1
<1>3. Range(StartTokens) = {o}
  BY <1>2 DEF Range
<1>4. QED
  BY <1>2, <1>3 DEF Advance, Matches, Starts

LEMMA EndIs ==
    ASSUME PlainTags, NEW b \in Budgets, NEW x, Ends(b, x)
    PROVE  x \in Range(EndTokens)
<1>1. x = EndTokens[b.end + 1] /\ b.end + 1 = Len(EndTokens) /\ b.end \in Nat
  BY DEF Ends, Matches, Budgets
<1>2. EndTokens \in Seq(Range(EndTokens))
  BY DEF PlainTags
<1>3. b.end + 1 \in DOMAIN EndTokens
  BY <1>1, <1>2
<1>4. QED
  BY <1>1, <1>3 DEF Range

\* The branches of common_reasoning_budget_accept, by what they leave.
LEMMA ActivatedIs ==
    ASSUME PlainTags, NEW b \in Budgets, b.start = 0
    PROVE  LET c == Activated(b) IN
           /\ Timed(c) /\ Left(c) <= Window /\ \A p : Closer(p) => Closing(c, p)
<1> DEFINE c == Activated(b)
           forced == [b EXCEPT !.state = "FORCING", !.remaining = Budget, !.forcePos = 0]
           counts == [b EXCEPT !.state = "COUNTING", !.remaining = Budget]
<1>1. Budget \in Nat /\ Len(WarnTokens) \in Nat /\ Len(ForcedTokens) \in Nat \ {0}
  BY TagFacts
<1>2. c = IF Budget <= 0 THEN forced ELSE counts
  BY DEF Activated
<1>3. /\ forced.state = "FORCING" /\ forced.forcePos = 0 /\ forced.start = 0
      /\ counts.state = "COUNTING" /\ counts.remaining = Budget /\ counts.start = 0
      /\ counts.warned \in BOOLEAN
  BY <1>1 DEF Budgets
<1> HIDE DEF forced, counts
<1>4. c \in Sounds
  BY ActivatedSound DEF Sounds, Sound
<1>5. Timed(c)
  BY <1>1, <1>2, <1>3, <1>4 DEF Timed
<1>6. Left(c) <= Window
  BY <1>1, <1>2, <1>3 DEF Left, Window
<1>7. \A p : Closer(p) => Closing(c, p)
  BY <1>1, <1>2, <1>3 DEF Closer, Closing
<1> HIDE DEF c
<1>8. QED
  BY <1>5, <1>6, <1>7 DEF c

\* A token inside a block that does not close it.
LEMMA SpentIs ==
    ASSUME PlainTags, NEW b, Timed(b), b.state = "COUNTING", NEW e \in Nat, NEW x
    PROVE  LET c == Spent([b EXCEPT !.end = e], x) IN
           /\ Timed(c) /\ Left(c) <= Window /\ \A p : Closer(p) => Closing(c, p)
           /\ Complete(x) => Left(c) <= Left(b) - 1
<1> DEFINE seen == [b EXCEPT !.end = e]
           c == Spent(seen, x)
           left == seen.remaining - 1
           warns == ~seen.warned /\ WarnTokens # <<>> /\ Complete(x) /\ left <= WarnAt /\ left > 0
           warning == [seen EXCEPT !.remaining = left, !.warned = TRUE, !.warnPos = 0, !.end = 0,
                                !.state = "WARN_FORCING"]
           forced == [seen EXCEPT !.remaining = left, !.state = "FORCING", !.forcePos = 0, !.end = 0]
           waits == [seen EXCEPT !.remaining = left, !.state = "WAITING_UTF8", !.end = 0]
           counts == [seen EXCEPT !.remaining = left]
<1>1. /\ Budget \in Nat /\ Len(WarnTokens) \in Nat /\ Len(ForcedTokens) \in Nat \ {0}
      /\ WarnTokens # <<>> => Len(WarnTokens) > 0
  BY TagFacts
<1>2. /\ b \in Budgets /\ Budget # 0 /\ b.remaining \in 1 .. Budget /\ b.start = 0 /\ b.warned \in BOOLEAN
  BY DEF Timed, Sounds, Sound, Budgets
<1>3. /\ seen \in Budgets /\ seen.remaining = b.remaining /\ seen.warned = b.warned
      /\ seen.state = "COUNTING" /\ seen.start = 0
  BY <1>2 DEF Budgets
<1> HIDE DEF seen
<1>4. c = CASE warns -> warning
            [] ~warns /\ left <= 0 /\ Complete(x) -> forced
            [] ~warns /\ left <= 0 /\ ~Complete(x) -> waits
            [] ~warns /\ left > 0 -> counts
  BY DEF Spent
<1>5. c \in Sounds
  BY <1>2, <1>3, SpentSound DEF Sounds, Sound
<1>6. left \in 0 .. Budget - 1 /\ left = b.remaining - 1
  BY <1>1, <1>2, <1>3
<1> HIDE DEF left
<1>7. /\ warning.state = "WARN_FORCING" /\ warning.remaining = left /\ warning.warned
      /\ warning.warnPos = 0 /\ warning.start = 0
  BY <1>3 DEF Budgets
<1>8. forced.state = "FORCING" /\ forced.forcePos = 0 /\ forced.start = 0
  BY <1>3 DEF Budgets
<1>9. waits.state = "WAITING_UTF8" /\ waits.start = 0
  BY <1>3 DEF Budgets
<1>10. /\ counts.state = "COUNTING" /\ counts.remaining = left /\ counts.start = 0
       /\ counts.warned = b.warned
  BY <1>3 DEF Budgets
<1> HIDE DEF warning, forced, waits, counts
<1>11. Left(b) = b.remaining + (IF b.warned THEN 0 ELSE Len(WarnTokens)) + Len(ForcedTokens)
  BY DEF Left
<1>12. CASE warns
  <2>1. c = warning /\ left > 0 /\ ~b.warned /\ Len(WarnTokens) > 0
    BY <1>1, <1>3, <1>4, <1>12
  <2>2. Left(c) = left + (Len(WarnTokens) - 0) + Len(ForcedTokens)
    BY <1>7, <2>1 DEF Left
  <2> HIDE DEF c
  <2>3. Timed(c) /\ \A p : Closing(c, p)
    BY <1>1, <1>5, <1>6, <1>7, <2>1 DEF Timed, Closing
  <2>4. Left(c) <= Window /\ Left(c) <= Left(b) - 1
    BY <1>1, <1>2, <1>6, <1>11, <2>1, <2>2 DEF Window
  <2>5. QED
    BY <2>3, <2>4 DEF c, seen
<1>13. CASE ~warns /\ left <= 0 /\ Complete(x)
  <2>1. c = forced
    BY <1>4, <1>6, <1>13
  <2>2. Left(c) = Len(ForcedTokens) - 0
    BY <1>8, <2>1 DEF Left
  <2> HIDE DEF c
  <2>3. Timed(c) /\ \A p : Closer(p) => Closing(c, p)
    BY <1>1, <1>5, <1>8, <2>1 DEF Timed, Closing, Closer
  <2>4. Left(c) <= Window /\ Left(c) <= Left(b) - 1
    BY <1>1, <1>2, <1>11, <2>2 DEF Window
  <2>5. QED
    BY <2>3, <2>4 DEF c, seen
<1>14. CASE ~warns /\ left <= 0 /\ ~Complete(x)
  <2>1. c = waits
    BY <1>4, <1>6, <1>14
  <2>2. Left(c) = 1 + Len(ForcedTokens)
    BY <1>9, <2>1 DEF Left
  <2> HIDE DEF c
  <2>3. Timed(c) /\ \A p : Closing(c, p)
    BY <1>1, <1>5, <1>9, <2>1 DEF Timed, Closing
  <2>4. Left(c) <= Window
    BY <1>1, <1>2, <2>2 DEF Window
  <2>5. QED
    BY <1>14, <2>3, <2>4 DEF c, seen
<1>15. CASE ~warns /\ left > 0
  <2>1. c = counts
    BY <1>4, <1>6, <1>15
  <2>2. Left(c) = left + (IF b.warned THEN 0 ELSE Len(WarnTokens)) + Len(ForcedTokens)
    BY <1>10, <2>1 DEF Left
  <2> HIDE DEF c
  <2>3. Timed(c) /\ \A p : Closing(c, p)
    BY <1>1, <1>5, <1>6, <1>10, <1>15, <2>1 DEF Timed, Closing
  <2>4. Left(c) <= Window /\ Left(c) <= Left(b) - 1
    <3> DEFINE w == IF b.warned THEN 0 ELSE Len(WarnTokens)
    <3>1. w \in 0 .. Len(WarnTokens)
      BY <1>1
    <3>2. Left(c) = left + w + Len(ForcedTokens) /\ Left(b) = b.remaining + w + Len(ForcedTokens)
      BY <1>11, <2>2
    <3>3. b.remaining \in Int
      BY <1>2
    <3> HIDE DEF w
    <3> DEFINE W == Len(WarnTokens)
               E == Len(ForcedTokens)
               q == Left(c)
               r == Left(b)
    <3>4. /\ W \in Nat /\ E \in Nat /\ Budget \in Nat /\ w \in 0 .. W /\ left \in 0 .. Budget - 1
          /\ q = left + w + E /\ r = (left + 1) + w + E
      BY <1>1, <1>6, <3>1, <3>2, <3>3
    <3>5. Window = Budget + W + E
      BY DEF Window
    <3> HIDE DEF W, E, q, r
    <3>6. q <= Window /\ q <= r - 1
      BY <3>4, <3>5
    <3>7. QED
      BY <3>6 DEF q, r
  <2>5. QED
    BY <2>3, <2>4 DEF c, seen
<1>16. QED
  BY <1>6, <1>12, <1>13, <1>14, <1>15

LEMMA WarningIs ==
    ASSUME PlainTags, NEW b, Timed(b), b.state = "WARN_FORCING"
    PROVE  LET c == InWarning(b) IN
           /\ Timed(c) /\ Left(c) <= Window /\ Left(c) <= Left(b) - 1
           /\ \A p : Closing(c, p)
<1> DEFINE c == InWarning(b)
           next == b.warnPos + 1
           done == [b EXCEPT !.warnPos = next, !.state = "COUNTING", !.end = 0]
           more == [b EXCEPT !.warnPos = next]
<1>1. /\ Budget \in Nat /\ Len(WarnTokens) \in Nat /\ Len(ForcedTokens) \in Nat
  BY TagFacts
<1>2. /\ b \in Budgets /\ Budget # 0 /\ b.remaining \in 1 .. Budget /\ b.start = 0 /\ b.warned
      /\ b.warnPos \in Nat /\ b.warnPos < Len(WarnTokens)
  BY DEF Timed, Sounds, Sound, Budgets
<1>3. c = IF next >= Len(WarnTokens) THEN done ELSE more
  BY DEF InWarning
<1>4. next \in Nat /\ next = b.warnPos + 1
  BY <1>2
<1> HIDE DEF next
<1>5. /\ done \in Budgets /\ done.state = "COUNTING" /\ done.start = 0 /\ done.warned
      /\ done.remaining = b.remaining
  BY <1>2, <1>4 DEF Budgets
<1>6. /\ more \in Budgets /\ more.state = "WARN_FORCING" /\ more.start = 0 /\ more.warned
      /\ more.remaining = b.remaining /\ more.warnPos = next
  BY <1>2, <1>4 DEF Budgets
<1> HIDE DEF done, more
<1>7. Left(b) = b.remaining + (Len(WarnTokens) - b.warnPos) + Len(ForcedTokens)
  BY DEF Left
<1>8. CASE next >= Len(WarnTokens)
  <2>1. c = done
    BY <1>3, <1>8
  <2>2. Left(c) = b.remaining + 0 + Len(ForcedTokens)
    BY <1>5, <2>1 DEF Left
  <2> HIDE DEF c
  <2>3. Timed(c) /\ \A p : Closing(c, p)
    BY <1>2, <1>5, <2>1 DEF Timed, Closing, Sounds, Sound
  <2>4. Left(c) <= Window /\ Left(c) <= Left(b) - 1
    BY <1>1, <1>2, <1>7, <2>2 DEF Window
  <2>5. QED
    BY <2>3, <2>4 DEF c
<1>9. CASE ~(next >= Len(WarnTokens))
  <2>1. c = more
    BY <1>3, <1>9
  <2>2. Left(c) = b.remaining + (Len(WarnTokens) - next) + Len(ForcedTokens)
    BY <1>6, <2>1 DEF Left
  <2> HIDE DEF c
  <2>3. Timed(c) /\ \A p : Closing(c, p)
    BY <1>1, <1>2, <1>4, <1>6, <1>9, <2>1 DEF Timed, Closing, Sounds, Sound
  <2> DEFINE w == Len(WarnTokens)
             f == Len(ForcedTokens)
             r == b.remaining
             n == b.warnPos
  <2>4. /\ w \in Nat /\ f \in Nat /\ r \in Nat /\ n \in Nat /\ r <= Budget /\ next = n + 1 /\ Budget \in Nat
        /\ Left(c) = r + (w - next) + f /\ Left(b) = r + (w - n) + f /\ Window = Budget + w + f
    BY <1>1, <1>2, <1>4, <1>7, <2>2 DEF Window
  <2> HIDE DEF w, f, r, n
  <2>5. Left(c) <= Window /\ Left(c) <= Left(b) - 1
    BY <2>4
  <2>6. QED
    BY <2>3, <2>5 DEF c
<1>10. QED
  BY <1>8, <1>9

LEMMA ForcingIs ==
    ASSUME PlainTags, NEW b, Timed(b), b.state = "FORCING"
    PROVE  LET c == InForcing(b) IN
           /\ Timed(c)
           /\ BudgetForces(b) = <<ForcedTokens[b.forcePos + 1]>>
           /\ ForcedTokens[b.forcePos + 1] \in Range(ForcedTokens)
           /\ \A p : Closer(p) /\ b.forcePos < p /\ b.forcePos + 1 # p =>
                 Closing(c, p) /\ Left(c) <= Left(b) - 1
<1> DEFINE c == InForcing(b)
           next == b.forcePos + 1
           done == [b EXCEPT !.forcePos = next, !.state = "DONE"]
           more == [b EXCEPT !.forcePos = next]
<1>1. /\ Len(ForcedTokens) \in Nat
      /\ \A i \in 1 .. Len(ForcedTokens) : ForcedTokens[i] \in Range(ForcedTokens)
  BY TagFacts
<1>2. b \in Sounds /\ b \in Budgets /\ b.start = 0 /\ b.forcePos \in Nat /\ b.forcePos < Len(ForcedTokens)
  BY DEF Timed, Sounds, Budgets
<1>3. c = IF next >= Len(ForcedTokens) THEN done ELSE more
  BY DEF InForcing
<1>4. next \in 1 .. Len(ForcedTokens) /\ next \in Nat /\ next = b.forcePos + 1
  BY <1>1, <1>2
<1>5. BudgetForces(b) = <<ForcedTokens[next]>> /\ ForcedTokens[next] \in Range(ForcedTokens)
  BY <1>1, <1>2, <1>4 DEF BudgetForces
<1> HIDE DEF next
<1>6. done \in Budgets /\ done.state = "DONE" /\ done.start = 0
  BY <1>2, <1>4 DEF Budgets
<1>7. more \in Budgets /\ more.state = "FORCING" /\ more.start = 0 /\ more.forcePos = next
  BY <1>2, <1>4 DEF Budgets
<1> HIDE DEF done, more
<1>8. Timed(c)
  BY <1>1, <1>3, <1>4, <1>6, <1>7 DEF Timed, Sounds, Sound
<1>9. ASSUME NEW p, Closer(p), b.forcePos < p, next # p
      PROVE  Closing(c, p) /\ Left(c) <= Left(b) - 1
  <2>1. p \in 1 .. Len(ForcedTokens) /\ next < p
    BY <1>2, <1>4, <1>9 DEF Closer
  <2>2. c = more
    BY <1>1, <1>3, <1>4, <2>1
  <2>3. Left(c) = Len(ForcedTokens) - next /\ Left(b) = Len(ForcedTokens) - b.forcePos
    BY <1>7, <2>2 DEF Left
  <2> HIDE DEF c
  <2>4. Closing(c, p)
    BY <1>7, <2>1, <2>2 DEF Closing
  <2>5. QED
    BY <1>1, <1>2, <1>4, <2>3, <2>4
<1> HIDE DEF c
<1>10. QED
  BY <1>5, <1>8, <1>9 DEF c, next

\* Between the blocks, and where a block begins.
LEMMA OutsideIs ==
    ASSUME PlainTags, NEW b, Timed(b), b.state \in {"IDLE", "DONE"}, NEW x
    PROVE  LET c == BudgetAccept(b, x) IN
           /\ Timed(c)
           /\ x \in Range(StartTokens) => Left(c) <= Window /\ \A p : Closer(p) => Closing(c, p)
<1> DEFINE c == BudgetAccept(b, x)
           seen == [b EXCEPT !.start = Advance(StartTokens, b.start, x)]
           reset == [seen EXCEPT !.end = 0, !.warned = FALSE, !.warnPos = 0]
<1>1. b \in Budgets /\ b.start = 0
  BY DEF Timed, Sounds
<1>2. Advance(StartTokens, b.start, x) = 0 /\ (Starts(b, x) <=> x \in Range(StartTokens))
  BY <1>1, StartIs
<1>3. seen \in Budgets /\ seen.start = 0 /\ seen.state = b.state
  BY <1>1, <1>2 DEF Budgets
<1>4. reset \in Budgets /\ reset.start = 0
  BY <1>3 DEF Budgets
<1>5. IF Starts(b, x) THEN c \in {Activated(seen), Activated(reset)} ELSE c = seen
  BY DEF BudgetAccept, InIdle, InDone
<1>6. CASE Starts(b, x)
  <2> HIDE DEF c, seen, reset
  <2>1. c \in {Activated(seen), Activated(reset)}
    BY <1>5, <1>6
  <2>2. QED
    BY <1>3, <1>4, <2>1, ActivatedIs DEF c
<1>7. CASE ~Starts(b, x)
  <2>1. c = seen
    BY <1>5, <1>7
  <2> HIDE DEF c, seen, reset
  <2>2. Timed(c)
    BY <1>3, <2>1 DEF Timed, Sounds, Sound
  <2>3. QED
    BY <1>2, <1>7, <2>2 DEF c
<1>8. QED
  BY <1>6, <1>7

\* In a block that counts or waits.
LEMMA ThinkingIs ==
    ASSUME PlainTags, NEW b, Timed(b), b.state \in {"COUNTING", "WAITING_UTF8"}, NEW x
    PROVE  LET c == BudgetAccept(b, x) IN
           /\ Timed(c)
           /\ x \notin Range(EndTokens) =>
                 /\ Left(c) <= Window /\ \A p : Closer(p) => Closing(c, p)
                 /\ Complete(x) => Left(c) <= Left(b) - 1
<1> DEFINE c == BudgetAccept(b, x)
           e == Advance(EndTokens, b.end, x)
           seen == [b EXCEPT !.end = e]
           over == [seen EXCEPT !.state = "DONE"]
           forced == [seen EXCEPT !.state = "FORCING", !.forcePos = 0, !.end = 0]
<1>1. /\ b \in Budgets /\ Budget # 0 /\ b.start = 0 /\ b.end \in Nat
      /\ Budget \in Nat /\ Len(WarnTokens) \in Nat /\ Len(ForcedTokens) \in Nat \ {0}
  BY TagFacts DEF Timed, Sounds, Sound, Budgets
<1>2. e \in Nat
  BY <1>1, AdvanceType
<1>3. c = CASE Ends(b, x) -> over
            [] ~Ends(b, x) /\ b.state = "COUNTING" -> Spent(seen, x)
            [] ~Ends(b, x) /\ b.state = "WAITING_UTF8" -> IF Complete(x) THEN forced ELSE seen
  BY DEF BudgetAccept, InThinking
<1> HIDE DEF e
<1>4. seen \in Budgets /\ seen.start = 0 /\ seen.state = b.state
  BY <1>1, <1>2 DEF Budgets
<1>5. over \in Budgets /\ over.start = 0 /\ over.state = "DONE"
  BY <1>4 DEF Budgets
<1>6. forced \in Budgets /\ forced.start = 0 /\ forced.state = "FORCING" /\ forced.forcePos = 0
  BY <1>4 DEF Budgets
<1> HIDE DEF over, forced
<1>7. CASE Ends(b, x)
  <2>1. c = over
    BY <1>3, <1>7
  <2>2. x \in Range(EndTokens)
    BY <1>1, <1>7, EndIs
  <2> HIDE DEF c
  <2>3. Timed(c)
    BY <1>1, <1>5, <2>1 DEF Timed, Sounds, Sound
  <2>4. QED
    BY <2>2, <2>3 DEF c
<1>8. CASE ~Ends(b, x) /\ b.state = "COUNTING"
  <2>1. c = Spent(seen, x)
    BY <1>3, <1>8
  <2> HIDE DEF c
  <2>2. QED
    BY <1>2, <1>8, <2>1, SpentIs DEF c
<1>9. CASE ~Ends(b, x) /\ b.state = "WAITING_UTF8"
  <2>1. Left(b) = 1 + Len(ForcedTokens)
    BY <1>9 DEF Left
  <2>2. CASE Complete(x)
    <3>1. c = forced
      BY <1>3, <1>9, <2>2
    <3>2. Left(c) = Len(ForcedTokens) - 0
      BY <1>6, <3>1 DEF Left
    <3> HIDE DEF c
    <3>3. Timed(c) /\ \A p : Closer(p) => Closing(c, p)
      BY <1>1, <1>6, <3>1 DEF Timed, Sounds, Sound, Closing, Closer
    <3>4. Left(c) <= Window /\ Left(c) <= Left(b) - 1
      BY <1>1, <2>1, <3>2 DEF Window
    <3>5. QED
      BY <3>3, <3>4 DEF c
  <2>3. CASE ~Complete(x)
    <3>1. c = seen
      BY <1>3, <1>9, <2>3
    <3> HIDE DEF seen
    <3>2. Left(c) = 1 + Len(ForcedTokens)
      BY <1>4, <1>9, <3>1 DEF Left
    <3> HIDE DEF c
    <3>3. Timed(c) /\ \A p : Closing(c, p)
      BY <1>1, <1>4, <1>9, <3>1 DEF Timed, Sounds, Sound, Closing
    <3>4. Left(c) <= Window
      BY <1>1, <3>2 DEF Window
    <3>5. QED
      BY <2>3, <3>3, <3>4 DEF c
  <2>4. QED
    BY <2>2, <2>3
<1>10. QED
  BY <1>7, <1>8, <1>9

\* Any token: where the budget can be; a token that starts a block and is let
\* pass: a whole window is left at most; a complete one in a block that does not
\* close it: one less is left.
LEMMA AcceptIs ==
    ASSUME PlainTags, NEW b, Timed(b), NEW x
    PROVE  LET c == BudgetAccept(b, x) IN
           /\ Timed(c)
           /\ x \in Range(StartTokens) /\ Allowed(b, x) =>
                 Left(c) <= Window /\ \A p : Closer(p) => Closing(c, p)
           /\ \A p : Closer(p) /\ Closing(b, p) /\ Allowed(b, x) /\ Complete(x) /\ x \notin Range(EndTokens) =>
                 Closing(c, p) /\ Left(c) <= Left(b) - 1
<1> DEFINE c == BudgetAccept(b, x)
<1>1. b.state \in {"IDLE", "COUNTING", "WARN_FORCING", "FORCING", "WAITING_UTF8", "DONE"}
  BY DEF Timed, Sounds, Budgets
<1>2. x \in Range(StartTokens) => x \notin Range(EndTokens) /\ x \notin Range(ForcedTokens)
  <2>1. PICK o : StartTokens = <<o>> /\ o \notin Range(EndTokens) \union Range(ForcedTokens)
    BY DEF PlainTags
  <2>2. Range(StartTokens) = {o}
    BY <2>1 DEF Range
  <2>3. QED
    BY <2>1, <2>2
<1>3. CASE b.state \in {"IDLE", "DONE"}
  <2>1. \A p : ~Closing(b, p)
    BY <1>3 DEF Closing
  <2>2. QED
    BY <1>3, <2>1, OutsideIs
<1>4. CASE b.state \in {"COUNTING", "WAITING_UTF8"}
  BY <1>2, <1>4, ThinkingIs
<1>5. CASE b.state = "WARN_FORCING"
  <2>1. c = InWarning(b)
    BY <1>5 DEF BudgetAccept
  <2> HIDE DEF c
  <2>2. QED
    BY <1>5, <2>1, WarningIs DEF c
<1>6. CASE b.state = "FORCING"
  <2>1. c = InForcing(b)
    BY <1>6 DEF BudgetAccept
  <2> DEFINE f == ForcedTokens[b.forcePos + 1]
  <2>2. /\ Timed(c) /\ BudgetForces(b) = <<f>> /\ f \in Range(ForcedTokens)
        /\ \A p : Closer(p) /\ b.forcePos < p /\ b.forcePos + 1 # p => Closing(c, p) /\ Left(c) <= Left(b) - 1
    BY <1>6, <2>1, ForcingIs
  <2>3. Allowed(b, x) => x = f
    BY <2>2 DEF Allowed
  <2>4. ~(x \in Range(StartTokens) /\ Allowed(b, x))
    BY <1>2, <2>2, <2>3
  <2>5. ASSUME NEW p, Closer(p), Closing(b, p), Allowed(b, x), x \notin Range(EndTokens)
        PROVE  b.forcePos < p /\ b.forcePos + 1 # p
    <3>1. b.forcePos < p
      BY <1>6, <2>5 DEF Closing
    <3>2. b.forcePos + 1 # p
      BY <2>3, <2>5 DEF Closer
    <3>3. QED
      BY <3>1, <3>2
  <2> HIDE DEF c, f
  <2>6. QED
    BY <2>2, <2>4, <2>5 DEF c
<1>7. QED
  BY <1>1, <1>3, <1>4, <1>5, <1>6

\* After any tokens.
LEMMA TimedRun ==
    ASSUME PlainTags, NEW T, NEW s \in Seq(T), NEW b, Timed(b)
    PROVE  Timed(BudgetAfter(b, s))
<1>1. b \in Sounds
  BY DEF Timed
<1> DEFINE N == {m \in Nat : m <= Len(s) => Timed(BudgetAfter(b, SubSeq(s, 1, m)))}
<1>2. 0 \in N
  <2>1. SubSeq(s, 1, 0) = <<>> /\ <<>> \in Seq(T)
    OBVIOUS
  <2>2. BudgetAfter(b, <<>>) = b
    BY <1>1, <2>1, BudgetRun
  <2>3. QED
    BY <2>1, <2>2
<1>3. ASSUME NEW m \in N PROVE m + 1 \in N
  <2>1. SUFFICES ASSUME m + 1 <= Len(s) PROVE Timed(BudgetAfter(b, SubSeq(s, 1, m + 1)))
    BY <1>3
  <2> DEFINE t == SubSeq(s, 1, m)
  <2>2. t \in Seq(T) /\ s[m + 1] \in T /\ SubSeq(s, 1, m + 1) = Append(t, s[m + 1])
    BY <1>3, <2>1
  <2>3. Timed(BudgetAfter(b, t))
    BY <1>3, <2>1
  <2> HIDE DEF t
  <2>4. BudgetAfter(b, Append(t, s[m + 1])) = BudgetAccept(BudgetAfter(b, t), s[m + 1])
    BY <1>1, <2>2, BudgetRun
  <2>5. QED
    BY <2>2, <2>3, <2>4, AcceptIs
<1>4. N = Nat
  <2> HIDE DEF N
  <2>1. N \in SUBSET Nat
    BY DEF N
  <2>2. QED
    BY <1>2, <1>3, <2>1, NatInductionSet
<1>5. Len(s) \in Nat /\ SubSeq(s, 1, Len(s)) = s
  OBVIOUS
<1>6. Len(s) \in N
  <2> HIDE DEF N
  <2>1. QED
    BY <1>4, <1>5
<1>7. Timed(BudgetAfter(b, SubSeq(s, 1, Len(s))))
  BY <1>5, <1>6
<1>8. QED
  BY <1>5, <1>7

LEMMA FreshTimed ==
    ASSUME PlainTags
    PROVE  /\ Timed(FreshSampler.budget)
           /\ Prefill = StartTokens =>
                 /\ Left(FreshSampler.budget) <= Window
                 /\ \A p : Closer(p) => Closing(FreshSampler.budget, p)
<1> DEFINE i == InitState("IDLE")
           b == FreshSampler.budget
<1>1. i.state = "IDLE" /\ i.start = 0
  BY DEF InitState
<1>2. i \in Sounds
  BY FreshSound DEF Sounds, Sound
<1> HIDE DEF i
<1>3. Timed(i)
  BY <1>1, <1>2 DEF Timed
<1>4. b = BudgetAfter(i, Prefill) /\ Prefill \in Seq(Range(Prefill))
  BY TextAssumption DEF FreshSampler, i
<1>5. Timed(b)
  BY <1>3, <1>4, TimedRun
<1>6. ASSUME Prefill = StartTokens
      PROVE  Left(b) <= Window /\ \A p : Closer(p) => Closing(b, p)
  <2>1. PICK o : StartTokens = <<o>>
    BY DEF PlainTags
  <2>2. o \in Range(StartTokens) /\ <<>> \in Seq({o}) /\ Prefill = Append(<<>>, o)
    BY <1>6, <2>1 DEF Range
  <2>3. b = BudgetAccept(i, o)
    <3>1. BudgetAfter(i, Append(<<>>, o)) = BudgetAccept(BudgetAfter(i, <<>>), o)
      BY <1>2, <2>2, BudgetRun
    <3>2. BudgetAfter(i, <<>>) = i
      BY <1>2, <2>2, BudgetRun
    <3>3. QED
      BY <1>4, <2>2, <3>1, <3>2
  <2>4. Allowed(i, o)
    BY <1>1 DEF Allowed, BudgetForces
  <2> HIDE DEF b
  <2>5. QED
    BY <1>3, <2>2, <2>3, <2>4, AcceptIs
<1>7. QED
  BY <1>5, <1>6

\* Every token is one that the sampler let pass after those before it.
Obeys(s) ==
    \A i \in 1 .. Len(s) : Allowed(BudgetAfter(FreshSampler.budget, SubSeq(s, 1, i - 1)), s[i])

\* Such an answer closes its blocks.
LEMMA ObedientCloses ==
    ASSUME PlainTags, out \in Seq(Tokens), Obeys(out)
    PROVE  ThinkingEnds
<1>1. PICK p : Closer(p)
  BY TagFacts
<1>2. Window \in Nat /\ Len(out) \in Nat
  BY TagFacts DEF Window
<1> DEFINE first == FreshSampler.budget
           st(i) == BudgetAfter(first, SubSeq(out, 1, i))
<1>3. Timed(first) /\ first \in Sounds
  BY FreshTimed, FreshBudget
<1> HIDE DEF first
<1>4. st(0) = first
  <2>1. SubSeq(out, 1, 0) = <<>> /\ <<>> \in Seq(Tokens)
    OBVIOUS
  <2>2. QED
    BY <1>3, <2>1, BudgetRun
<1>5. ASSUME NEW i \in 0 .. Len(out) PROVE Timed(st(i))
  <2>1. SubSeq(out, 1, i) \in Seq(Tokens)
    BY <1>2
  <2>2. QED
    BY <1>3, <2>1, TimedRun
<1>6. ASSUME NEW i \in 1 .. Len(out)
      PROVE  st(i) = BudgetAccept(st(i - 1), out[i]) /\ Allowed(st(i - 1), out[i])
  <2> DEFINE t == SubSeq(out, 1, i - 1)
  <2>1. t \in Seq(Tokens) /\ out[i] \in Tokens /\ SubSeq(out, 1, i) = Append(t, out[i])
    BY <1>2
  <2> HIDE DEF t
  <2>2. BudgetAfter(first, Append(t, out[i])) = BudgetAccept(BudgetAfter(first, t), out[i])
    BY <1>3, <2>1, BudgetRun
  <2>3. Allowed(BudgetAfter(first, t), out[i])
    BY DEF Obeys, first, t
  <2>4. QED
    BY <2>1, <2>2, <2>3 DEF t
<1> HIDE DEF st
<1>7. SUFFICES ASSUME NEW s \in 0 .. Len(out) - Window, Opens(s),
                      \A i \in s + 1 .. s + Window : Complete(out[i]),
                      \A e \in s + 1 .. s + Window : out[e] \notin Range(EndTokens)
               PROVE  FALSE
  BY DEF ThinkingEnds
<1>8. Left(st(s)) <= Window /\ Closing(st(s), p)
  <2>1. CASE s = 0
    <3>1. Prefill = StartTokens
      BY <1>7, <2>1 DEF Opens
    <3>2. QED
      BY <1>1, <1>4, <2>1, <3>1, FreshTimed DEF first
  <2>2. CASE s # 0
    <3>1. out[s] \in Range(StartTokens) /\ s \in 1 .. Len(out) /\ s - 1 \in 0 .. Len(out)
      BY <1>2, <1>7, <2>2 DEF Opens
    <3>2. Timed(st(s - 1)) /\ st(s) = BudgetAccept(st(s - 1), out[s]) /\ Allowed(st(s - 1), out[s])
      BY <1>5, <1>6, <3>1
    <3>3. QED
      BY <1>1, <3>1, <3>2, AcceptIs
  <2>3. QED
    BY <2>1, <2>2
<1> DEFINE N == {k \in Nat : k <= Window => Left(st(s + k)) <= Window - k /\ Closing(st(s + k), p)}
<1>9. 0 \in N
  <2>1. s + 0 = s /\ Window - 0 = Window
    BY <1>2
  <2>2. QED
    BY <1>8, <2>1
<1>10. ASSUME NEW k \in N PROVE k + 1 \in N
  <2>1. SUFFICES ASSUME k + 1 <= Window
                 PROVE  Left(st(s + (k + 1))) <= Window - (k + 1) /\ Closing(st(s + (k + 1)), p)
    BY <1>10
  <2>2. Left(st(s + k)) <= Window - k /\ Closing(st(s + k), p) /\ k \in Nat
    BY <1>2, <1>10, <2>1
  <2> DEFINE i == s + (k + 1)
             was == st(s + k)
  <2>3. i \in 1 .. Len(out) /\ i - 1 = s + k /\ s + k \in 0 .. Len(out) /\ i \in s + 1 .. s + Window
    BY <1>2, <2>1, <2>2
  <2>4. Timed(was) /\ st(i) = BudgetAccept(was, out[i]) /\ Allowed(was, out[i])
    BY <1>5, <1>6, <2>3
  <2>5. Complete(out[i]) /\ out[i] \notin Range(EndTokens)
    BY <1>7, <2>3
  <2> HIDE DEF i, was
  <2>6. Closing(st(i), p) /\ Left(st(i)) <= Left(was) - 1
    BY <1>1, <2>2, <2>4, <2>5, AcceptIs DEF was
  <2>7. Left(st(i)) \in Int /\ Left(was) \in Int
    <3>1. i \in 0 .. Len(out)
      BY <2>3
    <3>2. QED
      BY <1>5, <2>4, <3>1, LeftType
  <2>8. Left(was) <= Window - k
    BY <2>2 DEF was
  <2>9. Left(st(i)) <= Window - (k + 1)
    BY <1>2, <2>2, <2>6, <2>7, <2>8
  <2>10. QED
    BY <2>6, <2>9 DEF i
<1>11. N = Nat
  <2> HIDE DEF N
  <2>1. N \in SUBSET Nat
    BY DEF N
  <2>2. QED
    BY <1>9, <1>10, <2>1, NatInductionSet
<1>12. Left(st(s + Window)) <= 0 /\ Closing(st(s + Window), p)
  <2>1. Window \in N
    BY <1>2, <1>11
  <2>2. QED
    BY <1>2, <2>1
<1> DEFINE last == st(s + Window)
<1>13. Timed(last)
  BY <1>2, <1>5, <1>7
<1> HIDE DEF last
<1>14. Left(last) >= 1 /\ Left(last) \in Int
  <2> DEFINE W == Len(WarnTokens)
             E == Len(ForcedTokens)
  <2>1. last.state \in {"COUNTING", "WARN_FORCING", "WAITING_UTF8", "FORCING"}
    BY <1>12 DEF last, Closing
  <2>2. last \in Budgets
    BY <1>13 DEF Timed, Sounds
  <2>3. W \in Nat /\ E \in Nat \ {0} /\ Budget \in Nat /\ last.warnPos \in Nat /\ last.forcePos \in Nat
    BY <1>1, <2>2, TagFacts DEF Budgets
  <2>4. CASE last.state = "COUNTING"
    <3>1. Left(last) = last.remaining + (IF last.warned THEN 0 ELSE W) + E /\ last.remaining \in 1 .. Budget
      BY <1>13, <2>4 DEF Left, Timed
    <3>2. (IF last.warned THEN 0 ELSE W) \in Nat
      BY <2>3
    <3> HIDE DEF W, E
    <3>3. QED
      BY <2>3, <3>1, <3>2
  <2>5. CASE last.state = "WARN_FORCING"
    <3>1. Left(last) = last.remaining + (W - last.warnPos) + E
      BY <2>5 DEF Left
    <3>2. last.remaining \in 1 .. Budget /\ last.warnPos < W
      BY <1>13, <2>5 DEF Timed
    <3> HIDE DEF W, E
    <3>3. QED
      BY <2>3, <3>1, <3>2
  <2>6. CASE last.state = "WAITING_UTF8"
    BY <2>3, <2>6 DEF Left
  <2>7. CASE last.state = "FORCING"
    <3>1. Left(last) = E - last.forcePos
      BY <2>7 DEF Left
    <3>2. last.forcePos < E
      BY <1>13, <2>7 DEF Timed
    <3> HIDE DEF W, E
    <3>3. QED
      BY <2>3, <3>1, <3>2
  <2>8. QED
    BY <2>1, <2>4, <2>5, <2>6, <2>7
<1>15. QED
  BY <1>12, <1>14 DEF last

\* What is sent, and in a pass what is accepted, is what the sampler let pass.
Obedient ==
    /\ Obeys(out)
    /\ phase = "sample" => Obeys(out \o ids)

\* What the sampler chooses, it lets pass.
LEMMA SampledAllowed ==
    ASSUME NEW smpl, NEW choice
    PROVE  Allowed(smpl.budget, Sampled(smpl, choice))
BY DEF Allowed, Sampled

LEMMA ObeysCut ==
    ASSUME NEW s \in Seq(Tokens), Obeys(s), NEW n \in 0 .. Len(s)
    PROVE  Obeys(SubSeq(s, 1, n))
<1> DEFINE t == SubSeq(s, 1, n)
<1>1. t \in Seq(Tokens) /\ Len(t) = n /\ (\A i \in 1 .. n : t[i] = s[i]) /\ n \in Nat /\ n <= Len(s)
  BY CutAt
<1>2. ASSUME NEW i \in 1 .. n
      PROVE  Allowed(BudgetAfter(FreshSampler.budget, SubSeq(t, 1, i - 1)), t[i])
  <2>1. SubSeq(t, 1, i - 1) = SubSeq(s, 1, i - 1)
    <3> DEFINE l == SubSeq(t, 1, i - 1)
               r == SubSeq(s, 1, i - 1)
    <3> HIDE DEF t
    <3>1. l \in Seq(Tokens) /\ Len(l) = i - 1 /\ \A j \in 1 .. i - 1 : l[j] = t[j]
      BY <1>1, CutAt
    <3>2. r \in Seq(Tokens) /\ Len(r) = i - 1 /\ \A j \in 1 .. i - 1 : r[j] = s[j]
      BY <1>1, CutAt
    <3>3. \A j \in 1 .. i - 1 : l[j] = r[j]
      BY <1>1, <3>1, <3>2
    <3> HIDE DEF l, r
    <3>4. l = r
      BY <3>1, <3>2, <3>3, SameSeq
    <3>5. QED
      BY <3>4 DEF l, r
  <2>2. i \in 1 .. Len(s) /\ t[i] = s[i]
    BY <1>1
  <2> HIDE DEF t
  <2>3. QED
    BY <2>1, <2>2 DEF Obeys
<1> HIDE DEF t
<1>3. Obeys(t)
  BY <1>1, <1>2 DEF Obeys
<1>4. QED
  BY <1>3 DEF t

LEMMA ObeysMore ==
    ASSUME NEW s \in Seq(Tokens), Obeys(s), NEW x \in Tokens,
           Allowed(BudgetAfter(FreshSampler.budget, s), x)
    PROVE  Obeys(Append(s, x))
<1> DEFINE t == Append(s, x)
           n == Len(s)
<1>1. t \in Seq(Tokens) /\ Len(t) = n + 1 /\ t[n + 1] = x /\ (\A i \in 1 .. n : t[i] = s[i]) /\ n \in Nat
  OBVIOUS
<1>2. ASSUME NEW m \in 0 .. n PROVE SubSeq(t, 1, m) = SubSeq(s, 1, m)
  <2>1. t = s \o <<x>> /\ <<x>> \in Seq(Tokens)
    OBVIOUS
  <2> HIDE DEF t
  <2>2. QED
    BY <2>1, CutWithin
<1>3. ASSUME NEW i \in 1 .. n + 1
      PROVE  Allowed(BudgetAfter(FreshSampler.budget, SubSeq(t, 1, i - 1)), t[i])
  <2>1. i - 1 \in 0 .. n
    BY <1>1
  <2>2. SubSeq(t, 1, i - 1) = SubSeq(s, 1, i - 1)
    BY <1>2, <2>1
  <2>3. CASE i = n + 1
    <3>1. SubSeq(s, 1, i - 1) = s
      BY <1>1, <2>3, CutWhole
    <3> HIDE DEF t
    <3>2. QED
      BY <1>1, <2>2, <2>3, <3>1
  <2>4. CASE i # n + 1
    <3>1. i \in 1 .. Len(s) /\ t[i] = s[i]
      BY <1>1, <2>4
    <3> HIDE DEF t
    <3>2. QED
      BY <2>2, <3>1 DEF Obeys
  <2>5. QED
    BY <2>3, <2>4
<1> HIDE DEF t
<1>4. Obeys(t)
  BY <1>1, <1>3 DEF Obeys
<1>5. QED
  BY <1>4 DEF t

LEMMA ObedientStarts == SpecInit => Obedient
<1>1. SUFFICES ASSUME SpecInit PROVE Obedient
  OBVIOUS
<1>2. out = <<>> /\ ids = <<>> /\ out \o ids = <<>>
  BY <1>1 DEF SpecInit
<1>3. Obeys(<<>>)
  BY DEF Obeys
<1>4. QED
  BY <1>2, <1>3 DEF Obedient

LEMMA ObedientStep == SInv /\ Obedient /\ [SpecNext]_specVars => Obedient'
<1>1. SUFFICES ASSUME SInv, Obedient, [SpecNext]_specVars PROVE Obedient'
  OBVIOUS
<1>2. out \in Seq(Tokens) /\ ids \in Seq(Tokens) /\ Obeys(out)
  BY <1>1 DEF SInv, SpecTypes, Obedient
<1>3. ASSUME NEW guess, Pass(guess), out' = out PROVE Obedient'
  <2>1. ids' = <<>> /\ out' \o ids' = out
    BY <1>2, <1>3 DEF Pass
  <2>2. QED
    BY <1>2, <1>3, <2>1 DEF Obedient
<1>4. CASE \E guess \in Guesses(MaxDraft) : DecodeNew(guess)
  BY <1>3, <1>4 DEF DecodeNew
<1>5. CASE DecodeReplay
  BY <1>3, <1>5 DEF DecodeReplay
<1>6. CASE \E choice \in ModelChoices : SampleNext(choice)
  <2>1. PICK choice \in ModelChoices : SampleNext(choice)
    BY <1>6
  <2> DEFINE id == Sampled(sampler, choice)
             so == out \o ids
  <2>2. /\ phase = "sample" /\ ids' = Append(ids, id) /\ out' = out /\ sampler = Follow(so)
        /\ Obeys(so)
    BY <1>1, <2>1 DEF SampleNext, SInv, Sampling, Obedient
  <2>3. so \in Seq(Tokens)
    BY <1>2, JoinAt
  <2>4. id \in Tokens
    <3>1. SInv'
      BY <1>1, <2>1, SampleStep
    <3>2. ids' \in Seq(Tokens)
      BY <3>1 DEF SInv, SpecTypes
    <3>3. Len(ids') = Len(ids) + 1 /\ ids'[Len(ids) + 1] = id /\ Len(ids) \in Nat
      BY <1>2, <2>2
    <3> HIDE DEF id
    <3>4. QED
      BY <3>2, <3>3
  <2>5. Allowed(sampler.budget, id)
    BY SampledAllowed
  <2> HIDE DEF id
  <2>6. Append(so, id) = out \o Append(ids, id)
    <3>1. out \in Seq(Tokens) /\ ids \in Seq(Tokens) /\ id \in Tokens
      BY <1>2, <2>4
    <3>2. QED
      BY <3>1, AppendJoin
  <2>7. sampler.budget = BudgetAfter(FreshSampler.budget, so)
    BY <2>2 DEF Follow
  <2> HIDE DEF so
  <2>8. Obeys(Append(so, id))
    BY <2>2, <2>3, <2>4, <2>5, <2>7, ObeysMore
  <2>9. QED
    BY <1>2, <2>2, <2>6, <2>8 DEF Obedient
<1>7. CASE Verify
  <2>1. CASE Len(draft) + 1 > Len(ids) /\ Restores
    <3>1. Restore
      BY <1>7, <2>1 DEF Verify
    <3>2. QED
      BY <1>2, <3>1 DEF Restore, Obedient
  <2>2. CASE ~(Len(draft) + 1 > Len(ids) /\ Restores)
    <3>1. Keep /\ phase = "sample"
      BY <1>7, <2>2 DEF Verify
    <3>2. CASE phase' = "aborted" /\ UNCHANGED out
      BY <1>2, <3>2 DEF Obedient
    <3>3. CASE Emit(ids)
      <4>1. PICK n \in 0 .. Len(ids) : Emitted(ids) = SubSeq(ids, 1, n)
        BY <1>2, EmittedIs
      <4>2. out' = out \o SubSeq(ids, 1, n) /\ phase' # "sample"
        BY <3>3, <4>1 DEF Emit
      <4>3. out \o SubSeq(ids, 1, n) = SubSeq(out \o ids, 1, Len(out) + n)
        BY <1>2, CutOfJoin
      <4>4. /\ out \o ids \in Seq(Tokens) /\ Len(out \o ids) = Len(out) + Len(ids)
            /\ Obeys(out \o ids)
        BY <1>1, <1>2, <3>1, JoinAt DEF Obedient
      <4> DEFINE so == out \o ids
      <4> HIDE DEF so
      <4>5. Len(out) + n \in 0 .. Len(so)
        BY <1>2, <4>4 DEF so
      <4>6. Obeys(SubSeq(so, 1, Len(out) + n))
        BY <4>4, <4>5, ObeysCut DEF so
      <4>7. QED
        BY <4>2, <4>3, <4>6 DEF Obedient, so
    <3>4. QED
      BY <3>1, <3>2, <3>3 DEF Keep
  <2>3. QED
    BY <2>1, <2>2
<1>8. CASE UNCHANGED specVars
  BY <1>1, <1>8 DEF specVars, Obedient
<1>9. QED
  BY <1>1, <1>4, <1>5, <1>6, <1>7, <1>8 DEF SpecNext

THEOREM AnswersObey == SpecSpec => []Obedient
<1>1. SInv /\ SInv' /\ Obedient /\ [SpecNext]_specVars => Obedient'
  BY ObedientStep
<1>2. QED
  BY <1>1, ObedientStarts, PassInvariant, PTL DEF SpecSpec

\* A thinking block is closed, by the model or by force, within the budget, the
\* warning and the forced end, whatever is drafted, rejected and put back.
THEOREM BlocksAreClosed == ASSUME PlainTags PROVE SpecSpec => []ThinkingEnds
<1>1. SInv /\ Obedient => ThinkingEnds
  BY ObedientCloses DEF SInv, SpecTypes, Obedient
<1>2. QED
  BY <1>1, PassInvariant, AnswersObey, PTL

-----------------------------------------------------------------------------
(* The prompt cache in memory: what a slot or an entry calls its prompt is  *)
(* what its memory holds.                                                  *)

PromptTokens == UNION {Range(p) : p \in Prompts}
TextTokens == PromptTokens \union {Answer}
Texts == Seq(TextTokens)
MainRows == Nat \X TextTokens
DraftRows == Nat \X TextTokens \X Drafters

SlotRecords == [tokens : Texts, main : SUBSET MainRows, draft : [Drafters -> SUBSET DraftRows],
                drafter : Drafters, task : Texts]
EntryRecords == [tokens : Texts, main : SUBSET MainRows, draft : SUBSET DraftRows,
                 drafter : Drafters]

\* The rows of a drafter's context are its own.
Own(d, rows) == \A r \in rows : r[3] = d

\* A slot, and an entry (which holds something), that hold their prompt.
TrueSlots == {sl \in SlotRecords : /\ sl.main = Rows(sl.tokens)
                                   /\ \A d \in Drafters : Own(d, sl.draft[d])}
TrueEntries == {e \in EntryRecords : /\ e.main = Rows(e.tokens) /\ e.tokens # <<>>
                                     /\ Own(e.drafter, e.draft)}

CacheInv ==
    /\ stateful \in BOOLEAN /\ toSave \subseteq CacheSlots
    /\ slot \in [CacheSlots -> TrueSlots]
    /\ states \in Seq(TrueEntries)

LEMMA RowsType ==
    ASSUME NEW s \in Texts
    PROVE  /\ Rows(s) \subseteq MainRows /\ (s # <<>> => Rows(s) # {})
           /\ Len(s) \in Nat /\ DOMAIN s = 1 .. Len(s)
           /\ \A i \in DOMAIN s : <<i, s[i]>> \in Rows(s)
<1>1. /\ Len(s) \in Nat /\ DOMAIN s = 1 .. Len(s)
      /\ \A i \in DOMAIN s : <<i, s[i]>> \in MainRows
  BY DEF Texts, MainRows
<1>2. s # <<>> => 1 \in DOMAIN s
  BY <1>1 DEF Texts
<1>3. QED
  BY <1>1, <1>2 DEF Rows

\* Up to the length of the longest common prefix two texts agree.
LEMMA PrefixAgrees ==
    ASSUME NEW s \in Texts, NEW t \in Texts
    PROVE  /\ Prefix(s, t) \in Nat /\ Prefix(s, t) <= Len(s) /\ Prefix(s, t) <= Len(t)
           /\ \A i \in 1 .. Prefix(s, t) : s[i] = t[i]
<1> DEFINE C == CommonPrefixes({s, t})
           Short == {Len(s) - Len(c) : c \in C}
<1>1. ASSUME NEW c \in C
      PROVE  /\ c \in Texts /\ IsPrefix(c, s) /\ IsPrefix(c, t)
             /\ Len(c) \in Nat /\ Len(c) <= Len(s) /\ Len(c) <= Len(t)
             /\ \A i \in 1 .. Len(c) : c[i] = s[i] /\ c[i] = t[i]
  <2>1. PICK seq \in {s, t} : c \in Prefixes(seq)
    BY DEF CommonPrefixes
  <2>2. PICK l \in 0 .. Len(seq) : c = SubSeq(seq, 1, l)
    BY <2>1 DEF Prefixes
  <2>3. seq \in Texts
    BY <2>1
  <2>4. c \in Texts
    BY <2>2, <2>3 DEF Texts
  <2>5. IsPrefix(c, s) /\ IsPrefix(c, t)
    BY DEF CommonPrefixes
  <2>6. ASSUME NEW u \in Texts, IsPrefix(c, u)
        PROVE  Len(c) <= Len(u) /\ \A i \in 1 .. Len(c) : c[i] = u[i]
    <3>1. Len(c) <= Len(u) /\ SubSeq(c, 1, Len(c)) = SubSeq(u, 1, Len(c))
      BY <2>6 DEF IsPrefix
    <3>2. \A i \in 1 .. Len(c) : SubSeq(c, 1, Len(c))[i] = c[i] /\ SubSeq(u, 1, Len(c))[i] = u[i]
      BY <2>4, <3>1 DEF Texts
    <3>3. QED
      BY <3>1, <3>2
  <2>7. Len(c) <= Len(s) /\ \A i \in 1 .. Len(c) : c[i] = s[i]
    BY <2>5, <2>6
  <2>8. Len(c) <= Len(t) /\ \A i \in 1 .. Len(c) : c[i] = t[i]
    BY <2>5, <2>6
  <2>9. Len(c) \in Nat
    BY <2>4 DEF Texts
  <2>10. QED
    BY <2>4, <2>5, <2>7, <2>8, <2>9
<1>2. <<>> \in C
  <2>1. Len(s) \in Nat /\ SubSeq(s, 1, 0) = <<>> /\ SubSeq(t, 1, 0) = <<>> /\ Len(t) \in Nat
    BY DEF Texts
  <2>2. 0 \in 0 .. Len(s)
    BY <2>1
  <2>3. <<>> \in Prefixes(s)
    BY <2>1, <2>2 DEF Prefixes
  <2>4. \A u \in {s, t} : IsPrefix(<<>>, u)
    BY <2>1 DEF IsPrefix, Texts
  <2>5. QED
    BY <2>3, <2>4 DEF CommonPrefixes
<1> DEFINE best == LongestCommonPrefix({s, t})
<1> HIDE DEF C
<1>3. \E c \in C : \A other \in C : Len(other) <= Len(c)
  <2>1. Len(s) \in Nat
    BY DEF Texts
  <2>2. Short \in SUBSET Nat /\ Short # {}
    <3>1. \A c \in C : Len(s) - Len(c) \in Nat
      BY <1>1, <2>1
    <3>2. QED
      BY <1>2, <3>1
  <2>3. Min(Short) \in Short /\ \A k \in Short : Min(Short) <= k
    BY <2>2, SmallestExists
  <2>4. PICK c \in C : Min(Short) = Len(s) - Len(c)
    BY <2>3
  <2>5. ASSUME NEW other \in C PROVE Len(other) <= Len(c)
    <3>1. Len(s) - Len(other) \in Short
      OBVIOUS
    <3>2. Len(s) - Len(c) <= Len(s) - Len(other)
      BY <2>3, <2>4, <3>1
    <3>3. QED
      BY <1>1, <2>1, <3>2
  <2>6. QED
    BY <2>5
<1>4. best \in C
  BY <1>3 DEF LongestCommonPrefix, C
<1>5. Prefix(s, t) = Len(best)
  BY DEF Prefix
<1> HIDE DEF best
<1>6. QED
  BY <1>1, <1>4, <1>5
-----------------------------------------------------------------------------
LEMMA SlotFields ==
    ASSUME NEW sl \in TrueSlots
    PROVE  /\ sl \in SlotRecords /\ sl.tokens \in Texts /\ sl.task \in Texts
           /\ sl.draft \in [Drafters -> SUBSET DraftRows] /\ sl.drafter \in Drafters
           /\ sl.main = Rows(sl.tokens) /\ sl.main \subseteq MainRows
           /\ \A d \in Drafters : Own(d, sl.draft[d])
BY DEF TrueSlots, SlotRecords

LEMMA SlotIs ==
    ASSUME NEW tokens \in Texts, NEW contexts \in [Drafters -> SUBSET DraftRows],
           NEW drafter \in Drafters, NEW task \in Texts,
           \A d \in Drafters : Own(d, contexts[d])
    PROVE  [tokens |-> tokens, main |-> Rows(tokens), draft |-> contexts,
            drafter |-> drafter, task |-> task] \in TrueSlots
<1> DEFINE rec == [tokens |-> tokens, main |-> Rows(tokens), draft |-> contexts,
                   drafter |-> drafter, task |-> task]
<1>1. Rows(tokens) \in SUBSET MainRows
  BY RowsType
<1>2. rec \in SlotRecords
  BY <1>1 DEF SlotRecords
<1>3. rec.main = Rows(rec.tokens) /\ \A d \in Drafters : Own(d, rec.draft[d])
  OBVIOUS
<1> HIDE DEF rec
<1>4. rec \in TrueSlots
  BY <1>2, <1>3 DEF TrueSlots
<1>5. QED
  BY <1>4 DEF rec

\* A slot that is cleared holds the empty prompt.
LEMMA ClearedTrue ==
    ASSUME NEW sl \in TrueSlots
    PROVE  Cleared(sl) \in TrueSlots
<1>1. Rows(<<>>) = {} /\ <<>> \in Texts
  BY DEF Rows, Texts
<1>2. [d \in Drafters |-> {}] \in [Drafters -> SUBSET DraftRows]
  OBVIOUS
<1>3. Cleared(sl) = [tokens |-> <<>>, main |-> Rows(<<>>), draft |-> [d \in Drafters |-> {}],
                     drafter |-> sl.drafter, task |-> sl.task]
  <2>1. sl = [tokens |-> sl.tokens, main |-> sl.main, draft |-> sl.draft,
              drafter |-> sl.drafter, task |-> sl.task]
    BY SlotFields DEF SlotRecords
  <2> DEFINE none == [d \in Drafters |-> {}]
  <2>2. Cleared(sl) = [sl EXCEPT !.main = {}, !.draft = none, !.tokens = <<>>]
    BY DEF Cleared
  <2> HIDE DEF none
  <2>3. Cleared(sl) = [tokens |-> <<>>, main |-> {}, draft |-> none,
                       drafter |-> sl.drafter, task |-> sl.task]
    BY <2>1, <2>2
  <2>4. QED
    BY <1>1, <2>3 DEF none
<1>4. \A d \in Drafters : Own(d, [x \in Drafters |-> {}][d])
  BY DEF Own
<1>5. QED
  BY <1>1, <1>2, <1>3, <1>4, SlotFields, SlotIs

\* A prompt that starts at what is common to the slot and the task.
LEMMA ContinuedTrue ==
    ASSUME NEW sl \in TrueSlots, NEW n \in Nat, n <= Prefix(sl.tokens, sl.task),
           NEW answer \in {<<>>, <<Answer>>}
    PROVE  Continued(sl, n, sl.task \o answer) \in TrueSlots
<1> DEFINE old == sl.tokens
           new == sl.task \o answer
<1>1. old \in Texts /\ sl.task \in Texts /\ answer \in Texts
  <2>1. <<>> \in Texts /\ <<Answer>> \in Texts
    <3>1. Answer \in TextTokens
      BY DEF TextTokens
    <3>2. QED
      BY <3>1 DEF Texts
  <2>2. QED
    BY <2>1, SlotFields
<1>2. /\ new \in Texts /\ Len(new) = Len(sl.task) + Len(answer)
      /\ \A i \in 1 .. Len(sl.task) : new[i] = sl.task[i]
  BY <1>1 DEF Texts
<1>3. /\ n <= Len(old) /\ n <= Len(new)
      /\ \A i \in 1 .. n : old[i] = new[i]
  <2>1. Len(sl.task) \in Nat /\ Len(answer) \in Nat
    BY <1>1 DEF Texts
  <2>2. /\ Prefix(old, sl.task) \in Nat /\ Prefix(old, sl.task) <= Len(old)
        /\ Prefix(old, sl.task) <= Len(sl.task)
        /\ \A i \in 1 .. Prefix(old, sl.task) : old[i] = sl.task[i]
    BY <1>1, PrefixAgrees
  <2>3. Len(old) \in Nat
    BY <1>1 DEF Texts
  <2>4. \A i \in 1 .. n : i \in 1 .. Prefix(old, sl.task) /\ i \in 1 .. Len(sl.task)
    BY <2>1, <2>2
  <2>5. QED
    BY <1>2, <2>1, <2>2, <2>3, <2>4
<1> HIDE DEF new
<1> DEFINE fresh == Rows(new) \ UpTo(Rows(new), n)
           main == UpTo(sl.main, n) \union fresh
           drafts == [d \in Drafters |-> UpTo(sl.draft[d], n)
                         \union (IF d \in {sl.drafter} \union Observing THEN By(d, fresh) ELSE {})]
<1>4. main = Rows(new)
  <2>1. UpTo(Rows(old), n) = UpTo(Rows(new), n)
    <3>1. \A s \in Texts : Len(s) \in Nat /\ DOMAIN s = 1 .. Len(s)
      BY DEF Texts
    <3>2. \A i \in Nat : i <= n => (i \in DOMAIN old <=> i \in DOMAIN new)
      BY <1>1, <1>2, <1>3, <3>1
    <3>3. ASSUME NEW r PROVE r \in UpTo(Rows(old), n) <=> r \in UpTo(Rows(new), n)
      <4>1. r \in UpTo(Rows(old), n) <=> \E i \in DOMAIN old : i <= n /\ r = <<i, old[i]>>
        BY DEF UpTo, Rows
      <4>2. r \in UpTo(Rows(new), n) <=> \E i \in DOMAIN new : i <= n /\ r = <<i, new[i]>>
        BY DEF UpTo, Rows
      <4>3. \A i \in DOMAIN old : i \in Nat /\ (i <= n => i \in 1 .. n)
        BY <1>1, <3>1
      <4>4. \A i \in DOMAIN new : i \in Nat /\ (i <= n => i \in 1 .. n)
        BY <1>2, <3>1
      <4>5. QED
        BY <1>3, <3>2, <4>1, <4>2, <4>3, <4>4
    <3>4. QED
      BY <3>3
  <2>2. sl.main = Rows(old)
    BY DEF TrueSlots
  <2>3. UpTo(Rows(new), n) \subseteq Rows(new)
    BY DEF UpTo
  <2>4. QED
    BY <2>1, <2>2, <2>3
<1>5. Rows(new) \subseteq MainRows
  BY <1>2, RowsType
<1>6. ASSUME NEW d \in Drafters
      PROVE  drafts[d] \subseteq DraftRows /\ Own(d, drafts[d])
  <2>1. sl.draft[d] \subseteq DraftRows /\ Own(d, sl.draft[d])
    BY DEF TrueSlots, SlotRecords
  <2>2. UpTo(sl.draft[d], n) \subseteq DraftRows /\ Own(d, UpTo(sl.draft[d], n))
    BY <2>1 DEF UpTo, Own
  <2>3. fresh \subseteq MainRows
    BY <1>5
  <2> HIDE DEF fresh
  <2>4. By(d, fresh) \subseteq DraftRows /\ Own(d, By(d, fresh))
    BY <2>3 DEF By, MainRows, DraftRows, Own
  <2>5. QED
    BY <2>2, <2>4 DEF Own
<1>7. Continued(sl, n, new) = [tokens |-> new, main |-> main, draft |-> drafts,
                               drafter |-> sl.drafter, task |-> <<>>]
  <2>1. sl = [tokens |-> sl.tokens, main |-> sl.main, draft |-> sl.draft,
              drafter |-> sl.drafter, task |-> sl.task]
    BY SlotFields DEF SlotRecords
  <2>2. Continued(sl, n, new) = [sl EXCEPT !.tokens = new, !.task = <<>>, !.main = main, !.draft = drafts]
    BY DEF Continued
  <2> HIDE DEF main, drafts
  <2>3. QED
    BY <2>1, <2>2
<1> HIDE DEF main, drafts
<1>8. drafts \in [Drafters -> SUBSET DraftRows]
  BY <1>6 DEF drafts
<1>9. QED
  <2>1. <<>> \in Texts
    BY DEF Texts
  <2>2. QED
    <3>1. new \in Texts /\ sl.drafter \in Drafters /\ \A d \in Drafters : Own(d, drafts[d])
      BY <1>2, <1>6, SlotFields
    <3>2. [tokens |-> new, main |-> Rows(new), draft |-> drafts, drafter |-> sl.drafter, task |-> <<>>]
              \in TrueSlots
      BY <1>8, <2>1, <3>1, SlotIs
    <3>3. QED
      BY <1>4, <1>7, <3>2 DEF new
-----------------------------------------------------------------------------
\* Entries of the cache: one that is removed leaves the others.
LEMMA EntryIs ==
    ASSUME NEW e \in TrueEntries
    PROVE  /\ e.tokens \in Texts /\ e.tokens # <<>> /\ e.main = Rows(e.tokens) /\ e.main # {}
           /\ e.draft \in SUBSET DraftRows /\ e.drafter \in Drafters /\ Own(e.drafter, e.draft)
<1>1. /\ e.tokens \in Texts /\ e.tokens # <<>> /\ e.main = Rows(e.tokens)
      /\ e.draft \in SUBSET DraftRows /\ e.drafter \in Drafters /\ Own(e.drafter, e.draft)
  BY DEF TrueEntries, EntryRecords
<1>2. QED
  BY <1>1, RowsType

LEMMA SlotEntry ==
    ASSUME NEW sl \in TrueSlots, sl.tokens # <<>>
    PROVE  [tokens |-> sl.tokens, main |-> sl.main, draft |-> sl.draft[sl.drafter],
            drafter |-> sl.drafter] \in TrueEntries
<1> DEFINE rows == sl.draft[sl.drafter]
           rec == [tokens |-> sl.tokens, main |-> sl.main, draft |-> rows, drafter |-> sl.drafter]
<1>1. /\ sl.tokens \in Texts /\ sl.main \in SUBSET MainRows /\ sl.main = Rows(sl.tokens)
      /\ sl.drafter \in Drafters /\ rows \in SUBSET DraftRows /\ Own(sl.drafter, rows)
  BY SlotFields
<1> HIDE DEF rows
<1>2. rec \in EntryRecords
  BY <1>1 DEF EntryRecords
<1>3. rec.main = Rows(rec.tokens) /\ rec.tokens # <<>> /\ Own(rec.drafter, rec.draft)
  BY <1>1
<1> HIDE DEF rec
<1>4. rec \in TrueEntries
  BY <1>2, <1>3 DEF TrueEntries
<1>5. QED
  BY <1>4 DEF rec, rows

LEMMA MakeRoomKeeps ==
    ASSUME NEW list \in Seq(TrueEntries), NEW n, NEW max
    PROVE  MakeRoom(list, n, max) \in Seq(TrueEntries)
<1> DEFINE fits == {k \in 0 .. Len(list) : TotalSize(SubSeq(list, k + 1, Len(list))) + n <= max}
<1>1. Len(list) \in Nat /\ fits \in SUBSET Nat /\ fits \subseteq 0 .. Len(list)
  OBVIOUS
<1>2. MakeRoom(list, n, max) = IF fits = {} THEN <<>> ELSE SubSeq(list, Min(fits) + 1, Len(list))
  BY DEF MakeRoom
<1> HIDE DEF fits
<1>3. fits # {} => Min(fits) \in 0 .. Len(list)
  BY <1>1, SmallestExists
<1>4. \A k \in 0 .. Len(list) : SubSeq(list, k + 1, Len(list)) \in Seq(TrueEntries)
  OBVIOUS
<1>5. QED
  BY <1>2, <1>3, <1>4

\* Saving a prompt keeps the cache true.
LEMMA SavedTrue ==
    ASSUME states \in Seq(TrueEntries), NEW sl \in TrueSlots, NEW saved \in Saved(sl)
    PROVE  saved[1] \in Seq(TrueEntries)
<1> DEFINE new == [tokens |-> sl.tokens, main |-> sl.main, draft |-> sl.draft[sl.drafter],
                   drafter |-> sl.drafter]
           others == SubseqAt(states, {i \in DOMAIN states : ~Obsolete(states[i], sl)})
           room == MakeRoom(others, EntrySize(new), limit)
           less == Max({1, (4 * TotalSize(room)) \div 10})
<1>1. others \in Seq(TrueEntries)
  <2> DEFINE left == {i \in DOMAIN states : ~Obsolete(states[i], sl)}
  <2>1. left \in SUBSET DOMAIN states
    OBVIOUS
  <2> HIDE DEF left
  <2>2. SubseqAt(states, left) \in Seq(TrueEntries)
    BY <2>1, SubseqThins
  <2>3. QED
    BY <2>2 DEF left
<1> HIDE DEF others
<1>2. room \in Seq(TrueEntries)
  BY <1>1, MakeRoomKeeps
<1>3. sl.tokens # <<>> => new \in TrueEntries
  BY SlotEntry
<1>4. \/ saved = <<states, limit, FALSE>>
      \/ sl.tokens # <<>> /\ saved = <<Append(room, new), limit, TRUE>>
      \/ saved = <<MakeRoom(room, 0, less), less, FALSE>>
  BY Zenon DEF Saved, others, room, less, new
<1> HIDE DEF room, new, less
<1>5. MakeRoom(room, 0, less) \in Seq(TrueEntries)
  BY <1>2, MakeRoomKeeps
<1>6. sl.tokens # <<>> => Append(room, new) \in Seq(TrueEntries)
  BY <1>2, <1>3
<1>7. CASE saved = <<states, limit, FALSE>>
  BY <1>7
<1>8. CASE sl.tokens # <<>> /\ saved = <<Append(room, new), limit, TRUE>>
  <2>1. saved[1] = Append(room, new)
    BY <1>8
  <2>2. QED
    BY <1>6, <1>8, <2>1
<1>9. CASE saved = <<MakeRoom(room, 0, less), less, FALSE>>
  <2>1. saved[1] = MakeRoom(room, 0, less)
    BY <1>9
  <2>2. QED
    BY <1>5, <2>1
<1>10. QED
  BY <1>4, <1>7, <1>8, <1>9

\* The entry that serves best is one of the list, or none.
LEMMA BestEntry ==
    ASSUME NEW list \in Seq(TrueEntries), NEW sl, NEW wanted
    PROVE  Best(list, sl, wanted).entry \in 0 .. Len(list)
<1> DEFINE n == Len(list)
           Cand(i) == [entry |-> i, lcp |-> Prefix(list[i].tokens, wanted),
                       keep |-> Prefix(list[i].tokens, wanted), len |-> Len(list[i].tokens),
                       boundary |-> Len(list[i].tokens)]
           Good(best, i) == BoundaryValid(list[i].tokens, wanted) /\ Better(list[i], wanted, best)
           base == Base(sl, wanted)
           S == {base} \union {Cand(i) : i \in 1 .. n}
           step == [i \in 1 .. n |-> [best \in S |-> IF Good(best, i) THEN Cand(i) ELSE best]]
           order == [i \in DOMAIN list |-> i]
           Is(h) == h = [s \in SUBSET DOMAIN order |->
                            IF s = {} THEN base
                            ELSE IF Good(h[s \ {Max(s)}], order[Max(s)]) THEN Cand(order[Max(s)])
                                 ELSE h[s \ {Max(s)}]]
           h == CHOOSE f : Is(f)
<1>1. n \in Nat /\ DOMAIN order = 1 .. n /\ \A i \in 1 .. n : order[i] = i
  OBVIOUS
<1>2. Best(list, sl, wanted) = h[DOMAIN order]
  BY DEF Best, FoldLeft, MapThenFoldSet
<1>3. PICK g \in [SUBSET (1 .. n) -> S] : IsFold(g, step, n, base)
  <2>1. step \in [1 .. n -> [S -> S]]
    <3>1. \A i \in 1 .. n : Cand(i) \in S
      OBVIOUS
    <3> HIDE DEF Cand, Good, base, S
    <3>2. \A i \in 1 .. n : [best \in S |-> IF Good(best, i) THEN Cand(i) ELSE best] \in [S -> S]
      BY <3>1
    <3>3. QED
      BY <3>2
  <2>2. base \in S
    OBVIOUS
  <2> HIDE DEF step, S, base
  <2>3. QED
    BY <1>1, <2>1, <2>2, FoldExists DEF Steps, HasFold
<1>4. Is(g)
  <2>1. ASSUME NEW s \in SUBSET (1 .. n)
        PROVE  g[s] = IF s = {} THEN base
                      ELSE IF Good(g[s \ {Max(s)}], order[Max(s)]) THEN Cand(order[Max(s)])
                           ELSE g[s \ {Max(s)}]
    <3>1. CASE s = {}
      BY <1>3, <3>1 DEF IsFold
    <3>2. CASE s # {}
      <4> DEFINE rest == g[s \ {Max(s)}]
      <4>1. Max(s) \in 1 .. n /\ g[s] = step[Max(s)][rest] /\ rest \in S
        BY <1>3, <3>2 DEF IsFold
      <4> HIDE DEF S, Good, Cand, base, rest
      <4>2. g[s] = IF Good(rest, Max(s)) THEN Cand(Max(s)) ELSE rest
        BY <4>1
      <4>3. order[Max(s)] = Max(s)
        BY <1>1, <4>1
      <4>4. QED
        BY <3>2, <4>2, <4>3 DEF rest
    <3>3. QED
      BY <3>1, <3>2
  <2> HIDE DEF S, Good, Cand, base, order
  <2>2. g = [s \in SUBSET (1 .. n) |-> g[s]]
    BY <1>3
  <2>3. QED
    BY <1>1, <2>1, <2>2
<1>5. Is(h)
  <2> HIDE DEF Is
  <2>1. QED
    BY <1>4
<1> DEFINE N == {m \in Nat : m <= n => h[1 .. m].entry \in 0 .. n}
<1>6. 0 \in N
  <2>1. 1 .. 0 = {} /\ {} \in SUBSET DOMAIN order
    OBVIOUS
  <2>2. base.entry = 0
    BY DEF Base
  <2> HIDE DEF h, Good, Cand, base, order
  <2>3. h[{}] = base
    BY <1>5, <2>1
  <2>4. QED
    BY <1>1, <2>1, <2>2, <2>3
<1>7. ASSUME NEW m \in Nat, m + 1 <= n, m \in N PROVE m + 1 \in N
  <2> HIDE DEF N, h, Good, Cand, base, order, Is
  <2> DEFINE s == 1 .. m + 1
  <2>1. s \in SUBSET (1 .. n) /\ s # {} /\ Max(s) = m + 1 /\ s \ {Max(s)} = 1 .. m
    <3>1. s \in SUBSET (1 .. n) /\ m + 1 \in s /\ s \ {m + 1} = 1 .. m
      BY <1>7
    <3>2. \A x \in s : (\A y \in s : x >= y) => x = m + 1
      BY <1>7, <3>1
    <3>3. \A y \in s : m + 1 >= y
      BY <1>7
    <3> HIDE DEF s
    <3>4. Max(s) = m + 1
      BY <3>1, <3>2, <3>3 DEF Max
    <3>5. QED
      BY <3>1, <3>4
  <2> HIDE DEF s
  <2>2. h[s] = IF Good(h[1 .. m], m + 1) THEN Cand(m + 1) ELSE h[1 .. m]
    <3>1. order[m + 1] = m + 1
      BY <1>1, <1>7
    <3>2. s \in SUBSET DOMAIN order
      BY <1>1, <2>1
    <3>3. h[s] = IF s = {} THEN base
                 ELSE IF Good(h[s \ {Max(s)}], order[Max(s)]) THEN Cand(order[Max(s)])
                      ELSE h[s \ {Max(s)}]
      BY <1>5, <3>2 DEF Is
    <3>4. h[s] = IF s = {} THEN base
                 ELSE IF Good(h[1 .. m], order[m + 1]) THEN Cand(order[m + 1]) ELSE h[1 .. m]
      BY <2>1, <3>3
    <3>5. QED
      BY <2>1, <3>1, <3>4
  <2>3. h[1 .. m].entry \in 0 .. n
    <3>1. m <= n
      BY <1>1, <1>7
    <3>2. QED
      BY <1>7, <3>1 DEF N
  <2>4. Cand(m + 1).entry = m + 1
    BY DEF Cand
  <2>5. h[s].entry \in 0 .. n
    BY <1>1, <1>7, <2>2, <2>3, <2>4
  <2>6. QED
    BY <1>7, <2>5 DEF s, N
<1>8. h[1 .. n].entry \in 0 .. n
  <2> HIDE DEF h, order
  <2>1. N \in SUBSET Nat
    OBVIOUS
  <2> HIDE DEF N
  <2>2. \A m \in N : m + 1 <= n => m + 1 \in N
    BY <1>7, <2>1
  <2> HIDE DEF n
  <2>3. \A m \in 0 .. n : m \in N
    BY <1>1, <1>6, <2>1, <2>2, InductionUpTo
  <2>4. n \in N
    BY <1>1, <2>3
  <2>5. QED
    BY <1>1, <2>4 DEF N
<1>9. QED
  BY <1>1, <1>2, <1>8

\* A slot that takes over an entry holds the entry's prompt.
LEMMA RestoredTrue ==
    ASSUME NEW sl \in TrueSlots, NEW e \in TrueEntries
    PROVE  Restored(sl, e) \in TrueSlots
<1> DEFINE rows == IF e.drafter = sl.drafter /\ e.draft # {} THEN e.draft ELSE sl.draft[sl.drafter]
           contexts == [sl.draft EXCEPT ![sl.drafter] = rows]
<1>1. /\ e.tokens \in Texts /\ e.main = Rows(e.tokens) /\ e.main # {}
      /\ e.draft \in SUBSET DraftRows /\ Own(e.drafter, e.draft)
  BY EntryIs
<1>2. /\ sl.drafter \in Drafters /\ sl.draft \in [Drafters -> SUBSET DraftRows]
      /\ \A d \in Drafters : Own(d, sl.draft[d])
  BY SlotFields
<1>3. rows \in SUBSET DraftRows /\ Own(sl.drafter, rows)
  BY <1>1, <1>2
<1>4. sl = [tokens |-> sl.tokens, main |-> sl.main, draft |-> sl.draft,
            drafter |-> sl.drafter, task |-> sl.task]
  BY SlotFields DEF SlotRecords
<1>5. Restored(sl, e) = [tokens |-> e.tokens, main |-> Rows(e.tokens), draft |-> contexts,
                         drafter |-> sl.drafter, task |-> sl.task]
  <2>1. Restored(sl, e) = [sl EXCEPT !.tokens = e.tokens, !.main = e.main, !.draft[sl.drafter] = rows]
    BY <1>1 DEF Restored
  <2> HIDE DEF rows
  <2>2. QED
    BY <1>1, <1>4, <2>1
<1> HIDE DEF rows
<1>6. contexts \in [Drafters -> SUBSET DraftRows] /\ \A d \in Drafters : Own(d, contexts[d])
  BY <1>2, <1>3
<1> HIDE DEF contexts
<1>7. QED
  BY <1>1, <1>5, <1>6, SlotFields, SlotIs

\* What a load leaves, whatever fails but the restore of a draft's rows.
LEMMA LoadedTrue ==
    ASSUME NEW list \in Seq(TrueEntries), NEW sl \in TrueSlots, NEW wanted,
           NEW loaded \in Loaded(list, sl, wanted), "draft" \notin Failing
    PROVE  loaded[1] \in TrueSlots /\ loaded[2] \in Seq(TrueEntries)
<1> DEFINE i == Best(list, sl, wanted).entry
           cold == Cleared(sl)
<1>1. i \in 0 .. Len(list) /\ cold \in TrueSlots
  BY BestEntry, ClearedTrue
<1>2. \/ i = 0 /\ (loaded = <<sl, list>> \/ loaded = <<cold, list>>)
      \/ i # 0 /\ loaded = <<Restored(sl, list[i]), RemoveAt(list, i)>>
      \/ loaded = <<cold, list>>
      \/ i # 0 /\ loaded = <<cold, RemoveAt(list, i)>>
  BY DEF Loaded
<1> HIDE DEF i, cold
<1>3. i # 0 => RemoveAt(list, i) \in Seq(TrueEntries) /\ list[i] \in TrueEntries
  <2>1. SUFFICES ASSUME i # 0 PROVE RemoveAt(list, i) \in Seq(TrueEntries) /\ list[i] \in TrueEntries
    OBVIOUS
  <2>2. i \in DOMAIN list
    BY <1>1, <2>1
  <2>3. RemoveAt(list, i) \in Seq(TrueEntries)
    BY <2>2, RemoveThins
  <2>4. QED
    BY <2>2, <2>3
<1>4. i # 0 => Restored(sl, list[i]) \in TrueSlots
  BY <1>3, RestoredTrue
<1>5. CASE loaded = <<sl, list>>
  BY <1>5
<1>6. CASE loaded = <<cold, list>>
  BY <1>1, <1>6
<1>7. CASE i # 0 /\ loaded = <<Restored(sl, list[i]), RemoveAt(list, i)>>
  <2>1. loaded[1] = Restored(sl, list[i]) /\ loaded[2] = RemoveAt(list, i)
    BY <1>7
  <2>2. QED
    BY <1>3, <1>4, <1>7, <2>1
<1>8. CASE i # 0 /\ loaded = <<cold, RemoveAt(list, i)>>
  <2>1. loaded[1] = cold /\ loaded[2] = RemoveAt(list, i)
    BY <1>8
  <2>2. QED
    BY <1>1, <1>3, <1>8, <2>1
<1>9. QED
  BY <1>2, <1>5, <1>6, <1>7, <1>8

\* A slot with another task, or another drafter.
LEMMA WithTask ==
    ASSUME NEW sl \in TrueSlots, NEW p \in Texts
    PROVE  [sl EXCEPT !.task = p] \in TrueSlots
<1>1. sl = [tokens |-> sl.tokens, main |-> sl.main, draft |-> sl.draft,
            drafter |-> sl.drafter, task |-> sl.task]
  BY SlotFields DEF SlotRecords
<1>2. [sl EXCEPT !.task = p] = [tokens |-> sl.tokens, main |-> Rows(sl.tokens), draft |-> sl.draft,
                                drafter |-> sl.drafter, task |-> p]
  BY <1>1, SlotFields
<1>3. /\ sl.tokens \in Texts /\ sl.task \in Texts /\ sl.drafter \in Drafters
      /\ sl.draft \in [Drafters -> SUBSET DraftRows] /\ \A x \in Drafters : Own(x, sl.draft[x])
  BY SlotFields
<1>4. QED
  BY <1>2, <1>3, SlotIs

LEMMA WithDrafter ==
    ASSUME NEW sl \in TrueSlots, NEW d \in Drafters
    PROVE  [sl EXCEPT !.drafter = d] \in TrueSlots
<1>1. sl = [tokens |-> sl.tokens, main |-> sl.main, draft |-> sl.draft,
            drafter |-> sl.drafter, task |-> sl.task]
  BY SlotFields DEF SlotRecords
<1>2. [sl EXCEPT !.drafter = d] = [tokens |-> sl.tokens, main |-> Rows(sl.tokens), draft |-> sl.draft,
                                   drafter |-> d, task |-> sl.task]
  BY <1>1, SlotFields
<1>3. /\ sl.tokens \in Texts /\ sl.task \in Texts /\ sl.drafter \in Drafters
      /\ sl.draft \in [Drafters -> SUBSET DraftRows] /\ \A x \in Drafters : Own(x, sl.draft[x])
  BY SlotFields
<1>4. QED
  BY <1>2, <1>3, SlotIs

LEMMA CacheStarts == CacheInit => CacheInv
<1> SUFFICES ASSUME CacheInit PROVE CacheInv
  OBVIOUS
<1>1. NoSlot \in TrueSlots
  <2> DEFINE none == [d \in Drafters |-> {}]
  <2>1. none \in [Drafters -> SUBSET DraftRows] /\ \A d \in Drafters : Own(d, none[d])
    BY DEF Own
  <2>2. <<>> \in Texts /\ Rows(<<>>) = {}
    BY DEF Texts, Rows
  <2>3. NoSlot = [tokens |-> <<>>, main |-> Rows(<<>>), draft |-> none, drafter |-> Default, task |-> <<>>]
    BY <2>2 DEF NoSlot
  <2> HIDE DEF none
  <2>4. QED
    BY <2>1, <2>2, <2>3, SlotIs, DraftersAssumption
<1>2. <<>> \in Seq(TrueEntries)
  OBVIOUS
<1>3. QED
  BY <1>1, <1>2 DEF CacheInit, CacheInv

LEMMA ServeStep == ASSUME CacheInv, NEW s \in CacheSlots, Serve(s) PROVE CacheInv'
<1> DEFINE sl == slot[s]
<1>1. sl \in TrueSlots /\ sl.task \in Texts /\ sl.tokens \in Texts
  BY SlotFields DEF CacheInv
<1>2. PICK n \in Keeps(sl), answer \in {<<>>, <<Answer>>} :
        slot' = [slot EXCEPT ![s] = Continued(sl, n, sl.task \o answer)]
  BY DEF Serve
<1>3. n \in Nat /\ n <= Prefix(sl.tokens, sl.task)
  <2> DEFINE least == {Prefix(sl.tokens, sl.task), Len(sl.task) - 1}
  <2>1. Prefix(sl.tokens, sl.task) \in Nat /\ Len(sl.task) \in Nat \ {0}
    BY <1>1, PrefixAgrees DEF Serve, Texts
  <2>2. Min(least) \in least /\ \A k \in least : Min(least) <= k
    <3>1. least \in SUBSET Nat /\ least # {}
      BY <2>1
    <3> HIDE DEF least
    <3>2. QED
      BY <3>1, SmallestExists
  <2>3. QED
    BY <1>2, <2>1, <2>2 DEF Keeps
<1>4. Continued(sl, n, sl.task \o answer) \in TrueSlots
  BY <1>1, <1>2, <1>3, ContinuedTrue
<1>5. QED
  BY <1>2, <1>4 DEF CacheInv, Serve

LEMMA AbandonStep == ASSUME CacheInv, NEW s \in CacheSlots, Abandon(s) PROVE CacheInv'
<1>1. slot[s] \in TrueSlots /\ <<>> \in Texts
  BY DEF CacheInv, Texts
<1>2. [Cleared(slot[s]) EXCEPT !.task = <<>>] \in TrueSlots
  BY <1>1, ClearedTrue, WithTask
<1>3. slot' = [slot EXCEPT ![s] = [Cleared(slot[s]) EXCEPT !.task = <<>>]]
  BY DEF Abandon
<1>4. QED
  BY <1>2, <1>3 DEF CacheInv, Abandon

LEMMA PurgeStep == ASSUME CacheInv, NEW s \in CacheSlots, Purge(s) PROVE CacheInv'
<1>1. Cleared(slot[s]) \in TrueSlots
  BY ClearedTrue DEF CacheInv
<1>2. slot' = [slot EXCEPT ![s] = Cleared(slot[s])]
  BY DEF Purge
<1>3. QED
  BY <1>1, <1>2 DEF CacheInv, Purge

LEMMA SaveIdleStep == ASSUME CacheInv, SaveIdle PROVE CacheInv'
<1> DEFINE s == Min(toSave)
<1>1. s \in CacheSlots /\ toSave # {}
  BY CacheSlotsAssumption, SmallestExists DEF SaveIdle, CacheInv
<1> HIDE DEF s
<1>2. PICK saved \in Saved(slot[s]) :
        /\ states' = MakeRoom(saved[1], 0, saved[2])
        /\ slot' = IF saved[3] /\ Unified THEN [slot EXCEPT ![s] = Cleared(slot[s])] ELSE slot
  BY DEF SaveIdle, s
<1>3. slot[s] \in TrueSlots /\ states \in Seq(TrueEntries)
  BY <1>1 DEF CacheInv
<1>4. saved[1] \in Seq(TrueEntries)
  BY <1>3, SavedTrue
<1>5. states' \in Seq(TrueEntries)
  BY <1>2, <1>4, MakeRoomKeeps
<1>6. slot' \in [CacheSlots -> TrueSlots]
  BY <1>1, <1>2, <1>3, ClearedTrue DEF CacheInv
<1>7. toSave' \subseteq CacheSlots /\ stateful' \in BOOLEAN
  BY DEF SaveIdle, CacheInv
<1>8. QED
  BY <1>5, <1>6, <1>7 DEF CacheInv

LEMMA ChooseStep ==
    ASSUME CacheInv, "draft" \notin Failing, NEW s \in CacheSlots, NEW p \in Prompts,
           NEW d \in Routes, Choose(s, p, d)
    PROVE  CacheInv'
<1> DEFINE old == slot[s]
           routed == [old EXCEPT !.drafter = d]
<1>1. old \in TrueSlots /\ states \in Seq(TrueEntries)
  BY DEF CacheInv
<1>2. d \in Drafters
  BY DraftersAssumption DEF Routes
<1>3. p \in Texts
  <2>1. p \in Seq(Range(p))
    BY PromptsAssumption
  <2>2. Range(p) \subseteq TextTokens
    BY DEF PromptTokens, TextTokens
  <2>3. QED
    BY <2>1, <2>2 DEF Texts
<1>4. routed \in TrueSlots
  BY <1>1, <1>2, WithDrafter
<1>5. \/ /\ slot' = [slot EXCEPT ![s] = [routed EXCEPT !.task = p]]
         /\ states' = states
      \/ \E saved \in Saved(old) : \E loaded \in Loaded(saved[1], routed, p) :
            /\ slot' = [slot EXCEPT ![s] = [loaded[1] EXCEPT !.task = p]]
            /\ states' = MakeRoom(loaded[2], 0, saved[2])
  BY DEF Choose
<1>6. toSave' \subseteq CacheSlots /\ stateful' \in BOOLEAN
  BY DEF Choose, CacheInv, IdleSlots
<1> HIDE DEF routed, old
<1>7. CASE /\ slot' = [slot EXCEPT ![s] = [routed EXCEPT !.task = p]]
           /\ states' = states
  <2>1. [routed EXCEPT !.task = p] \in TrueSlots
    BY <1>3, <1>4, WithTask
  <2>2. QED
    BY <1>1, <1>6, <1>7, <2>1 DEF CacheInv
<1>8. ASSUME NEW saved \in Saved(old), NEW loaded \in Loaded(saved[1], routed, p),
             slot' = [slot EXCEPT ![s] = [loaded[1] EXCEPT !.task = p]],
             states' = MakeRoom(loaded[2], 0, saved[2])
      PROVE  CacheInv'
  <2>1. saved[1] \in Seq(TrueEntries)
    BY <1>1, SavedTrue
  <2>2. loaded[1] \in TrueSlots /\ loaded[2] \in Seq(TrueEntries)
    BY <1>4, <2>1, LoadedTrue
  <2>3. states' \in Seq(TrueEntries)
    BY <1>8, <2>2, MakeRoomKeeps
  <2>4. [loaded[1] EXCEPT !.task = p] \in TrueSlots
    BY <1>3, <2>2, WithTask
  <2>5. slot' \in [CacheSlots -> TrueSlots]
    BY <1>8, <2>4 DEF CacheInv
  <2>6. QED
    BY <1>6, <2>3, <2>5 DEF CacheInv
<1>9. QED
  BY <1>5, <1>7, <1>8

LEMMA CacheStep ==
    ASSUME CacheInv, "draft" \notin Failing, [CacheNext]_cacheVars
    PROVE  CacheInv'
<1>1. CASE SaveIdle
  BY <1>1, SaveIdleStep
<1>2. ASSUME NEW s \in CacheSlots, Serve(s) \/ Abandon(s) \/ Purge(s) PROVE CacheInv'
  BY <1>2, ServeStep, AbandonStep, PurgeStep
<1>3. ASSUME NEW s \in CacheSlots, NEW p \in Prompts, NEW d \in Routes, Choose(s, p, d)
      PROVE  CacheInv'
  BY <1>3, ChooseStep
<1>4. CASE UNCHANGED cacheVars
  BY <1>4 DEF CacheInv, cacheVars
<1>5. QED
  BY <1>1, <1>2, <1>3, <1>4 DEF CacheNext

LEMMA CacheInvImplies == CacheInv => MemoryHoldsPrompt
<1> SUFFICES ASSUME CacheInv PROVE MemoryHoldsPrompt
  OBVIOUS
<1>1. ASSUME NEW s \in CacheSlots
      PROVE  /\ slot[s].main = Rows(slot[s].tokens)
             /\ \A d \in Drafters : \A r \in slot[s].draft[d] : r[3] = d
  <2>1. slot[s] \in TrueSlots
    BY DEF CacheInv
  <2>2. QED
    BY <2>1, SlotFields DEF Own
<1>2. ASSUME NEW i \in DOMAIN states
      PROVE  /\ states[i].main = Rows(states[i].tokens)
             /\ \A r \in states[i].draft : r[3] = states[i].drafter
  <2>1. states[i] \in TrueEntries
    BY DEF CacheInv
  <2>2. QED
    BY <2>1, EntryIs DEF Own
<1>3. QED
  BY <1>1, <1>2 DEF MemoryHoldsPrompt

\* A slot's memory, and an entry's, hold what is called its prompt, and no
\* drafter's context the rows of another (server_prompt_cache,
\* get_available_slot), unless the restore of a draft context can fail.
THEOREM CacheHoldsPrompts ==
    ASSUME "draft" \notin Failing
    PROVE  CacheSpec => []MemoryHoldsPrompt
<1>1. CacheInit => CacheInv
  BY CacheStarts
<1>2. CacheInv /\ [CacheNext]_cacheVars => CacheInv'
  BY CacheStep
<1>3. CacheInv => MemoryHoldsPrompt
  BY CacheInvImplies
<1>4. QED
  BY <1>1, <1>2, <1>3, PTL DEF CacheSpec

-----------------------------------------------------------------------------
(* The per-layer embedding store: list, map and byte count of a shard agree, *)
(* and a fetch that succeeds has its rows.                                   *)

Row == 0 .. NumRows - 1
RowLists == Seq(Row)
BlockLists == Seq(Block)
SizeOf(b) == Len(DataOf(b))
Weight(list) == Total([i \in DOMAIN list |-> SizeOf(list[i])])

\* What a shard holds: its list decides its map and its count of bytes.
GoodLists == {list \in BlockLists : IsInjective(list) /\ Weight(list) <= ShardBudget}
Contents(list) == [b \in ToSet(list) |-> DataOf(b)]
ShardsHold ==
    /\ lru \in [Shard -> GoodLists]
    /\ blockMap = [s \in Shard |-> Contents(lru[s])]
    /\ used = [s \in Shard |-> Weight(lru[s])]

\* A fetch, with the rows that it has or still has to gather.
Flying == {"classify", "prefetch", "read", "gather"}
Fetches == [at : {"idle", "lock", "done"} \union Flying, rows : RowLists,
            blocks : BlockLists, missing : BlockLists, dst : Seq(Int)]
HasRows(f) ==
    \A i \in DOMAIN f.rows : f.dst[i] = f.rows[i] \/ BlockOf(f.rows[i]) \in ToSet(f.blocks)
GoodFetches ==
    {f \in Fetches : /\ f.at # "idle" => DOMAIN f.dst = DOMAIN f.rows
                     /\ f.at \in {"prefetch", "read", "gather", "done"} => HasRows(f)
                     /\ f.at = "gather" => f.missing = <<>> /\ f.blocks # <<>>
                     /\ f.at = "read" => f.missing # <<>> \/ f.blocks # <<>>
                     /\ f.at = "done" => f.blocks = <<>>}

\* One fetch flies at a time, and gathers from a block that is cached.
Alone == \A p \in Callers : (fetch[p].at \in Flying) <=> (flight = p)
Gathers == \A p \in Callers : fetch[p].at = "gather" => IsCached(Head(fetch[p].blocks))

PleInv == ShardsHold /\ fetch \in [Callers -> GoodFetches] /\ Alone /\ Gathers

-----------------------------------------------------------------------------
\* Rows and blocks.
LEMMA DivIs ==
    ASSUME NEW n \in Nat \ {0}, NEW x \in Nat
    PROVE  /\ x \div n \in Nat /\ x % n \in 0 .. n - 1
           /\ x = n * (x \div n) + (x % n)
           /\ n * (x \div n) = (x \div n) * n
<1>1. x \div n \in Nat /\ x % n \in 0 .. n - 1
  OBVIOUS
<1>2. x % n = x - n * (x \div n)
  BY SMTT(30)
<1>3. n * (x \div n) \in Int /\ n * (x \div n) = (x \div n) * n
  BY <1>1
<1>4. QED
  <2> DEFINE q == x \div n
             t == n * q
             r == x % n
  <2>1. t \in Int /\ r \in Int /\ r = x - t
    BY <1>1, <1>2, <1>3
  <2> HIDE DEF t, r
  <2>2. x = t + r
    BY <2>1
  <2>3. QED
    BY <1>1, <1>3, <2>2 DEF t, r

LEMMA BlockIs ==
    ASSUME NEW row \in Row
    PROVE  /\ BlockOf(row) \in Block
           /\ InBlock(row) + 1 \in DOMAIN DataOf(BlockOf(row))
           /\ DataOf(BlockOf(row))[InBlock(row) + 1] = row
<1> DEFINE b == BlockOf(row)
           r == InBlock(row)
           base == b * RowsPerBlock
           n == IF (b + 1) * RowsPerBlock <= NumRows THEN RowsPerBlock ELSE NumRows - base
<1>1. row \in Nat /\ row <= NumRows - 1 /\ NumRows \in Nat /\ NumRows - 1 \in Nat /\ RowsPerBlock \in Nat \ {0}
  BY TableAssumption DEF Row
<1>2. b \in Nat /\ r \in 0 .. RowsPerBlock - 1 /\ row = base + r
  <2>1. /\ row \div RowsPerBlock \in Nat /\ row % RowsPerBlock \in 0 .. RowsPerBlock - 1
        /\ row = RowsPerBlock * (row \div RowsPerBlock) + (row % RowsPerBlock)
        /\ RowsPerBlock * (row \div RowsPerBlock) = (row \div RowsPerBlock) * RowsPerBlock
    BY <1>1, DivIs
  <2>2. QED
    BY <2>1, Zenon DEF BlockOf, InBlock
<1>3. BlockOf(row) \in Block
  <2>1. row \div RowsPerBlock <= (NumRows - 1) \div RowsPerBlock
    BY <1>1, SMTT(30)
  <2>2. QED
    BY <1>1, <1>2, <2>1 DEF Block, BlockOf
<1>4. DataOf(b) = [i \in 1 .. n |-> base + i - 1]
  BY DEF DataOf
<1>5. base \in Nat /\ (b + 1) * RowsPerBlock = base + RowsPerBlock
  BY <1>1, <1>2
<1> HIDE DEF b, r, base
<1>6. n \in Int /\ r + 1 \in 1 .. n
  BY <1>1, <1>2, <1>5
<1> HIDE DEF n
<1>7. DOMAIN DataOf(b) = 1 .. n /\ DataOf(b)[r + 1] = base + (r + 1) - 1
  BY <1>4, <1>6
<1>8. base + (r + 1) - 1 = row
  BY <1>2, <1>5
<1>9. QED
  BY <1>3, <1>6, <1>7, <1>8 DEF b, r

LEMMA BlockSize ==
    ASSUME NEW b \in Block
    PROVE  /\ b \in Nat /\ ShardFor(b) \in Shard
           /\ SizeOf(b) \in Nat /\ SizeOf(b) <= RowsPerBlock
<1> DEFINE base == b * RowsPerBlock
           n == IF (b + 1) * RowsPerBlock <= NumRows THEN RowsPerBlock ELSE NumRows - base
<1>1. NumRows \in Nat /\ NumRows - 1 \in Nat /\ RowsPerBlock \in Nat \ {0} /\ Shards \in Nat \ {0}
  BY TableAssumption, ShardAssumption
<1>2. b \in Nat /\ b <= (NumRows - 1) \div RowsPerBlock /\ (NumRows - 1) \div RowsPerBlock \in Nat
  BY <1>1, DivIs DEF Block
<1>3. ShardFor(b) \in Shard
  BY <1>1, <1>2 DEF ShardFor, Shard
<1>4. base \in Nat /\ (b + 1) * RowsPerBlock = base + RowsPerBlock
  BY <1>1, <1>2
<1>5. base <= NumRows - 1
  <2> DEFINE q == (NumRows - 1) \div RowsPerBlock
  <2>1. RowsPerBlock * q <= NumRows - 1
    BY <1>1, SMTT(30)
  <2>2. b * RowsPerBlock <= q * RowsPerBlock
    <3> HIDE DEF q
    <3>1. QED
      BY <1>1, <1>2 DEF q
  <2>3. q * RowsPerBlock = RowsPerBlock * q
    BY <1>1, <1>2
  <2> HIDE DEF q
  <2>4. QED
    BY <1>1, <1>2, <2>1, <2>2, <2>3 DEF q
<1> HIDE DEF base
<1>6. n \in Nat /\ n <= RowsPerBlock
  BY <1>1, <1>4, <1>5
<1>7. SizeOf(b) = n
  <2>1. DataOf(b) = [i \in 1 .. n |-> b * RowsPerBlock + i - 1]
    BY DEF DataOf, base
  <2> HIDE DEF n
  <2>2. QED
    BY <1>6, <2>1 DEF SizeOf
<1>8. QED
  BY <1>2, <1>3, <1>6, <1>7

-----------------------------------------------------------------------------
\* What the blocks of a list weigh.
Sizes(list) == [i \in DOMAIN list |-> SizeOf(list[i])]

LEMMA SizesType ==
    ASSUME NEW list \in BlockLists
    PROVE  /\ Sizes(list) \in Seq(Nat) /\ Len(Sizes(list)) = Len(list)
           /\ DOMAIN list = 1 .. Len(list) /\ Len(list) \in Nat
           /\ Weight(list) = Total(Sizes(list)) /\ Weight(list) \in Nat
<1>1. DOMAIN list = 1 .. Len(list) /\ Len(list) \in Nat /\ \A i \in DOMAIN list : list[i] \in Block
  BY DEF BlockLists
<1>2. \A i \in DOMAIN list : SizeOf(list[i]) \in Nat
  BY <1>1, BlockSize
<1>3. Sizes(list) \in Seq(Nat) /\ Len(Sizes(list)) = Len(list)
  BY <1>1, <1>2 DEF Sizes
<1>4. Weight(list) = Total(Sizes(list))
  BY DEF Weight, Sizes
<1>5. Total(Sizes(list)) \in Nat
  BY <1>3, TotalJoin
<1>6. QED
  BY <1>1, <1>3, <1>4, <1>5

LEMMA WeightJoin ==
    ASSUME NEW a \in BlockLists, NEW b \in BlockLists
    PROVE  /\ a \o b \in BlockLists
           /\ Weight(a \o b) = Weight(a) + Weight(b)
<1>1. /\ a \o b \in BlockLists /\ Len(a \o b) = Len(a) + Len(b)
      /\ DOMAIN (a \o b) = 1 .. Len(a) + Len(b)
      /\ \A i \in DOMAIN (a \o b) : (a \o b)[i] = IF i <= Len(a) THEN a[i] ELSE b[i - Len(a)]
  BY Concat DEF BlockLists
<1> DEFINE s == Sizes(a)
           t == Sizes(b)
<1>2. /\ s \in Seq(Nat) /\ t \in Seq(Nat) /\ Len(s) = Len(a) /\ Len(t) = Len(b)
      /\ Len(a) \in Nat /\ Len(b) \in Nat /\ DOMAIN a = 1 .. Len(a) /\ DOMAIN b = 1 .. Len(b)
      /\ Weight(a) = Total(s) /\ Weight(b) = Total(t) /\ Weight(a \o b) = Total(Sizes(a \o b))
  BY <1>1, SizesType
<1>3. \A i \in 1 .. Len(a) : s[i] = SizeOf(a[i])
  BY <1>2 DEF Sizes
<1>4. \A i \in 1 .. Len(b) : t[i] = SizeOf(b[i])
  BY <1>2 DEF Sizes
<1>5. \A i \in 1 .. Len(a) + Len(b) : Sizes(a \o b)[i] = (s \o t)[i]
  <2> TAKE i \in 1 .. Len(a) + Len(b)
  <2>1. Sizes(a \o b)[i] = SizeOf((a \o b)[i])
    BY <1>1 DEF Sizes
  <2> HIDE DEF s, t
  <2>2. CASE i <= Len(a)
    <3>1. (s \o t)[i] = s[i] /\ (a \o b)[i] = a[i] /\ i \in 1 .. Len(a)
      BY <1>1, <1>2, <2>2
    <3>2. QED
      BY <1>3, <2>1, <3>1
  <2>3. CASE i > Len(a)
    <3>1. (s \o t)[i] = t[i - Len(a)] /\ (a \o b)[i] = b[i - Len(a)] /\ i - Len(a) \in 1 .. Len(b)
      BY <1>1, <1>2, <2>3
    <3>2. QED
      BY <1>4, <2>1, <3>1
  <2>4. QED
    BY <1>2, <2>2, <2>3
<1>6. Sizes(a \o b) = s \o t
  <2>1. Sizes(a \o b) = [i \in 1 .. Len(a) + Len(b) |-> Sizes(a \o b)[i]]
    BY <1>1 DEF Sizes
  <2> HIDE DEF s, t
  <2>2. s \o t = [i \in 1 .. Len(a) + Len(b) |-> (s \o t)[i]]
    <3>1. s \o t \in Seq(Nat) /\ Len(s \o t) = Len(a) + Len(b)
      <4>1. s \in Seq(Nat) /\ t \in Seq(Nat)
        BY <1>2
      <4>2. s \o t \in Seq(Nat) /\ Len(s \o t) = Len(s) + Len(t)
        BY <4>1, Concat
      <4>3. QED
        BY <1>2, <4>2
    <3> DEFINE w == s \o t
    <3> HIDE DEF w
    <3>2. w \in Seq(Nat) => w = [i \in 1 .. Len(w) |-> w[i]]
      OBVIOUS
    <3>3. QED
      BY <3>1, <3>2 DEF w
  <2>3. QED
    BY <1>5, <2>1, <2>2
<1>7. Total(s \o t) = Total(s) + Total(t)
  BY <1>2, TotalJoin
<1> HIDE DEF s, t
<1>8. QED
  BY <1>1, <1>2, <1>6, <1>7

LEMMA WeightOne ==
    /\ <<>> \in BlockLists /\ Weight(<<>>) = 0
    /\ \A b \in Block : <<b>> \in BlockLists /\ Weight(<<b>>) = SizeOf(b)
<1>1. <<>> \in BlockLists /\ \A b \in Block : <<b>> \in BlockLists
  BY DEF BlockLists
<1>2. Sizes(<<>>) = <<>>
  BY DEF Sizes
<1>3. ASSUME NEW b \in Block PROVE Weight(<<b>>) = SizeOf(b)
  <2>1. Sizes(<<b>>) = <<SizeOf(b)>>
    BY DEF Sizes
  <2>2. SizeOf(b) \in Nat
    BY BlockSize
  <2>3. QED
    BY <1>1, <2>1, <2>2, SizesType, TotalOne
<1>4. QED
  BY <1>1, <1>2, <1>3, SizesType, TotalOne

\* The fold by which an eviction counts what it frees.
Sum(m, list) == FoldLeft(LAMBDA sum, x : sum + Len(m[x]), 0, list)

LEMMA FoldWeight ==
    ASSUME NEW list \in BlockLists, NEW m, \A i \in DOMAIN list : m[list[i]] = DataOf(list[i])
    PROVE  Sum(m, list) = Weight(list)
<1> DEFINE n == Len(list)
           ns == Sizes(list)
           step == [i \in 1 .. n |-> [v \in Nat |-> v + ns[i]]]
           Is(h) == h = [s \in SUBSET DOMAIN list |->
                            IF s = {} THEN 0 ELSE h[s \ {Max(s)}] + Len(m[list[Max(s)]])]
           h == CHOOSE f : Is(f)
<1>1. /\ ns \in Seq(Nat) /\ Len(ns) = n /\ n \in Nat /\ DOMAIN list = 1 .. n
      /\ Weight(list) = Total(ns)
  BY SizesType
<1>2. \A i \in 1 .. n : ns[i] = Len(m[list[i]]) /\ ns[i] \in Nat
  BY <1>1 DEF Sizes, SizeOf
<1>3. Sum(m, list) = h[DOMAIN list]
  BY DEF Sum, FoldLeft, MapThenFoldSet
<1>4. PICK g \in [SUBSET (1 .. n) -> Nat] : IsFold(g, step, n, 0)
  <2>1. step \in [1 .. n -> [Nat -> Nat]]
    BY <1>2
  <2> HIDE DEF step, n
  <2>2. QED
    BY <1>1, <2>1, FoldExists DEF Steps, HasFold
<1>5. Is(g)
  <2>1. ASSUME NEW s \in SUBSET (1 .. n)
        PROVE  g[s] = IF s = {} THEN 0 ELSE g[s \ {Max(s)}] + Len(m[list[Max(s)]])
    <3>1. CASE s = {}
      BY <1>4, <3>1 DEF IsFold
    <3>2. CASE s # {}
      <4> DEFINE rest == g[s \ {Max(s)}]
      <4>1. Max(s) \in 1 .. n /\ g[s] = step[Max(s)][rest] /\ rest \in Nat
        BY <1>4, <3>2 DEF IsFold
      <4> HIDE DEF rest, ns
      <4>2. g[s] = rest + ns[Max(s)]
        BY <4>1
      <4>3. QED
        BY <1>2, <3>2, <4>1, <4>2 DEF rest
    <3>3. QED
      BY <3>1, <3>2
  <2>2. g = [s \in SUBSET (1 .. n) |-> g[s]]
    BY <1>4
  <2>3. QED
    BY <1>1, <2>1, <2>2
<1>6. Is(h)
  <2> HIDE DEF Is
  <2>1. QED
    BY <1>5
<1>7. PICK a : Adds(a, ns)
  BY <1>1, TotalIs
<1>8. a[n] = Weight(list) /\ a[0] = 0 /\ \A i \in 1 .. n : a[i] = a[i - 1] + ns[i]
  <2>1. Total(ns) = a[n]
    <3> HIDE DEF ns, n
    <3>1. QED
      BY <1>1, <1>7, TotalIs
  <2>2. QED
    BY <1>1, <1>7, <2>1 DEF Adds
<1>9. h[DOMAIN list] = a[n]
  <2> DEFINE N == {k \in Nat : k <= n => h[1 .. k] = a[k]}
  <2>1. \A s \in SUBSET (1 .. n) : h[s] = IF s = {} THEN 0 ELSE h[s \ {Max(s)}] + Len(m[list[Max(s)]])
    <3> HIDE DEF h
    <3>1. QED
      BY <1>1, <1>6
  <2> HIDE DEF h, ns
  <2>2. 1 .. 0 = {} /\ {} \in SUBSET (1 .. n)
    OBVIOUS
  <2>3. h[1 .. 0] = a[0]
    BY <1>8, <2>1, <2>2
  <2>4. ASSUME NEW k \in Nat, k + 1 <= n, h[1 .. k] = a[k] PROVE h[1 .. k + 1] = a[k + 1]
    <3> DEFINE s == 1 .. k + 1
    <3>1. s \in SUBSET (1 .. n) /\ s # {}
      BY <1>1, <2>4
    <3>4. Max(s) = k + 1 /\ s \ {k + 1} = 1 .. k
      BY UptoMax
    <3> HIDE DEF s
    <3>5. h[s] = h[1 .. k] + Len(m[list[k + 1]])
      BY <2>1, <3>1, <3>4
    <3>6. k + 1 \in 1 .. n /\ (k + 1) - 1 = k
      BY <1>1, <2>4
    <3>7. a[k + 1] = a[k] + Len(m[list[k + 1]])
      BY <1>2, <1>8, <3>6
    <3>8. QED
      BY <2>4, <3>5, <3>7 DEF s
  <2>5. N \in SUBSET Nat /\ 0 \in N
    BY <1>8, <2>3
  <2>6. \A k \in N : k + 1 <= n => k + 1 \in N
    BY <1>1, <2>4
  <2> HIDE DEF N, n
  <2>7. \A k \in 0 .. n : k \in N
    BY <1>1, <2>5, <2>6, InductionUpTo
  <2>8. n \in N
    BY <1>1, <2>7
  <2>9. QED
    BY <1>1, <2>8 DEF N
<1>10. QED
  BY <1>3, <1>8, <1>9

\* The distinct blocks of the rows are among the list, which is one of blocks.
LEMMA DistinctCovers ==
    ASSUME NEW rows \in RowLists
    PROVE  /\ Distinct(rows) \in BlockLists
           /\ \A i \in DOMAIN rows : BlockOf(rows[i]) \in ToSet(Distinct(rows))
<1> DEFINE n == Len(rows)
           Next(acc, row) == IF Contains(acc, BlockOf(row)) THEN acc ELSE Append(acc, BlockOf(row))
           step == [i \in 1 .. n |-> [acc \in BlockLists |-> Next(acc, rows[i])]]
           Is(h) == h = [s \in SUBSET DOMAIN rows |->
                            IF s = {} THEN <<>> ELSE Next(h[s \ {Max(s)}], rows[Max(s)])]
           h == CHOOSE f : Is(f)
<1>1. n \in Nat /\ DOMAIN rows = 1 .. n /\ \A i \in 1 .. n : rows[i] \in Row /\ BlockOf(rows[i]) \in Block
  BY BlockIs DEF RowLists
<1>2. ASSUME NEW acc \in BlockLists, NEW i \in 1 .. n
      PROVE  /\ Next(acc, rows[i]) \in BlockLists
             /\ BlockOf(rows[i]) \in ToSet(Next(acc, rows[i]))
             /\ ToSet(acc) \subseteq ToSet(Next(acc, rows[i]))
  <2> DEFINE b == BlockOf(rows[i])
             more == Append(acc, b)
  <2>1. b \in Block
    BY <1>1
  <2> HIDE DEF b
  <2>2. /\ more \in BlockLists /\ Len(acc) + 1 \in DOMAIN more /\ more[Len(acc) + 1] = b
        /\ \A j \in DOMAIN acc : j \in DOMAIN more /\ more[j] = acc[j]
    BY <2>1 DEF BlockLists
  <2> HIDE DEF more
  <2>3. b \in ToSet(more) /\ ToSet(acc) \subseteq ToSet(more)
    BY <2>2 DEF ToSet
  <2>4. Contains(acc, b) => b \in ToSet(acc)
    BY DEF Contains, ToSet, BlockLists
  <2>5. QED
    BY <2>2, <2>3, <2>4 DEF b, more
<1>3. Distinct(rows) = h[DOMAIN rows]
  BY DEF Distinct, FoldLeft, MapThenFoldSet
<1>4. PICK g \in [SUBSET (1 .. n) -> BlockLists] : IsFold(g, step, n, <<>>)
  <2>1. step \in [1 .. n -> [BlockLists -> BlockLists]]
    <3> HIDE DEF Next
    <3>1. \A i \in 1 .. n : [acc \in BlockLists |-> Next(acc, rows[i])] \in [BlockLists -> BlockLists]
      BY <1>2
    <3>2. QED
      BY <3>1
  <2>2. <<>> \in BlockLists
    BY DEF BlockLists
  <2> HIDE DEF step, n
  <2>3. QED
    BY <1>1, <2>1, <2>2, FoldExists DEF Steps, HasFold
<1>5. Is(g)
  <2>1. ASSUME NEW s \in SUBSET (1 .. n)
        PROVE  g[s] = IF s = {} THEN <<>> ELSE Next(g[s \ {Max(s)}], rows[Max(s)])
    <3>1. CASE s = {}
      BY <1>4, <3>1 DEF IsFold
    <3>2. CASE s # {}
      <4> DEFINE rest == g[s \ {Max(s)}]
      <4>1. Max(s) \in 1 .. n /\ g[s] = step[Max(s)][rest] /\ rest \in BlockLists
        BY <1>4, <3>2 DEF IsFold
      <4> HIDE DEF rest, Next
      <4>2. g[s] = Next(rest, rows[Max(s)])
        BY <4>1
      <4>3. QED
        BY <3>2, <4>2 DEF rest
    <3>3. QED
      BY <3>1, <3>2
  <2> HIDE DEF Next
  <2>2. g = [s \in SUBSET (1 .. n) |-> g[s]]
    BY <1>4
  <2>3. QED
    BY <1>1, <2>1, <2>2
<1>6. Is(h)
  <2> HIDE DEF Is
  <2>1. QED
    BY <1>5
<1>7. \A s \in SUBSET (1 .. n) : h[s] = IF s = {} THEN <<>> ELSE Next(h[s \ {Max(s)}], rows[Max(s)])
  <2> HIDE DEF h, Next
  <2>1. QED
    BY <1>1, <1>6
<1> HIDE DEF h
<1> DEFINE Good(k) == /\ h[1 .. k] \in BlockLists
                      /\ \A i \in 1 .. k : BlockOf(rows[i]) \in ToSet(h[1 .. k])
           N == {k \in Nat : k <= n => Good(k)}
<1>8. Good(0)
  <2>1. 1 .. 0 = {} /\ {} \in SUBSET (1 .. n)
    OBVIOUS
  <2>2. h[1 .. 0] = <<>>
    BY <1>7, <2>1
  <2>3. <<>> \in BlockLists
    BY DEF BlockLists
  <2>4. QED
    BY <2>1, <2>2, <2>3
<1>9. ASSUME NEW k \in Nat, k + 1 <= n, Good(k) PROVE Good(k + 1)
  <2> DEFINE s == 1 .. k + 1
  <2>1. s \in SUBSET (1 .. n) /\ s # {} /\ k + 1 \in 1 .. n /\ s = (1 .. k) \union {k + 1}
    BY <1>1, <1>9
  <2>2. Max(s) = k + 1 /\ s \ {k + 1} = 1 .. k
    BY UptoMax
  <2> HIDE DEF s, Next
  <2>3. h[s] = Next(h[1 .. k], rows[k + 1])
    BY <1>7, <2>1, <2>2
  <2>4. /\ h[s] \in BlockLists /\ BlockOf(rows[k + 1]) \in ToSet(h[s])
        /\ ToSet(h[1 .. k]) \subseteq ToSet(h[s])
    BY <1>2, <1>9, <2>1, <2>3
  <2>5. \A i \in s : BlockOf(rows[i]) \in ToSet(h[s])
    BY <1>9, <2>1, <2>4
  <2>6. QED
    BY <2>4, <2>5 DEF s
<1>10. Good(n)
  <2> HIDE DEF Good
  <2>1. N \in SUBSET Nat /\ 0 \in N
    BY <1>8
  <2>2. \A k \in N : k + 1 <= n => k + 1 \in N
    BY <1>1, <1>9
  <2> HIDE DEF N, n
  <2>3. \A k \in 0 .. n : k \in N
    BY <1>1, <2>1, <2>2, InductionUpTo
  <2>4. n \in N
    BY <1>1, <2>3
  <2>5. QED
    BY <1>1, <2>4 DEF N
<1>11. QED
  BY <1>1, <1>3, <1>10

\* Finitely many blocks can be put in the order of the file.
InOrderOf(f, S) == /\ f \in [1 .. Cardinality(S) -> S]
                   /\ \A i, j \in 1 .. Cardinality(S) : i < j => f[i] < f[j]

LEMMA OrderExists ==
    ASSUME NEW S \in SUBSET Nat, IsFiniteSet(S)
    PROVE  InOrderOf(InFileOrder(S), S)
<1> DEFINE N == {n \in Nat : \A T \in SUBSET Nat : IsFiniteSet(T) /\ Cardinality(T) = n =>
                                 \E f : InOrderOf(f, T)}
<1>1. 0 \in N
  <2>1. SUFFICES ASSUME NEW T \in SUBSET Nat, IsFiniteSet(T), Cardinality(T) = 0
                 PROVE  \E f : InOrderOf(f, T)
    OBVIOUS
  <2>2. InOrderOf([i \in 1 .. 0 |-> 0], T)
    <3>1. 1 .. 0 = {} /\ [i \in 1 .. 0 |-> 0] \in [1 .. 0 -> T]
      OBVIOUS
    <3>2. QED
      BY <2>1, <3>1 DEF InOrderOf
  <2>3. QED
    BY <2>2
<1>2. ASSUME NEW n \in N PROVE n + 1 \in N
  <2>1. SUFFICES ASSUME NEW T \in SUBSET Nat, IsFiniteSet(T), Cardinality(T) = n + 1
                 PROVE  \E f : InOrderOf(f, T)
    OBVIOUS
  <2>2. T # {} /\ n \in Nat
    BY <2>1, FS_EmptySet
  <2> DEFINE m == Min(T)
             R == T \ {m}
  <2>3. m \in T /\ \A k \in T : m <= k
    BY <2>2, SmallestExists
  <2> HIDE DEF m
  <2>4. IsFiniteSet(R) /\ Cardinality(R) = n /\ R \in SUBSET Nat
    <3>1. IsFiniteSet(R) /\ Cardinality(R) = Cardinality(T) - 1
      BY <2>1, <2>3, FS_RemoveElement
    <3> HIDE DEF R
    <3>2. R \in SUBSET Nat
      BY DEF R
    <3>3. QED
      BY <2>1, <2>2, <3>1, <3>2
  <2>5. PICK f : InOrderOf(f, R)
    BY <1>2, <2>4
  <2>6. /\ f \in [1 .. n -> R] /\ \A i, j \in 1 .. n : i < j => f[i] < f[j]
        /\ \A k \in R : m < k /\ k \in T
    <3>1. \A k \in R : k \in T /\ k # m /\ k \in Nat /\ m \in Nat
      BY <2>3
    <3>2. \A k \in R : m < k
      BY <2>3, <3>1
    <3> HIDE DEF R
    <3>3. QED
      BY <2>4, <2>5, <3>1, <3>2 DEF InOrderOf
  <2> HIDE DEF R
  <2> DEFINE F == [i \in 1 .. n + 1 |-> IF i = 1 THEN m ELSE f[i - 1]]
  <2>7. /\ \A i \in 1 .. n + 1 : i # 1 => i - 1 \in 1 .. n
        /\ \A i \in 1 .. n + 1 : F[i] = IF i = 1 THEN m ELSE f[i - 1]
    BY <2>2
  <2>8. \A i \in 1 .. n + 1 : i # 1 => F[i] \in R
    BY <2>6, <2>7
  <2>9. \A i \in 1 .. n + 1 : F[i] \in T
    BY <2>3, <2>6, <2>7, <2>8
  <2>10. ASSUME NEW i \in 1 .. n + 1, NEW j \in 1 .. n + 1, i < j PROVE F[i] < F[j]
    <3>1. j # 1 /\ F[j] = f[j - 1] /\ F[j] \in R
      BY <2>7, <2>8, <2>10
    <3>2. CASE i = 1
      BY <2>6, <2>7, <3>1, <3>2
    <3>3. CASE i # 1
      <4>1. F[i] = f[i - 1] /\ i - 1 < j - 1 /\ i - 1 \in 1 .. n /\ j - 1 \in 1 .. n
        BY <2>2, <2>7, <2>10, <3>1, <3>3
      <4>2. QED
        BY <2>6, <3>1, <4>1
    <3>4. QED
      BY <3>2, <3>3
  <2>11. InOrderOf(F, T)
    <3>1. F \in [1 .. n + 1 -> T]
      BY <2>9
    <3> HIDE DEF F
    <3>2. QED
      BY <2>1, <2>10, <3>1 DEF InOrderOf
  <2>12. QED
    BY <2>11
<1>3. N = Nat
  <2>1. N \in SUBSET Nat
    OBVIOUS
  <2> HIDE DEF N
  <2>2. QED
    BY <1>1, <1>2, <2>1, NatInductionSet
<1>4. \E f : InOrderOf(f, S)
  <2>1. Cardinality(S) \in Nat
    BY FS_CardinalityType
  <2>2. QED
    BY <1>3, <2>1
<1>5. QED
  BY <1>4 DEF InFileOrder, InOrderOf

LEMMA MissingInOrder ==
    ASSUME NEW list \in BlockLists
    PROVE  InFileOrder(ToSet(list)) \in BlockLists
<1> DEFINE S == ToSet(list)
<1>1. S \subseteq Block /\ Block \subseteq Nat
  BY BlockSize DEF ToSet, BlockLists
<1>2. IsFiniteSet(S)
  <2>1. IsFiniteSet(1 .. Len(list)) /\ DOMAIN list = 1 .. Len(list)
    BY FS_Interval DEF BlockLists
  <2>2. list \in Surjection(1 .. Len(list), S)
    BY <2>1 DEF ToSet, Surjection, BlockLists
  <2>3. QED
    BY <2>1, <2>2, FS_Surjection
<1>3. InFileOrder(S) \in [1 .. Cardinality(S) -> S] /\ Cardinality(S) \in Nat
  BY <1>1, <1>2, OrderExists, FS_CardinalityType DEF InOrderOf
<1> HIDE DEF S
<1>4. QED
  BY <1>1, <1>3 DEF BlockLists, S

-----------------------------------------------------------------------------
\* Lists that are cut, and lists that get a new front.
LEMMA BackIs ==
    ASSUME NEW list \in BlockLists, NEW k \in 0 .. Len(list)
    PROVE  /\ DOMAIN SubSeq(list, k + 1, Len(list)) = 1 .. Len(list) - k
           /\ \A i \in 1 .. Len(list) - k : SubSeq(list, k + 1, Len(list))[i] = list[k + i]
<1>1. Len(list) \in Nat /\ \A i \in 1 .. Len(list) : list[i] \in Block
  BY DEF BlockLists
<1>2. QED
  BY <1>1 DEF BlockLists

LEMMA SplitAt ==
    ASSUME NEW list \in BlockLists, NEW k \in 0 .. Len(list)
    PROVE  /\ SubSeq(list, 1, k) \in BlockLists /\ SubSeq(list, k + 1, Len(list)) \in BlockLists
           /\ Len(SubSeq(list, 1, k)) = k /\ \A i \in 1 .. k : SubSeq(list, 1, k)[i] = list[i]
           /\ list = SubSeq(list, 1, k) \o SubSeq(list, k + 1, Len(list))
           /\ Weight(list) = Weight(SubSeq(list, 1, k)) + Weight(SubSeq(list, k + 1, Len(list)))
<1> DEFINE a == SubSeq(list, 1, k)
           b == SubSeq(list, k + 1, Len(list))
           n == Len(list)
<1>0. list = [i \in 1 .. n |-> list[i]]
  BY DEF BlockLists
<1>1. n \in Nat /\ k \in 0 .. n /\ \A i \in 1 .. n : list[i] \in Block
  BY DEF BlockLists
<1>2. /\ a \in BlockLists /\ Len(a) = k /\ \A i \in 1 .. k : a[i] = list[i]
      /\ b \in BlockLists /\ Len(b) = n - k /\ \A i \in 1 .. n - k : b[i] = list[k + i]
  BY <1>1 DEF BlockLists
<1> HIDE DEF a, b, n
<1>3. /\ a \o b \in BlockLists /\ Len(a \o b) = n
      /\ \A i \in 1 .. n : (a \o b)[i] = IF i <= k THEN a[i] ELSE b[i - k]
  <2>1. k + (n - k) = n
    BY <1>1
  <2>2. /\ a \o b \in Seq(Block) /\ Len(a \o b) = k + (n - k)
        /\ DOMAIN (a \o b) = 1 .. k + (n - k)
        /\ \A i \in DOMAIN (a \o b) : (a \o b)[i] = IF i <= k THEN a[i] ELSE b[i - k]
    <3>1. a \in Seq(Block) /\ b \in Seq(Block) /\ Len(a) = k /\ Len(b) = n - k
      BY <1>2 DEF BlockLists
    <3>2. /\ a \o b \in Seq(Block) /\ Len(a \o b) = Len(a) + Len(b)
          /\ DOMAIN (a \o b) = 1 .. Len(a) + Len(b)
          /\ \A i \in DOMAIN (a \o b) : (a \o b)[i] = IF i <= Len(a) THEN a[i] ELSE b[i - Len(a)]
      BY <3>1, Concat
    <3>3. QED
      BY <3>1, <3>2
  <2>3. QED
    BY <2>1, <2>2 DEF BlockLists
<1>4. \A i \in 1 .. n : (a \o b)[i] = list[i]
  <2> TAKE i \in 1 .. n
  <2>1. CASE i <= k
    BY <1>1, <1>2, <1>3, <2>1
  <2>2. CASE i > k
    <3>1. i - k \in 1 .. n - k /\ k + (i - k) = i
      BY <1>1, <2>2
    <3>2. QED
      BY <1>1, <1>2, <1>3, <2>2, <3>1
  <2>3. i <= k \/ i > k
    BY <1>1
  <2>4. QED
    BY <2>1, <2>2, <2>3
<1>5. list = a \o b
  <2> DEFINE w == a \o b
  <2> HIDE DEF w
  <2>1. w \in BlockLists => w = [i \in 1 .. Len(w) |-> w[i]]
    BY DEF BlockLists
  <2>2. QED
    BY <1>0, <1>1, <1>3, <1>4, <2>1 DEF w
<1>6. Weight(list) = Weight(a) + Weight(b)
  BY <1>2, <1>5, WeightJoin
<1>7. QED
  BY <1>2, <1>5, <1>6 DEF a, b, n

LEMMA CutHolds ==
    ASSUME NEW list \in BlockLists, IsInjective(list), NEW k \in 0 .. Len(list)
    PROVE  IsInjective(SubSeq(list, 1, k)) /\ ToSet(SubSeq(list, 1, k)) \subseteq ToSet(list)
<1> DEFINE a == SubSeq(list, 1, k)
<1>1. a \in BlockLists /\ Len(a) = k /\ \A i \in 1 .. k : a[i] = list[i]
  BY SplitAt
<1> HIDE DEF a
<1>2. DOMAIN a = 1 .. k /\ 1 .. k \subseteq DOMAIN list
  BY <1>1 DEF BlockLists
<1>3. QED
  BY <1>1, <1>2 DEF IsInjective, ToSet, a

LEMMA FrontHolds ==
    ASSUME NEW list \in BlockLists, IsInjective(list), NEW b \in Block, b \notin ToSet(list)
    PROVE  /\ <<b>> \o list \in BlockLists /\ IsInjective(<<b>> \o list)
           /\ ToSet(<<b>> \o list) = ToSet(list) \union {b}
           /\ Weight(<<b>> \o list) = SizeOf(b) + Weight(list)
<1> DEFINE new == <<b>> \o list
<1>1. /\ new \in BlockLists /\ DOMAIN new = 1 .. Len(list) + 1 /\ Len(list) \in Nat
      /\ DOMAIN list = 1 .. Len(list)
      /\ \A i \in DOMAIN new : new[i] = IF i = 1 THEN b ELSE list[i - 1]
  BY DEF BlockLists
<1>2. Weight(new) = SizeOf(b) + Weight(list)
  BY WeightJoin, WeightOne
<1> HIDE DEF new
<1>3. \A i \in DOMAIN new : i # 1 => i - 1 \in DOMAIN list
  BY <1>1
<1>4. \A i \in DOMAIN list : i + 1 \in DOMAIN new /\ new[i + 1] = list[i]
  BY <1>1
<1>5. 1 \in DOMAIN new /\ new[1] = b
  BY <1>1
<1>6. ToSet(new) = ToSet(list) \union {b}
  BY <1>1, <1>3, <1>4, <1>5 DEF ToSet
<1>7. IsInjective(new)
  <2>1. \A i \in DOMAIN list : list[i] # b
    BY DEF ToSet
  <2>2. SUFFICES ASSUME NEW i \in DOMAIN new, NEW j \in DOMAIN new, new[i] = new[j] PROVE i = j
    BY DEF IsInjective
  <2>3. CASE i = 1
    BY <1>1, <1>3, <2>1, <2>2, <2>3
  <2>4. CASE j = 1
    BY <1>1, <1>3, <2>1, <2>2, <2>4
  <2>5. CASE i # 1 /\ j # 1
    <3>1. i - 1 = j - 1
      BY <1>1, <1>3, <2>2, <2>5 DEF IsInjective
    <3>2. QED
      BY <1>1, <3>1
  <2>6. QED
    BY <2>3, <2>4, <2>5
<1>8. QED
  BY <1>1, <1>2, <1>6, <1>7 DEF new

\* A block moved to the front: the same blocks, the same weight.
LEMMA BumpHolds ==
    ASSUME NEW list \in BlockLists, IsInjective(list), NEW b \in ToSet(list)
    PROVE  LET new == <<b>> \o RemoveFirst(list, b)
           IN /\ new \in BlockLists /\ IsInjective(new)
              /\ ToSet(new) = ToSet(list) /\ Weight(new) = Weight(list)
<1> DEFINE n == Len(list)
           i == SelectInSeq(list, LAMBDA v : v = b)
           a == SubSeq(list, 1, i - 1)
           c == SubSeq(list, i + 1, n)
           r == RemoveAt(list, i)
<1>1. n \in Nat /\ DOMAIN list = 1 .. n /\ \A k \in 1 .. n : list[k] \in Block
  BY DEF BlockLists
<1>2. i \in 1 .. n /\ list[i] = b
  <2> DEFINE I == {k \in 1 .. n : list[k] = b}
  <2>1. I # {} /\ I \in SUBSET Nat
    BY <1>1 DEF ToSet
  <2>2. i = Min(I)
    BY <2>1 DEF SelectInSeq
  <2> HIDE DEF I
  <2>3. i \in I
    BY <2>1, <2>2, SmallestExists
  <2>4. QED
    BY <2>3 DEF I
<1>3. RemoveFirst(list, b) = r
  BY <1>1, <1>2 DEF RemoveFirst
<1> HIDE DEF i
<1>4. b \in Block
  BY <1>1, <1>2
<1>5. /\ r \in BlockLists /\ IsInjective(r) /\ ToSet(r) = {list[k] : k \in DOMAIN list \ {i}}
  <2>1. r \in Seq(Block) /\ list \in Seq(Block) /\ Thinned(r, list, DOMAIN list \ {i})
    BY <1>1, <1>2, RemoveThins DEF BlockLists
  <2> HIDE DEF r
  <2>2. DOMAIN list \ {i} \in SUBSET DOMAIN list
    OBVIOUS
  <2> DEFINE kept == DOMAIN list \ {i}
  <2> HIDE DEF kept
  <2>3. Thinned(r, list, kept) /\ kept \in SUBSET DOMAIN list
    BY <2>1, <2>2 DEF kept
  <2>4. ToSet(r) = {list[k] : k \in kept} /\ IsInjective(r)
    BY <2>1, <2>3, ThinnedElements
  <2>5. QED
    BY <2>1, <2>4 DEF kept, BlockLists
<1>6. b \notin ToSet(r) /\ ToSet(list) = ToSet(r) \union {b}
  <2>1. \A k \in DOMAIN list \ {i} : list[k] # b
    BY <1>1, <1>2 DEF IsInjective
  <2>2. ToSet(list) = {list[k] : k \in DOMAIN list \ {i}} \union {list[i]}
    BY <1>1, <1>2 DEF ToSet
  <2>3. QED
    BY <1>2, <1>5, <2>1, <2>2
<1>7. Weight(list) = Weight(r) + SizeOf(b)
  <2>1. i - 1 \in 0 .. n /\ i \in 0 .. n /\ (i - 1) + 1 = i
    BY <1>1, <1>2
  <2>2. /\ a \in BlockLists /\ SubSeq(list, i, n) \in BlockLists
        /\ Weight(list) = Weight(a) + Weight(SubSeq(list, i, n))
    BY <2>1, SplitAt
  <2>3. c \in BlockLists
    BY <2>1, SplitAt
  <2>4. SubSeq(list, i, n) = <<b>> \o c
    <3> DEFINE s == SubSeq(list, i, n)
               w == <<b>> \o c
    <3>1. /\ Len(s) = n - i + 1 /\ \A k \in 1 .. n - i + 1 : s[k] = list[i + k - 1]
          /\ Len(c) = n - i /\ \A k \in 1 .. n - i : c[k] = list[i + k]
      <4>1. list \in Seq(Block) /\ i \in 1 .. n + 1 /\ i + 1 \in 1 .. n + 1 /\ n = Len(list)
        BY <1>1, <1>2 DEF BlockLists
      <4>2. Len(s) = n - i + 1 /\ \A k \in 1 .. n - i + 1 : s[k] = list[i + k - 1]
        BY <4>1
      <4>3. Len(c) = n - (i + 1) + 1 /\ \A k \in 1 .. n - (i + 1) + 1 : c[k] = list[(i + 1) + k - 1]
        BY <4>1
      <4>4. n - (i + 1) + 1 = n - i /\ \A k \in Nat : (i + 1) + k - 1 = i + k
        BY <4>1
      <4> HIDE DEF c, s, n
      <4>5. QED
        BY <4>2, <4>3, <4>4
    <3> HIDE DEF a, c, s
    <3> DEFINE one == <<b>>
    <3>7. one \in Seq(Block) /\ Len(one) = 1 /\ one[1] = b /\ n - i \in Nat /\ c \in Seq(Block)
      BY <1>1, <1>2, <1>4, <2>3 DEF BlockLists
    <3> HIDE DEF one
    <3>8. /\ one \o c \in Seq(Block) /\ Len(one \o c) = 1 + (n - i)
          /\ \A k \in 1 .. 1 + (n - i) : (one \o c)[k] = IF k <= 1 THEN one[k] ELSE c[k - 1]
      <4>1. /\ one \o c \in Seq(Block) /\ Len(one \o c) = Len(one) + Len(c)
            /\ DOMAIN (one \o c) = 1 .. Len(one) + Len(c)
            /\ \A k \in DOMAIN (one \o c) :
                  (one \o c)[k] = IF k <= Len(one) THEN one[k] ELSE c[k - Len(one)]
        BY <3>7, Concat
      <4>2. QED
        BY <3>1, <3>7, <4>1
    <3>2. /\ w \in BlockLists /\ Len(w) = n - i + 1
          /\ \A k \in 1 .. n - i + 1 : w[k] = IF k = 1 THEN b ELSE c[k - 1]
      <4>1. n - i + 1 = 1 + (n - i) /\ \A k \in 1 .. 1 + (n - i) : k <= 1 <=> k = 1
        BY <3>7
      <4>2. QED
        BY <3>7, <3>8, <4>1 DEF one, BlockLists
    <3>3. \A k \in 1 .. n - i + 1 : w[k] = s[k]
      <4> TAKE k \in 1 .. n - i + 1
      <4>1. CASE k = 1
        BY <1>1, <1>2, <3>1, <3>2, <4>1
      <4>2. CASE k # 1
        <5>1. k - 1 \in 1 .. n - i /\ i + (k - 1) = i + k - 1
          BY <1>1, <1>2, <4>2
        <5>2. QED
          BY <3>1, <3>2, <4>2, <5>1
      <4>3. QED
        BY <4>1, <4>2
    <3> HIDE DEF w
    <3>4. s \in BlockLists
      BY <2>2 DEF s
    <3>5. s = [k \in 1 .. Len(s) |-> s[k]] /\ w = [k \in 1 .. Len(w) |-> w[k]]
      BY <3>2, <3>4 DEF BlockLists
    <3>6. s = w
      <4>1. Len(s) = Len(w) /\ \A k \in 1 .. Len(s) : s[k] = w[k]
        BY <3>1, <3>2, <3>3
      <4>2. [k \in 1 .. Len(s) |-> s[k]] = [k \in 1 .. Len(w) |-> w[k]]
        BY <4>1
      <4>3. QED
        BY <3>5, <4>2
    <3>9. QED
      BY <3>6 DEF s, w
  <2>5. Weight(SubSeq(list, i, n)) = SizeOf(b) + Weight(c)
    BY <1>4, <2>3, <2>4, WeightJoin, WeightOne
  <2>6. Weight(r) = Weight(a) + Weight(c)
    BY <2>2, <2>3, WeightJoin DEF RemoveAt
  <2>7. Weight(a) \in Nat /\ Weight(c) \in Nat /\ SizeOf(b) \in Nat
    BY <1>4, <2>2, <2>3, SizesType, BlockSize
  <2> HIDE DEF a, c, r
  <2>8. QED
    BY <2>2, <2>5, <2>6, <2>7
<1> HIDE DEF r
<1>8. Weight(r) \in Nat /\ SizeOf(b) \in Nat
  BY <1>4, <1>5, SizesType, BlockSize
<1>9. QED
  BY <1>3, <1>4, <1>5, <1>6, <1>7, <1>8, FrontHolds

-----------------------------------------------------------------------------
\* The shards.
LEMMA ShardIs ==
    ASSUME ShardsHold, NEW s \in Shard
    PROVE  /\ lru[s] \in BlockLists /\ IsInjective(lru[s]) /\ Weight(lru[s]) <= ShardBudget
           /\ blockMap[s] = Contents(lru[s]) /\ DOMAIN blockMap[s] = ToSet(lru[s])
           /\ used[s] = Weight(lru[s]) /\ Len(lru[s]) \in Nat
           /\ \A b \in ToSet(lru[s]) : b \in Block /\ blockMap[s][b] = DataOf(b)
<1>1. lru[s] \in BlockLists /\ IsInjective(lru[s]) /\ Weight(lru[s]) <= ShardBudget
  BY DEF ShardsHold, GoodLists
<1>2. blockMap[s] = Contents(lru[s]) /\ used[s] = Weight(lru[s])
  BY DEF ShardsHold
<1>3. Len(lru[s]) \in Nat /\ \A b \in ToSet(lru[s]) : b \in Block
  BY <1>1 DEF BlockLists, ToSet
<1>4. QED
  BY <1>1, <1>2, <1>3 DEF Contents

LEMMA FreedIs ==
    ASSUME ShardsHold, NEW s \in Shard, NEW k \in 0 .. Len(lru[s])
    PROVE  Freed(s, k) = Weight(SubSeq(lru[s], k + 1, Len(lru[s])))
<1> DEFINE list == SubSeq(lru[s], k + 1, Len(lru[s]))
           m == blockMap[s]
<1>1. list \in BlockLists
  BY ShardIs, SplitAt
<1>2. \A i \in DOMAIN list : list[i] \in ToSet(lru[s])
  <2>1. lru[s] \in Seq(Block) /\ Len(lru[s]) \in Nat
    BY ShardIs DEF BlockLists
  <2>2. SUFFICES ASSUME NEW i \in DOMAIN list PROVE list[i] \in ToSet(lru[s])
    OBVIOUS
  <2>3. k + i \in DOMAIN lru[s] /\ list[i] = lru[s][k + i]
    <3> DEFINE all == lru[s]
               n == Len(all)
    <3>1. all \in Seq(Block) /\ n \in Nat /\ k \in 0 .. n /\ DOMAIN all = 1 .. n
      BY <2>1
    <3>3. DOMAIN list = 1 .. n - k /\ \A e \in 1 .. n - k : list[e] = all[k + e]
      <4>1. all \in BlockLists /\ k \in 0 .. Len(all)
        BY ShardIs
      <4>2. QED
        BY <4>1, BackIs, Zenon
    <3> HIDE DEF all, n, list
    <3>4. i \in 1 .. n - k /\ k + i \in 1 .. n
      BY <2>2, <3>1, <3>3
    <3>5. QED
      BY <3>1, <3>3, <3>4 DEF all
  <2>4. QED
    BY <2>3 DEF ToSet
<1>3. \A i \in DOMAIN list : m[list[i]] = DataOf(list[i])
  BY <1>2, ShardIs
<1>4. Freed(s, k) = Sum(m, list)
  BY Zenon DEF Freed, Sum
<1> HIDE DEF list, m
<1>5. Sum(m, list) = Weight(list)
  BY <1>1, <1>3, FoldWeight
<1>6. QED
  BY <1>4, <1>5 DEF list

\* A hit: the order of the list changes, and nothing else.
LEMMA BumpKeeps ==
    ASSUME ShardsHold, NEW b \in Block, IsCached(b),
           lru' = Bumped(ShardFor(b), b), UNCHANGED <<blockMap, used>>
    PROVE  ShardsHold'
<1> DEFINE s == ShardFor(b)
           new == <<b>> \o RemoveFirst(lru[s], b)
<1>1. s \in Shard
  BY BlockSize
<1>2. /\ lru[s] \in BlockLists /\ IsInjective(lru[s]) /\ Weight(lru[s]) <= ShardBudget
      /\ b \in ToSet(lru[s])
  BY <1>1, ShardIs DEF IsCached
<1>3. /\ new \in BlockLists /\ IsInjective(new) /\ ToSet(new) = ToSet(lru[s])
      /\ Weight(new) = Weight(lru[s])
  BY <1>2, BumpHolds
<1>4. lru' = [lru EXCEPT ![s] = new]
  BY DEF Bumped
<1> HIDE DEF s, new
<1>5. new \in GoodLists /\ Contents(new) = Contents(lru[s])
  BY <1>2, <1>3 DEF GoodLists, Contents
<1>6. lru' \in [Shard -> GoodLists]
  BY <1>1, <1>4, <1>5 DEF ShardsHold
<1>7. \A t \in Shard : Contents(lru'[t]) = Contents(lru[t]) /\ Weight(lru'[t]) = Weight(lru[t])
  BY <1>1, <1>3, <1>4, <1>5 DEF ShardsHold
<1>8. QED
  BY <1>6, <1>7 DEF ShardsHold

\* A miss: what does not fit with the new block goes from the back.
LEMMA KeptFits ==
    ASSUME ShardsHold, NEW b \in Block, NEW s \in Shard
    PROVE  /\ Kept(s, b) \in 0 .. Len(lru[s])
           /\ used[s] - Freed(s, Kept(s, b)) + SizeOf(b) <= ShardBudget
<1> DEFINE n == Len(lru[s])
           fits == {k \in 0 .. n : used[s] - Freed(s, k) + SizeOf(b) <= ShardBudget}
<1>1. n \in Nat /\ SizeOf(b) \in Nat /\ SizeOf(b) <= ShardBudget
  BY ShardIs, BlockSize, ShardAssumption, TableAssumption
<1>2. 0 \in fits
  <2>1. SubSeq(lru[s], 1, n) = lru[s]
    BY ShardIs DEF BlockLists
  <2>2. Freed(s, 0) = Weight(lru[s]) /\ used[s] = Weight(lru[s]) /\ Weight(lru[s]) \in Nat
    <3>1. lru[s] \in BlockLists /\ used[s] = Weight(lru[s])
      BY ShardIs
    <3>2. 0 \in 0 .. Len(lru[s]) /\ 0 + 1 = 1
      BY <1>1
    <3>3. Freed(s, 0) = Weight(SubSeq(lru[s], 0 + 1, Len(lru[s])))
      BY <3>2, FreedIs
    <3>4. QED
      BY <2>1, <3>1, <3>2, <3>3, SizesType
  <2>3. QED
    BY <1>1, <2>2
<1>3. Max(fits) \in fits
  <2> HIDE DEF n
  <2> DEFINE mirror == {n - k : k \in fits}
  <2>1. mirror # {} /\ mirror \in SUBSET Nat
    BY <1>1, <1>2
  <2>2. Min(mirror) \in mirror /\ \A k \in mirror : Min(mirror) <= k
    BY <2>1, SmallestExists
  <2>3. PICK x \in fits : Min(mirror) = n - x
    BY <2>2
  <2>4. \A y \in fits : n - x <= n - y
    BY <2>2, <2>3
  <2>5. fits \subseteq 0 .. n
    OBVIOUS
  <2> HIDE DEF fits, mirror
  <2>6. \A y \in fits : x >= y
    BY <1>1, <2>3, <2>4, <2>5
  <2>7. QED
    BY <2>3, <2>6 DEF Max
<1>4. Kept(s, b) = Max(fits)
  BY <1>2 DEF Kept, SizeOf
<1>5. QED
  BY <1>3, <1>4

LEMMA InsertKeeps ==
    ASSUME ShardsHold, NEW b \in Block, ~IsCached(b), NEW s, s = ShardFor(b),
           NEW list, list = SubSeq(lru[s], 1, Kept(s, b)),
           lru' = [lru EXCEPT ![s] = <<b>> \o list],
           blockMap' = [blockMap EXCEPT ![s] = [x \in ToSet(list) \union {b} |->
                                                   IF x = b THEN DataOf(b) ELSE @[x]]],
           used' = [used EXCEPT ![s] = @ - Freed(s, Kept(s, b)) + Len(DataOf(b))]
    PROVE  ShardsHold' /\ b \in DOMAIN blockMap'[s]
<1> DEFINE new == <<b>> \o list
           k == Kept(s, b)
           rest == SubSeq(lru[s], k + 1, Len(lru[s]))
<1>1. s \in Shard
  BY BlockSize
<1>2. /\ lru[s] \in BlockLists /\ IsInjective(lru[s]) /\ b \notin ToSet(lru[s])
      /\ used[s] = Weight(lru[s])
      /\ \A x \in ToSet(lru[s]) : blockMap[s][x] = DataOf(x)
  BY <1>1, ShardIs DEF IsCached
<1>3. k \in 0 .. Len(lru[s]) /\ used[s] - Freed(s, k) + SizeOf(b) <= ShardBudget
  BY <1>1, KeptFits
<1>4. /\ list \in BlockLists /\ rest \in BlockLists
      /\ Weight(lru[s]) = Weight(list) + Weight(rest)
      /\ IsInjective(list) /\ ToSet(list) \subseteq ToSet(lru[s])
  <2> HIDE DEF k
  <2>1. list = SubSeq(lru[s], 1, k)
    BY DEF k
  <2>2. list \in BlockLists /\ rest \in BlockLists /\ Weight(lru[s]) = Weight(list) + Weight(rest)
    <3> DEFINE all == lru[s]
    <3>1. k \in 0 .. Len(all) /\ all \in BlockLists
      BY <1>2, <1>3
    <3> HIDE DEF all
    <3>2. /\ SubSeq(all, 1, k) \in BlockLists /\ SubSeq(all, k + 1, Len(all)) \in BlockLists
          /\ Weight(all) = Weight(SubSeq(all, 1, k)) + Weight(SubSeq(all, k + 1, Len(all)))
      BY <3>1, SplitAt
    <3>3. QED
      BY <2>1, <3>2 DEF all
  <2>3. IsInjective(list) /\ ToSet(list) \subseteq ToSet(lru[s])
    BY <1>2, <1>3, <2>1, CutHolds
  <2>4. QED
    BY <2>2, <2>3
<1>5. Freed(s, k) = Weight(rest)
  <2> HIDE DEF k
  <2>1. QED
    BY <1>1, <1>3, FreedIs
<1>6. /\ new \in BlockLists /\ IsInjective(new) /\ ToSet(new) = ToSet(list) \union {b}
      /\ Weight(new) = SizeOf(b) + Weight(list)
  BY <1>2, <1>4, FrontHolds
<1>7. Weight(list) \in Nat /\ Weight(rest) \in Nat /\ SizeOf(b) \in Nat
  BY <1>4, BlockSize, SizesType
<1>8. used[s] - Freed(s, k) + Len(DataOf(b)) = Weight(new)
  <2>1. Len(DataOf(b)) = SizeOf(b)
    BY DEF SizeOf
  <2> HIDE DEF new, rest, k
  <2>2. QED
    BY <1>2, <1>4, <1>5, <1>6, <1>7, <2>1
<1>9. Weight(new) <= ShardBudget
  BY <1>3, <1>8 DEF SizeOf
<1>10. [x \in ToSet(list) \union {b} |-> IF x = b THEN DataOf(b) ELSE blockMap[s][x]] = Contents(new)
  <2> HIDE DEF new
  <2>1. \A x \in ToSet(list) \union {b} :
           (IF x = b THEN DataOf(b) ELSE blockMap[s][x]) = DataOf(x)
    BY <1>2, <1>4
  <2>2. QED
    BY <1>6, <2>1 DEF Contents
<1>11. /\ lru' = [lru EXCEPT ![s] = new]
       /\ blockMap' = [blockMap EXCEPT ![s] = Contents(new)]
       /\ used' = [used EXCEPT ![s] = Weight(new)]
  <2>1. lru' = [lru EXCEPT ![s] = new]
    OBVIOUS
  <2>2. blockMap' = [blockMap EXCEPT ![s] = Contents(new)]
    <3> HIDE DEF new
    <3>1. QED
      BY <1>10
  <2>3. used' = [used EXCEPT ![s] = Weight(new)]
    <3> HIDE DEF new
    <3>1. QED
      BY <1>8
  <2>4. QED
    BY <2>1, <2>2, <2>3
<1> HIDE DEF new
<1>12. new \in GoodLists
  BY <1>6, <1>9 DEF GoodLists
<1>13. ShardsHold'
  <2>1. lru' \in [Shard -> GoodLists]
    BY <1>1, <1>11, <1>12 DEF ShardsHold
  <2>2. /\ lru = [t \in Shard |-> lru[t]]
        /\ lru' = [t \in Shard |-> IF t = s THEN new ELSE lru[t]]
    BY <1>1, <1>11 DEF ShardsHold
  <2>3. blockMap' = [t \in Shard |-> Contents(lru'[t])]
    BY <1>1, <1>11, <2>2 DEF ShardsHold
  <2>4. used' = [t \in Shard |-> Weight(lru'[t])]
    BY <1>1, <1>11, <2>2 DEF ShardsHold
  <2>5. QED
    BY <2>1, <2>3, <2>4 DEF ShardsHold
<1>14. b \in DOMAIN blockMap'[s]
  <2>1. blockMap'[s] = Contents(new)
    BY <1>1, <1>11 DEF ShardsHold
  <2>2. QED
    BY <1>6, <2>1 DEF Contents
<1>15. QED
  BY <1>13, <1>14

-----------------------------------------------------------------------------
\* The fetches: what one of them does leaves the others as they were.
LEMMA OneFetch ==
    ASSUME PleInv, NEW p \in Callers, NEW f \in GoodFetches, fetch' = [fetch EXCEPT ![p] = f],
           \/ fetch[p].at \in Flying /\ f.at \in Flying /\ flight' = flight
           \/ fetch[p].at \in Flying /\ f.at \notin Flying /\ flight' = NoCaller
           \/ flight = NoCaller /\ f.at \in Flying /\ flight' = p
           \/ fetch[p].at \notin Flying /\ f.at \notin Flying /\ flight' = flight,
           ShardsHold',
           f.at = "gather" => IsCached(Head(f.blocks))',
           fetch[p].at \in Flying \/ blockMap' = blockMap
    PROVE  PleInv'
<1>1. fetch' \in [Callers -> GoodFetches]
  BY DEF PleInv
<1>2. fetch'[p] = f /\ \A q \in Callers : q # p => fetch'[q] = fetch[q]
  BY DEF PleInv
<1>3. Alone'
  <2>1. \A q \in Callers : q # NoCaller
    BY FetchAssumption
  <2>2. (fetch'[p].at \in Flying) <=> (flight' = p)
    BY <1>2, <2>1 DEF PleInv, Alone
  <2>3. ASSUME NEW q \in Callers, q # p PROVE (fetch'[q].at \in Flying) <=> (flight' = q)
    BY <1>2, <2>1, <2>3 DEF PleInv, Alone
  <2>4. QED
    BY <2>2, <2>3 DEF Alone
<1>4. Gathers'
  <2>1. ASSUME NEW q \in Callers, fetch'[q].at = "gather" PROVE IsCached(Head(fetch[q].blocks))'
    <3>1. CASE q = p
      BY <1>2, <2>1, <3>1
    <3>2. CASE q # p
      <4>1. fetch'[q] = fetch[q] /\ fetch[q].at \in Flying /\ flight = q
        BY <1>2, <2>1, <3>2 DEF PleInv, Alone, Flying
      <4>2. fetch[p].at \notin Flying
        BY <3>2, <4>1 DEF PleInv, Alone
      <4>3. blockMap' = blockMap
        BY <4>2
      <4>4. IsCached(Head(fetch[q].blocks))
        BY <2>1, <4>1 DEF PleInv, Gathers
      <4>5. QED
        BY <4>1, <4>3, <4>4 DEF IsCached
    <3>3. QED
      BY <3>1, <3>2
  <2>2. QED
    BY <2>1 DEF Gathers
<1>5. QED
  BY <1>1, <1>3, <1>4 DEF PleInv

\* A fetch, field by field.
LEMMA FetchIs ==
    ASSUME fetch \in [Callers -> GoodFetches], NEW p \in Callers
    PROVE  /\ fetch[p] \in GoodFetches /\ fetch[p] \in Fetches
           /\ fetch[p] = [at |-> fetch[p].at, rows |-> fetch[p].rows, blocks |-> fetch[p].blocks,
                          missing |-> fetch[p].missing, dst |-> fetch[p].dst]
           /\ fetch[p].rows \in RowLists /\ fetch[p].blocks \in BlockLists
           /\ fetch[p].missing \in BlockLists /\ fetch[p].dst \in Seq(Int)
<1>1. fetch[p] \in GoodFetches /\ fetch[p] \in Fetches
  BY DEF GoodFetches
<1> DEFINE f == fetch[p]
<1> HIDE DEF f
<1>2. f \in Fetches
  BY <1>1 DEF f
<1>3. /\ f = [at |-> f.at, rows |-> f.rows, blocks |-> f.blocks, missing |-> f.missing, dst |-> f.dst]
      /\ f.rows \in RowLists /\ f.blocks \in BlockLists /\ f.missing \in BlockLists /\ f.dst \in Seq(Int)
  BY <1>2 DEF Fetches
<1>4. QED
  BY <1>1, <1>3 DEF f

\* The fetch of a caller, after some of its fields have changed.
Set(p, at, blocks, missing, dst) ==
    [fetch EXCEPT ![p] = [at |-> at, rows |-> fetch[p].rows, blocks |-> blocks,
                          missing |-> missing, dst |-> dst]]

LEMMA AtSet ==
    ASSUME fetch \in [Callers -> GoodFetches], NEW p \in Callers, NEW x
    PROVE  [fetch EXCEPT ![p].at = x]
               = Set(p, x, fetch[p].blocks, fetch[p].missing, fetch[p].dst)
<1> DEFINE r == fetch[p]
           e == [r EXCEPT !.at = x]
           a == r.at
           ro == r.rows
           bl == r.blocks
           mi == r.missing
           ds == r.dst
           R == [at : {a, x}, rows : {ro}, blocks : {bl}, missing : {mi}, dst : {ds}]
<1>1. r = [at |-> a, rows |-> ro, blocks |-> bl, missing |-> mi, dst |-> ds]
  BY FetchIs
<1>2. [fetch EXCEPT ![p].at = x] = [fetch EXCEPT ![p] = e]
  OBVIOUS
<1> HIDE DEF a, ro, bl, mi, ds, r
<1>3. e \in R /\ e.at = x /\ e.rows = ro /\ e.blocks = bl /\ e.missing = mi /\ e.dst = ds
  BY <1>1
<1> HIDE DEF e
<1>4. e = [at |-> e.at, rows |-> e.rows, blocks |-> e.blocks, missing |-> e.missing, dst |-> e.dst]
  BY <1>3
<1> HIDE DEF R
<1>5. QED
  BY <1>2, <1>3, <1>4 DEF Set, r, a, ro, bl, mi, ds

LEMMA AtBlocksSet ==
    ASSUME fetch \in [Callers -> GoodFetches], NEW p \in Callers, NEW x, NEW y
    PROVE  [fetch EXCEPT ![p].at = x, ![p].blocks = y]
               = Set(p, x, y, fetch[p].missing, fetch[p].dst)
<1> DEFINE r == fetch[p]
           e == [r EXCEPT !.at = x, !.blocks = y]
           a == r.at
           ro == r.rows
           bl == r.blocks
           mi == r.missing
           ds == r.dst
           R == [at : {a, x}, rows : {ro}, blocks : {bl, y}, missing : {mi}, dst : {ds}]
<1>1. r = [at |-> a, rows |-> ro, blocks |-> bl, missing |-> mi, dst |-> ds]
  BY FetchIs
<1>2. [fetch EXCEPT ![p].at = x, ![p].blocks = y] = [fetch EXCEPT ![p] = e]
  OBVIOUS
<1> HIDE DEF a, ro, bl, mi, ds, r
<1>3. e \in R /\ e.at = x /\ e.rows = ro /\ e.blocks = y /\ e.missing = mi /\ e.dst = ds
  BY <1>1
<1> HIDE DEF e
<1>4. e = [at |-> e.at, rows |-> e.rows, blocks |-> e.blocks, missing |-> e.missing, dst |-> e.dst]
  BY <1>3
<1> HIDE DEF R
<1>5. QED
  BY <1>2, <1>3, <1>4 DEF Set, r, a, ro, bl, mi, ds

LEMMA BlocksMissingSet ==
    ASSUME fetch \in [Callers -> GoodFetches], NEW p \in Callers, NEW y, NEW z
    PROVE  [fetch EXCEPT ![p].blocks = y, ![p].missing = z]
               = Set(p, fetch[p].at, y, z, fetch[p].dst)
<1> DEFINE r == fetch[p]
           e == [r EXCEPT !.blocks = y, !.missing = z]
           a == r.at
           ro == r.rows
           bl == r.blocks
           mi == r.missing
           ds == r.dst
           R == [at : {a}, rows : {ro}, blocks : {bl, y}, missing : {mi, z}, dst : {ds}]
<1>1. r = [at |-> a, rows |-> ro, blocks |-> bl, missing |-> mi, dst |-> ds]
  BY FetchIs
<1>2. [fetch EXCEPT ![p].blocks = y, ![p].missing = z] = [fetch EXCEPT ![p] = e]
  OBVIOUS
<1> HIDE DEF a, ro, bl, mi, ds, r
<1>3. e \in R /\ e.at = a /\ e.rows = ro /\ e.blocks = y /\ e.missing = z /\ e.dst = ds
  BY <1>1
<1> HIDE DEF e
<1>4. e = [at |-> e.at, rows |-> e.rows, blocks |-> e.blocks, missing |-> e.missing, dst |-> e.dst]
  BY <1>3
<1> HIDE DEF R
<1>5. QED
  BY <1>2, <1>3, <1>4 DEF Set, r, a, ro, bl, mi, ds

LEMMA AtMissingBlocksSet ==
    ASSUME fetch \in [Callers -> GoodFetches], NEW p \in Callers, NEW x, NEW y, NEW z
    PROVE  [fetch EXCEPT ![p].at = x, ![p].missing = z, ![p].blocks = y]
               = Set(p, x, y, z, fetch[p].dst)
<1> DEFINE r == fetch[p]
           e == [r EXCEPT !.at = x, !.missing = z, !.blocks = y]
           a == r.at
           ro == r.rows
           bl == r.blocks
           mi == r.missing
           ds == r.dst
           R == [at : {a, x}, rows : {ro}, blocks : {bl, y}, missing : {mi, z}, dst : {ds}]
<1>1. r = [at |-> a, rows |-> ro, blocks |-> bl, missing |-> mi, dst |-> ds]
  BY FetchIs
<1>2. [fetch EXCEPT ![p].at = x, ![p].missing = z, ![p].blocks = y] = [fetch EXCEPT ![p] = e]
  OBVIOUS
<1> HIDE DEF a, ro, bl, mi, ds, r
<1>3. e \in R /\ e.at = x /\ e.rows = ro /\ e.blocks = y /\ e.missing = z /\ e.dst = ds
  BY <1>1
<1> HIDE DEF e
<1>4. e = [at |-> e.at, rows |-> e.rows, blocks |-> e.blocks, missing |-> e.missing, dst |-> e.dst]
  BY <1>3
<1> HIDE DEF R
<1>5. QED
  BY <1>2, <1>3, <1>4 DEF Set, r, a, ro, bl, mi, ds

LEMMA TailOf ==
    ASSUME NEW list \in BlockLists, list # <<>>
    PROVE  /\ Head(list) \in Block /\ Tail(list) \in BlockLists
           /\ ToSet(list) = ToSet(Tail(list)) \union {Head(list)}
<1>1. /\ Head(list) \in Block /\ Tail(list) \in BlockLists /\ Len(list) \in Nat \ {0}
      /\ DOMAIN list = 1 .. Len(list) /\ DOMAIN Tail(list) = 1 .. Len(list) - 1
      /\ Head(list) = list[1] /\ \A i \in 1 .. Len(list) - 1 : Tail(list)[i] = list[i + 1]
  BY DEF BlockLists
<1>2. \A i \in DOMAIN Tail(list) : i + 1 \in DOMAIN list /\ Tail(list)[i] = list[i + 1]
  BY <1>1
<1>3. \A i \in DOMAIN list : i # 1 => i - 1 \in DOMAIN Tail(list) /\ Tail(list)[i - 1] = list[i]
  BY <1>1
<1>4. 1 \in DOMAIN list
  BY <1>1
<1>5. ASSUME NEW x \in ToSet(list) PROVE x \in ToSet(Tail(list)) \union {Head(list)}
  <2>1. PICK i \in DOMAIN list : x = list[i]
    BY DEF ToSet
  <2>2. CASE i = 1
    BY <1>1, <2>1, <2>2
  <2>3. CASE i # 1
    BY <1>3, <2>1, <2>3 DEF ToSet
  <2>4. QED
    BY <2>2, <2>3
<1>6. \A x \in ToSet(Tail(list)) : x \in ToSet(list)
  BY <1>2 DEF ToSet
<1>7. Head(list) \in ToSet(list)
  BY <1>1, <1>4 DEF ToSet
<1>8. QED
  BY <1>1, <1>5, <1>6, <1>7

LEMMA NothingLeft ==
    ASSUME NEW a \in BlockLists, NEW b \in BlockLists
    PROVE  a \o b = <<>> <=> a = <<>> /\ b = <<>>
<1>1. Len(a \o b) = Len(a) + Len(b) /\ Len(a) \in Nat /\ Len(b) \in Nat
  BY Concat DEF BlockLists
<1>2. \A c \in Seq(Block) : c = <<>> <=> Len(c) = 0
  OBVIOUS
<1>3. a \o b \in Seq(Block)
  BY Concat DEF BlockLists
<1>4. QED
  BY <1>1, <1>2, <1>3 DEF BlockLists

LEMMA PleInitial == PleInit => PleInv
<1> SUFFICES ASSUME PleInit PROVE PleInv
  OBVIOUS
<1>1. <<>> \in GoodLists /\ Contents(<<>>) = <<>> /\ Weight(<<>>) = 0
  <2>1. <<>> \in BlockLists /\ Weight(<<>>) = 0
    BY WeightOne
  <2>2. IsInjective(<<>>) /\ ToSet(<<>>) = {}
    BY DEF IsInjective, ToSet
  <2>3. ShardBudget \in Nat
    BY ShardAssumption
  <2>4. Contents(<<>>) = <<>>
    BY <2>2 DEF Contents
  <2>5. QED
    BY <2>1, <2>2, <2>3, <2>4 DEF GoodLists
<1>2. ShardsHold
  BY <1>1 DEF PleInit, ShardsHold
<1>3. NoFetch \in GoodFetches
  <2>1. NoFetch \in Fetches
    BY DEF NoFetch, Fetches, RowLists, BlockLists
  <2>2. QED
    BY <2>1 DEF NoFetch, GoodFetches
<1>4. fetch \in [Callers -> GoodFetches] /\ \A p \in Callers : fetch[p].at = "idle"
  BY <1>3 DEF PleInit, NoFetch
<1>5. Alone /\ Gathers
  BY <1>4, FetchAssumption DEF PleInit, Alone, Gathers, Flying
<1>6. QED
  BY <1>2, <1>4, <1>5 DEF PleInv

LEMMA BeginFetchKeeps ==
    ASSUME PleInv, NEW p \in Callers, NEW rows \in Wanted, BeginFetch(p, rows)
    PROVE  PleInv'
<1> DEFINE f == [at |-> "lock", rows |-> rows, blocks |-> <<>>, missing |-> <<>>,
                 dst |-> [i \in DOMAIN rows |-> -1]]
<1>1. fetch' = [fetch EXCEPT ![p] = f]
  <2> DEFINE e == [i \in DOMAIN rows |-> -1]
  <2>1. fetch' = [fetch EXCEPT ![p] = [NoFetch EXCEPT !.at = "lock", !.rows = rows, !.dst = e]]
    BY DEF BeginFetch
  <2> HIDE DEF e
  <2>2. [NoFetch EXCEPT !.at = "lock", !.rows = rows, !.dst = e]
            = [at |-> "lock", rows |-> rows, blocks |-> <<>>, missing |-> <<>>, dst |-> e]
    <3> DEFINE g == [NoFetch EXCEPT !.at = "lock", !.rows = rows, !.dst = e]
               R == [at : {"idle", "lock"}, rows : {<<>>, rows}, blocks : {<<>>},
                     missing : {<<>>}, dst : {<<>>, e}]
    <3>1. /\ g \in R /\ g.at = "lock" /\ g.rows = rows /\ g.blocks = <<>>
          /\ g.missing = <<>> /\ g.dst = e
      BY DEF NoFetch
    <3> HIDE DEF g
    <3>2. g = [at |-> g.at, rows |-> g.rows, blocks |-> g.blocks, missing |-> g.missing,
               dst |-> g.dst]
      BY <3>1
    <3>3. QED
      BY <3>1, <3>2 DEF g
  <2>3. QED
    BY <2>1, <2>2 DEF e
<1>2. f \in GoodFetches
  <2>1. rows \in Seq(Int) /\ \A i \in DOMAIN rows : rows[i] \in Row
    BY FetchAssumption DEF BeginFetch, Row
  <2>2. rows \in RowLists
    BY <2>1 DEF RowLists
  <2>3. [i \in DOMAIN rows |-> -1] \in Seq(Int)
    BY <2>1
  <2>4. <<>> \in BlockLists
    BY DEF BlockLists
  <2>5. f \in Fetches
    BY <2>2, <2>3, <2>4 DEF Fetches
  <2>6. QED
    BY <2>5 DEF GoodFetches
<1>3. fetch[p].at \notin Flying /\ f.at \notin Flying /\ f.at # "gather"
  BY DEF BeginFetch, Flying
<1>4. flight' = flight /\ blockMap' = blockMap /\ ShardsHold'
  BY DEF BeginFetch, Cache, PleInv, ShardsHold
<1> HIDE DEF f
<1>5. QED
  BY <1>1, <1>2, <1>3, <1>4, OneFetch

LEMMA LockFetchKeeps ==
    ASSUME PleInv, NEW p \in Callers, LockFetch(p)
    PROVE  PleInv'
<1> DEFINE D == Distinct(fetch[p].rows)
           f == [at |-> "classify", rows |-> fetch[p].rows, blocks |-> D,
                 missing |-> fetch[p].missing, dst |-> fetch[p].dst]
<1>0. fetch \in [Callers -> GoodFetches]
  BY DEF PleInv
<1>1. fetch' = [fetch EXCEPT ![p] = f]
  <2>1. fetch' = [fetch EXCEPT ![p].at = "classify", ![p].blocks = D]
    BY DEF LockFetch
  <2> HIDE DEF D
  <2>2. QED
    <3>1. fetch' = Set(p, "classify", D, fetch[p].missing, fetch[p].dst)
      BY <1>0, <2>1, AtBlocksSet
    <3>2. QED
      BY <3>1 DEF Set
<1>2. f \in GoodFetches
  <2>1. D \in BlockLists
    BY <1>0, FetchIs, DistinctCovers
  <2> HIDE DEF D
  <2>2. f \in Fetches
    BY <1>0, <2>1, FetchIs DEF Fetches, Flying
  <2>3. DOMAIN fetch[p].dst = DOMAIN fetch[p].rows
    BY <1>0, FetchIs DEF GoodFetches, LockFetch
  <2>4. QED
    BY <2>2, <2>3 DEF GoodFetches
<1>3. f.at \in Flying /\ f.at # "gather" /\ flight = NoCaller /\ flight' = p
  BY DEF LockFetch, Flying
<1>4. blockMap' = blockMap /\ ShardsHold'
  BY DEF LockFetch, Cache, PleInv, ShardsHold
<1> HIDE DEF f
<1>5. QED
  BY <1>1, <1>2, <1>3, <1>4, OneFetch

\* A fetch whose fields have changed, as long as it stays a good one.
Fits(p, x, blocks, missing, dst) ==
    /\ blocks \in BlockLists /\ missing \in BlockLists /\ dst \in Seq(Int)
    /\ x \in {"done"} \union Flying /\ DOMAIN dst = DOMAIN fetch[p].rows
    /\ x # "classify" =>
          \A i \in DOMAIN fetch[p].rows :
              dst[i] = fetch[p].rows[i] \/ BlockOf(fetch[p].rows[i]) \in ToSet(blocks)
    /\ x = "gather" => missing = <<>> /\ blocks # <<>>
    /\ x = "read" => missing # <<>> \/ blocks # <<>>
    /\ x = "done" => blocks = <<>>
Becomes(new, p, x, blocks) ==
    \E f \in GoodFetches : new = [fetch EXCEPT ![p] = f] /\ f.at = x /\ f.blocks = blocks

LEMMA SetIs ==
    ASSUME fetch \in [Callers -> GoodFetches], NEW p \in Callers,
           NEW x, NEW blocks, NEW missing, NEW dst, Fits(p, x, blocks, missing, dst)
    PROVE  Becomes(Set(p, x, blocks, missing, dst), p, x, blocks)
<1> DEFINE ro == fetch[p].rows
           f == [at |-> x, rows |-> ro, blocks |-> blocks, missing |-> missing, dst |-> dst]
<1>1. ro \in RowLists
  BY FetchIs
<1>2. Set(p, x, blocks, missing, dst) = [fetch EXCEPT ![p] = f]
  BY DEF Set
<1> HIDE DEF ro
<1>3. f \in Fetches
  BY <1>1 DEF Fetches, Fits
<1>4. /\ f.at = x /\ f.rows = ro /\ f.blocks = blocks /\ f.missing = missing /\ f.dst = dst
  OBVIOUS
<1>5. f.at \in {"prefetch", "read", "gather", "done"} => HasRows(f)
  <2> HIDE DEF f
  <2>1. QED
    BY <1>4 DEF HasRows, ro, Fits
<1>6. f \in GoodFetches
  <2> HIDE DEF f
  <2>1. QED
    BY <1>3, <1>4, <1>5 DEF GoodFetches, ro, Fits
<1>7. QED
  BY <1>2, <1>4, <1>6 DEF Becomes

LEMMA FlyingIs ==
    ASSUME PleInv, NEW p \in Callers, fetch[p].at \in Flying
    PROVE  /\ DOMAIN fetch[p].dst = DOMAIN fetch[p].rows
           /\ fetch[p].at # "classify" => HasRows(fetch[p])
           /\ fetch[p].at = "gather" =>
                 fetch[p].missing = <<>> /\ fetch[p].blocks # <<>> /\ IsCached(Head(fetch[p].blocks))
           /\ fetch[p].at = "read" => fetch[p].missing # <<>> \/ fetch[p].blocks # <<>>
<1>1. fetch[p] \in GoodFetches
  BY FetchIs DEF PleInv
<1>2. fetch[p].at # "idle" /\ (fetch[p].at # "classify" => fetch[p].at \in {"prefetch", "read", "gather", "done"})
  BY DEF Flying
<1>3. QED
  BY <1>1, <1>2 DEF GoodFetches, PleInv, Gathers

LEMMA ClassifyKeeps ==
    ASSUME PleInv, NEW p \in Callers, Classify(p)
    PROVE  PleInv'
<1> DEFINE b == Head(fetch[p].blocks)
           y == Tail(fetch[p].blocks)
           z == IF IsCached(b) THEN fetch[p].missing ELSE Append(fetch[p].missing, b)
<1>0. fetch \in [Callers -> GoodFetches] /\ fetch[p].at = "classify" /\ fetch[p].at \in Flying
  BY DEF PleInv, Classify, Flying
<1>1. b \in Block /\ y \in BlockLists
  BY <1>0, FetchIs, TailOf DEF Classify
<1>2. z \in BlockLists
  <2>1. fetch[p].missing \in Seq(Block)
    BY <1>0, FetchIs DEF BlockLists
  <2> HIDE DEF b
  <2>2. Append(fetch[p].missing, b) \in Seq(Block)
    BY <1>1, <2>1
  <2>3. QED
    BY <2>1, <2>2 DEF BlockLists
<1>3. fetch' = [fetch EXCEPT ![p].blocks = y, ![p].missing = z]
  BY <1>0 DEF Classify
<1>4. ShardsHold'
  <2>1. CASE IsCached(b)
    <3>1. lru' = Bumped(ShardFor(b), b) /\ UNCHANGED <<blockMap, used>>
      BY <2>1 DEF Classify
    <3> HIDE DEF b
    <3>2. QED
      BY <1>1, <2>1, <3>1, BumpKeeps DEF PleInv
  <2>2. CASE ~IsCached(b)
    BY <2>2 DEF Classify, PleInv, ShardsHold
  <2>3. QED
    BY <2>1, <2>2
<1> HIDE DEF b, y, z
<1>5. fetch' = Set(p, "classify", y, z, fetch[p].dst)
  <2>1. [fetch EXCEPT ![p].blocks = y, ![p].missing = z] = Set(p, fetch[p].at, y, z, fetch[p].dst)
    BY <1>0, BlocksMissingSet
  <2>2. QED
    BY <1>0, <1>3, <2>1
<1>6. PICK f \in GoodFetches : fetch' = [fetch EXCEPT ![p] = f] /\ f.at = "classify"
  <2>1. Fits(p, "classify", y, z, fetch[p].dst)
    BY <1>0, <1>1, <1>2, FetchIs, FlyingIs DEF Flying, Fits
  <2>2. QED
    BY <1>0, <1>5, <2>1, SetIs DEF Becomes
<1>7. flight' = flight /\ blockMap' = blockMap
  BY DEF Classify
<1>8. f.at \in Flying /\ f.at # "gather"
  BY <1>6 DEF Flying
<1>9. QED
  BY <1>0, <1>4, <1>6, <1>7, <1>8, OneFetch

LEMMA ClassifiedKeeps ==
    ASSUME PleInv, NEW p \in Callers, Classified(p)
    PROVE  PleInv'
<1> DEFINE y == Distinct(fetch[p].rows)
           z == InFileOrder(ToSet(fetch[p].missing))
<1>0. fetch \in [Callers -> GoodFetches] /\ fetch[p].at \in Flying
  BY DEF PleInv, Classified, Flying
<1>1. /\ y \in BlockLists /\ z \in BlockLists
      /\ \A i \in DOMAIN fetch[p].rows : BlockOf(fetch[p].rows[i]) \in ToSet(y)
  BY <1>0, FetchIs, DistinctCovers, MissingInOrder
<1>2. fetch' = [fetch EXCEPT ![p].at = "prefetch", ![p].missing = z, ![p].blocks = y]
  BY <1>0 DEF Classified
<1> HIDE DEF y, z
<1>3. fetch' = Set(p, "prefetch", y, z, fetch[p].dst)
  <2>1. [fetch EXCEPT ![p].at = "prefetch", ![p].missing = z, ![p].blocks = y]
            = Set(p, "prefetch", y, z, fetch[p].dst)
    BY <1>0, AtMissingBlocksSet
  <2>2. QED
    BY <1>2, <2>1
<1>4. PICK f \in GoodFetches : fetch' = [fetch EXCEPT ![p] = f] /\ f.at = "prefetch"
  <2>1. Fits(p, "prefetch", y, z, fetch[p].dst)
    BY <1>0, <1>1, FetchIs, FlyingIs DEF Flying, Fits
  <2>2. QED
    BY <1>0, <1>3, <2>1, SetIs DEF Becomes
<1>5. flight' = flight /\ blockMap' = blockMap /\ ShardsHold'
  BY DEF Classified, Cache, PleInv, ShardsHold
<1>6. f.at \in Flying /\ f.at # "gather"
  BY <1>4 DEF Flying
<1>7. QED
  BY <1>0, <1>4, <1>5, <1>6, OneFetch

\* What ensure_cached looks for, and where the fetch is once it has it.
LEMMA NeededIs ==
    ASSUME PleInv, NEW p \in Callers, fetch[p].at \in {"prefetch", "read"},
           fetch[p].missing # <<>> \/ fetch[p].blocks # <<>>
    PROVE  /\ Needed(p) \in Block
           /\ \E f \in GoodFetches :
                 /\ [fetch EXCEPT ![p] = Ensured(p)] = [fetch EXCEPT ![p] = f]
                 /\ f.at \in {"prefetch", "gather"}
                 /\ f.at = "gather" => Head(f.blocks) = Needed(p)
<1> DEFINE r == fetch[p]
<1>1. /\ fetch \in [Callers -> GoodFetches] /\ fetch[p].at \in Flying
      /\ r.blocks \in BlockLists /\ r.missing \in BlockLists /\ r.dst \in Seq(Int)
  BY FetchIs DEF PleInv, Flying
<1>2. /\ DOMAIN r.dst = DOMAIN r.rows
      /\ \A i \in DOMAIN r.rows : r.dst[i] = r.rows[i] \/ BlockOf(r.rows[i]) \in ToSet(r.blocks)
  BY <1>1, FlyingIs DEF HasRows
<1>3. CASE r.missing # <<>>
  <2> DEFINE z == Tail(r.missing)
  <2>1. Needed(p) \in Block /\ z \in BlockLists
    BY <1>1, <1>3, TailOf DEF Needed
  <2> HIDE DEF z
  <2>2. [fetch EXCEPT ![p] = Ensured(p)] = Set(p, "prefetch", r.blocks, z, r.dst)
    <3>1. Ensured(p) = [r EXCEPT !.at = "prefetch", !.missing = z]
      BY <1>3 DEF Ensured, z
    <3> DEFINE e == [r EXCEPT !.at = "prefetch", !.missing = z]
    <3>2. /\ e \in Fetches /\ e.at = "prefetch" /\ e.rows = r.rows /\ e.blocks = r.blocks
          /\ e.missing = z /\ e.dst = r.dst
      <4>1. r \in Fetches
        BY <1>1, FetchIs
      <4> HIDE DEF r
      <4>2. QED
        BY <2>1, <4>1 DEF Fetches, Flying
    <3> HIDE DEF e
    <3>3. e = [at |-> e.at, rows |-> e.rows, blocks |-> e.blocks, missing |-> e.missing, dst |-> e.dst]
      BY <3>2 DEF Fetches
    <3>4. QED
      BY <3>1, <3>2, <3>3 DEF Set, e
  <2>3. Fits(p, "prefetch", r.blocks, z, r.dst)
    BY <1>1, <1>2, <2>1 DEF Flying, Fits
  <2>5. Becomes(Set(p, "prefetch", r.blocks, z, r.dst), p, "prefetch", r.blocks)
    BY <1>1, <2>3, SetIs
  <2>4. QED
    BY <2>1, <2>2, <2>5 DEF Becomes
<1>4. CASE r.missing = <<>>
  <2>1. r.blocks # <<>>
    BY <1>4
  <2>2. Needed(p) \in Block /\ Needed(p) = Head(r.blocks)
    BY <1>1, <1>4, <2>1, TailOf DEF Needed
  <2>3. [fetch EXCEPT ![p] = Ensured(p)] = Set(p, "gather", r.blocks, r.missing, r.dst)
    <3>1. Ensured(p) = [r EXCEPT !.at = "gather"]
      BY <1>4 DEF Ensured
    <3>2. [fetch EXCEPT ![p].at = "gather"] = [fetch EXCEPT ![p] = [r EXCEPT !.at = "gather"]]
      BY <1>1
    <3> HIDE DEF r
    <3>3. [fetch EXCEPT ![p].at = "gather"] = Set(p, "gather", r.blocks, r.missing, r.dst)
      BY <1>1, AtSet DEF r
    <3>4. QED
      BY <3>1, <3>2, <3>3
  <2>4. Fits(p, "gather", r.blocks, r.missing, r.dst)
    BY <1>1, <1>2, <1>4, <2>1 DEF Flying, Fits
  <2>6. Becomes(Set(p, "gather", r.blocks, r.missing, r.dst), p, "gather", r.blocks)
    BY <1>1, <2>4, SetIs
  <2>5. QED
    BY <2>2, <2>3, <2>6 DEF Becomes
<1>5. QED
  BY <1>3, <1>4

LEMMA FindCachedKeeps ==
    ASSUME PleInv, NEW p \in Callers, FindCached(p)
    PROVE  PleInv'
<1> DEFINE b == Needed(p)
<1>0. /\ fetch \in [Callers -> GoodFetches] /\ fetch[p].at = "prefetch" /\ fetch[p].at \in Flying
      /\ ShardsHold /\ flight' = flight /\ blockMap' = blockMap /\ used' = used
  BY DEF PleInv, FindCached, Flying
<1>1. fetch[p].missing # <<>> \/ fetch[p].blocks # <<>>
  BY <1>0, FetchIs, NothingLeft DEF FindCached
<1>2. b \in Block
  BY <1>0, <1>1, NeededIs
<1>3. CASE IsCached(b)
  <2>1. lru' = Bumped(ShardFor(b), b) /\ fetch' = [fetch EXCEPT ![p] = Ensured(p)]
    BY <1>3 DEF FindCached
  <2>2. PICK f \in GoodFetches : /\ fetch' = [fetch EXCEPT ![p] = f]
                                 /\ f.at \in {"prefetch", "gather"}
                                 /\ f.at = "gather" => Head(f.blocks) = b
    BY <1>0, <1>1, <2>1, NeededIs
  <2> HIDE DEF b
  <2>3. ShardsHold'
    BY <1>0, <1>2, <1>3, <2>1, BumpKeeps
  <2>4. f.at = "gather" => IsCached(Head(f.blocks))'
    BY <1>0, <1>3, <2>2 DEF IsCached
  <2>5. f.at \in Flying
    BY <2>2 DEF Flying
  <2>6. QED
    BY <1>0, <2>2, <2>3, <2>4, <2>5, OneFetch
<1>4. CASE ~IsCached(b)
  <2>1. lru' = lru /\ fetch' = [fetch EXCEPT ![p].at = "read"]
    BY <1>4 DEF FindCached
  <2>2. fetch' = Set(p, "read", fetch[p].blocks, fetch[p].missing, fetch[p].dst)
    BY <1>0, <2>1, AtSet
  <2>3. Fits(p, "read", fetch[p].blocks, fetch[p].missing, fetch[p].dst)
    BY <1>0, <1>1, FetchIs, FlyingIs DEF Flying, Fits, HasRows
  <2>4. PICK f \in GoodFetches : fetch' = [fetch EXCEPT ![p] = f] /\ f.at = "read"
    BY <1>0, <2>2, <2>3, SetIs DEF Becomes
  <2>5. ShardsHold'
    BY <1>0, <2>1 DEF ShardsHold
  <2>6. f.at \in Flying /\ f.at # "gather"
    BY <2>4 DEF Flying
  <2>7. QED
    BY <1>0, <2>4, <2>5, <2>6, OneFetch
<1>5. QED
  BY <1>3, <1>4

LEMMA InsertsKeep ==
    ASSUME PleInv, NEW p \in Callers, Insert(p)
    PROVE  PleInv'
<1> DEFINE b == Needed(p)
           s == ShardFor(b)
           list == SubSeq(lru[s], 1, Kept(s, b))
<1>0. /\ fetch \in [Callers -> GoodFetches] /\ fetch[p].at = "read" /\ fetch[p].at \in Flying
      /\ ShardsHold /\ flight' = flight /\ fetch' = [fetch EXCEPT ![p] = Ensured(p)]
  BY DEF PleInv, Insert, Flying
<1>1. fetch[p].missing # <<>> \/ fetch[p].blocks # <<>>
  BY <1>0, FlyingIs
<1>2. PICK f \in GoodFetches : /\ fetch' = [fetch EXCEPT ![p] = f]
                               /\ f.at \in {"prefetch", "gather"}
                               /\ f.at = "gather" => Head(f.blocks) = b
  BY <1>0, <1>1, NeededIs
<1>3. b \in Block
  BY <1>0, <1>1, NeededIs
<1>4. ShardsHold' /\ b \in DOMAIN blockMap'[ShardFor(b)]
  <2>1. CASE IsCached(b)
    <3>1. UNCHANGED <<lru, blockMap, used>>
      BY <2>1 DEF Insert, Cache
    <3> HIDE DEF b
    <3>2. QED
      BY <1>0, <2>1, <3>1 DEF ShardsHold, IsCached, b
  <2>2. CASE ~IsCached(b)
    <3>1. /\ lru' = [lru EXCEPT ![s] = <<b>> \o list]
          /\ blockMap' = [blockMap EXCEPT ![s] = [x \in ToSet(list) \union {b} |->
                                                     IF x = b THEN DataOf(b) ELSE @[x]]]
          /\ used' = [used EXCEPT ![s] = @ - Freed(s, Kept(s, b)) + Len(DataOf(b))]
      BY <2>2 DEF Insert
    <3>2. s = ShardFor(b) /\ list = SubSeq(lru[s], 1, Kept(s, b))
      OBVIOUS
    <3> HIDE DEF b, s, list
    <3>3. ShardsHold' /\ b \in DOMAIN blockMap'[s]
      BY <1>0, <1>3, <2>2, <3>1, <3>2, InsertKeeps
    <3>4. QED
      BY <3>2, <3>3
  <2>3. QED
    BY <2>1, <2>2
<1> HIDE DEF b
<1>5. f.at = "gather" => IsCached(Head(f.blocks))'
  BY <1>2, <1>4 DEF IsCached
<1>6. f.at \in Flying
  BY <1>2 DEF Flying
<1>7. QED
  BY <1>0, <1>2, <1>4, <1>5, <1>6, OneFetch

LEMMA ReadFailsKeeps ==
    ASSUME PleInv, NEW p \in Callers, ReadFails(p)
    PROVE  PleInv'
<1>1. NoFetch \in GoodFetches /\ NoFetch.at = "idle"
  <2>1. NoFetch \in Fetches
    BY DEF NoFetch, Fetches, RowLists, BlockLists
  <2>2. QED
    BY <2>1 DEF NoFetch, GoodFetches
<1>2. /\ fetch' = [fetch EXCEPT ![p] = NoFetch] /\ flight' = NoCaller
      /\ fetch[p].at \in Flying /\ NoFetch.at \notin Flying
  BY <1>1 DEF ReadFails, Flying
<1>3. blockMap' = blockMap /\ ShardsHold'
  BY DEF ReadFails, Cache, PleInv, ShardsHold
<1>4. QED
  BY <1>1, <1>2, <1>3, OneFetch

LEMMA ServedKeeps ==
    ASSUME PleInv, NEW p \in Callers, Served(p)
    PROVE  PleInv'
<1>0. /\ fetch \in [Callers -> GoodFetches] /\ fetch[p].at = "prefetch" /\ fetch[p].at \in Flying
      /\ flight' = NoCaller /\ blockMap' = blockMap
  BY DEF PleInv, Served, Cache, Flying
<1>1. fetch[p].missing = <<>> /\ fetch[p].blocks = <<>>
  BY <1>0, FetchIs, NothingLeft DEF Served
<1>2. fetch' = Set(p, "done", fetch[p].blocks, fetch[p].missing, fetch[p].dst)
  <2>1. fetch' = [fetch EXCEPT ![p].at = "done"]
    BY DEF Served
  <2>2. QED
    BY <1>0, <2>1, AtSet
<1>3. Fits(p, "done", fetch[p].blocks, fetch[p].missing, fetch[p].dst)
  BY <1>0, <1>1, FetchIs, FlyingIs DEF Flying, Fits, HasRows
<1>4. PICK f \in GoodFetches : fetch' = [fetch EXCEPT ![p] = f] /\ f.at = "done"
  BY <1>0, <1>2, <1>3, SetIs DEF Becomes
<1>5. ShardsHold'
  BY DEF Served, Cache, PleInv, ShardsHold
<1>6. f.at \notin Flying /\ f.at # "gather"
  BY <1>4 DEF Flying
<1>7. QED
  BY <1>0, <1>4, <1>5, <1>6, OneFetch

LEMMA GatherKeeps ==
    ASSUME PleInv, NEW p \in Callers, Gather(p)
    PROVE  PleInv'
<1> DEFINE r == fetch[p]
           b == Head(r.blocks)
           y == Tail(r.blocks)
           data == blockMap[ShardFor(b)][b]
           z == [i \in DOMAIN r.dst |-> IF BlockOf(r.rows[i]) = b
                                        THEN data[InBlock(r.rows[i]) + 1] ELSE r.dst[i]]
<1>0. /\ fetch \in [Callers -> GoodFetches] /\ fetch[p].at = "gather" /\ fetch[p].at \in Flying
      /\ ShardsHold /\ flight' = flight /\ blockMap' = blockMap
  BY DEF PleInv, Gather, Cache, Flying
<1>1. /\ r.rows \in RowLists /\ r.blocks \in BlockLists /\ r.missing \in BlockLists /\ r.dst \in Seq(Int)
  BY <1>0, FetchIs
<1>2. /\ r.missing = <<>> /\ r.blocks # <<>> /\ IsCached(b) /\ DOMAIN r.dst = DOMAIN r.rows
      /\ HasRows(r)
  BY <1>0, FlyingIs
<1>3. b \in Block /\ y \in BlockLists /\ ToSet(r.blocks) = ToSet(y) \union {b}
  BY <1>1, <1>2, TailOf
<1>4. data = DataOf(b)
  <2> HIDE DEF b
  <2>1. ShardFor(b) \in Shard
    BY <1>3, BlockSize
  <2>2. QED
    BY <1>0, <1>2, <2>1, ShardIs DEF IsCached
<1>5. fetch' = [fetch EXCEPT ![p].at = "prefetch", ![p].blocks = y, ![p].dst = z]
  BY <1>0 DEF Gather
<1>6. \A i \in DOMAIN r.rows : r.rows[i] \in Row /\ r.rows[i] \in Int
  BY <1>1, TableAssumption DEF RowLists, Row
<1>7. \A i \in DOMAIN r.rows : z[i] = r.rows[i] \/ BlockOf(r.rows[i]) \in ToSet(y)
  <2> TAKE i \in DOMAIN r.rows
  <2>1. z[i] = IF BlockOf(r.rows[i]) = b THEN data[InBlock(r.rows[i]) + 1] ELSE r.dst[i]
    BY <1>2
  <2> HIDE DEF z, data, y, b, r
  <2>2. CASE BlockOf(r.rows[i]) = b
    BY <1>4, <1>6, <2>1, <2>2, BlockIs
  <2>3. CASE BlockOf(r.rows[i]) # b
    BY <1>2, <1>3, <2>1, <2>3 DEF HasRows
  <2>4. QED
    BY <2>2, <2>3
<1>8. z \in Seq(Int) /\ DOMAIN z = DOMAIN r.rows
  <2>1. \A i \in DOMAIN r.rows : z[i] \in Int
    <3> TAKE i \in DOMAIN r.rows
    <3>1. z[i] = IF BlockOf(r.rows[i]) = b THEN data[InBlock(r.rows[i]) + 1] ELSE r.dst[i]
      BY <1>2
    <3>2. r.dst[i] \in Int
      BY <1>1, <1>2
    <3> HIDE DEF z, data, b, r
    <3>3. QED
      BY <1>4, <1>6, <3>1, <3>2, BlockIs
  <2>2. DOMAIN z = 1 .. Len(r.dst) /\ Len(r.dst) \in Nat /\ z = [i \in DOMAIN z |-> z[i]]
    <3> HIDE DEF data, b, r
    <3>1. DOMAIN r.dst = 1 .. Len(r.dst) /\ Len(r.dst) \in Nat
      BY <1>1
    <3>2. DOMAIN z = DOMAIN r.dst /\ z = [i \in DOMAIN z |-> z[i]]
      OBVIOUS
    <3> HIDE DEF z
    <3>3. QED
      BY <3>1, <3>2
  <2> HIDE DEF z
  <2>3. DOMAIN z = DOMAIN r.rows
    BY <1>1, <1>2, <2>2
  <2>4. QED
    BY <2>1, <2>2, <2>3
<1> HIDE DEF y, z, data
<1>9. fetch' = Set(p, "prefetch", y, r.missing, z)
  <2> DEFINE e == [r EXCEPT !.at = "prefetch", !.blocks = y, !.dst = z]
             R == [at : {"gather", "prefetch"}, rows : {r.rows}, blocks : {r.blocks, y},
                   missing : {r.missing}, dst : {r.dst, z}]
  <2>1. fetch' = [fetch EXCEPT ![p] = e]
    BY <1>0, <1>5
  <2>2. r.at = "gather" /\ r = [at |-> r.at, rows |-> r.rows, blocks |-> r.blocks,
                                missing |-> r.missing, dst |-> r.dst]
    BY <1>0, FetchIs
  <2> HIDE DEF r
  <2>3. r \in R
    <3> DEFINE ro == r.rows
               bl == r.blocks
               mi == r.missing
               ds == r.dst
    <3>1. r = [at |-> "gather", rows |-> ro, blocks |-> bl, missing |-> mi, dst |-> ds]
      BY <2>2
    <3> HIDE DEF ro, bl, mi, ds
    <3>2. r \in [at : {"gather", "prefetch"}, rows : {ro}, blocks : {bl, y},
                 missing : {mi}, dst : {ds, z}]
      BY <3>1
    <3>3. QED
      BY <3>2 DEF ro, bl, mi, ds
  <2>4. /\ e \in R /\ e.at = "prefetch" /\ e.rows = r.rows /\ e.blocks = y
        /\ e.missing = r.missing /\ e.dst = z
    BY <2>3
  <2> HIDE DEF e
  <2>5. e = [at |-> e.at, rows |-> e.rows, blocks |-> e.blocks, missing |-> e.missing, dst |-> e.dst]
    BY <2>4
  <2> HIDE DEF R
  <2>6. QED
    BY <2>1, <2>4, <2>5 DEF Set, r
<1>10. Fits(p, "prefetch", y, r.missing, z)
  BY <1>1, <1>3, <1>7, <1>8 DEF Flying, Fits
<1>11. PICK f \in GoodFetches : fetch' = [fetch EXCEPT ![p] = f] /\ f.at = "prefetch"
  BY <1>0, <1>9, <1>10, SetIs DEF Becomes
<1>12. ShardsHold'
  BY DEF Gather, Cache, PleInv, ShardsHold
<1>13. f.at \in Flying /\ f.at # "gather"
  BY <1>11 DEF Flying
<1>14. QED
  BY <1>0, <1>11, <1>12, <1>13, OneFetch

LEMMA PleStep == PleInv /\ [PleNext]_pleVars => PleInv'
<1> SUFFICES ASSUME PleInv, [PleNext]_pleVars PROVE PleInv'
  OBVIOUS
<1>1. CASE UNCHANGED pleVars
  BY <1>1 DEF pleVars, PleInv, ShardsHold, Alone, Gathers, IsCached
<1>2. ASSUME NEW p \in Callers, \E rows \in Wanted : BeginFetch(p, rows) PROVE PleInv'
  BY <1>2, BeginFetchKeeps
<1>3. ASSUME NEW p \in Callers,
             LockFetch(p) \/ Classify(p) \/ Classified(p) \/ FindCached(p)
             \/ Insert(p) \/ ReadFails(p) \/ Gather(p) \/ Served(p)
      PROVE  PleInv'
  BY <1>3, LockFetchKeeps, ClassifyKeeps, ClassifiedKeeps, FindCachedKeeps, InsertsKeep,
     ReadFailsKeeps, GatherKeeps, ServedKeeps
<1>4. QED
  BY <1>1, <1>2, <1>3 DEF PleNext

LEMMA PleCoherent == PleInv => StoreCoherent
<1> SUFFICES ASSUME PleInv PROVE StoreCoherent
  OBVIOUS
<1>1. ShardCoherent
  <2>1. ASSUME NEW s \in Shard
        PROVE  /\ IsInjective(lru[s]) /\ ToSet(lru[s]) = DOMAIN blockMap[s]
               /\ used[s] = Freed(s, 0) /\ used[s] <= ShardBudget
    <3>1. /\ lru[s] \in BlockLists /\ IsInjective(lru[s]) /\ ToSet(lru[s]) = DOMAIN blockMap[s]
          /\ used[s] = Weight(lru[s]) /\ Weight(lru[s]) <= ShardBudget /\ Len(lru[s]) \in Nat
      BY ShardIs DEF PleInv
    <3>2. 0 \in 0 .. Len(lru[s]) /\ 0 + 1 = 1
      BY <3>1
    <3>3. Freed(s, 0) = Weight(SubSeq(lru[s], 0 + 1, Len(lru[s])))
      BY <3>2, FreedIs DEF PleInv
    <3>4. SubSeq(lru[s], 1, Len(lru[s])) = lru[s]
      BY <3>1 DEF BlockLists
    <3>5. QED
      BY <3>1, <3>2, <3>3, <3>4
  <2>2. QED
    BY <2>1 DEF ShardCoherent
<1>2. RowsServed
  <2>1. ASSUME NEW p \in Callers, fetch[p].at = "done" PROVE fetch[p].dst = fetch[p].rows
    <3>1. /\ fetch[p] \in GoodFetches /\ fetch[p].rows \in RowLists /\ fetch[p].dst \in Seq(Int)
      BY FetchIs DEF PleInv
    <3>2. /\ DOMAIN fetch[p].dst = DOMAIN fetch[p].rows /\ HasRows(fetch[p]) /\ fetch[p].blocks = <<>>
      BY <2>1, <3>1 DEF GoodFetches
    <3>3. ToSet(<<>>) = {}
      BY DEF ToSet
    <3>4. \A i \in DOMAIN fetch[p].rows : fetch[p].dst[i] = fetch[p].rows[i]
      BY <3>2, <3>3 DEF HasRows
    <3> DEFINE d == fetch[p].dst
               w == fetch[p].rows
    <3>5. d = [i \in DOMAIN d |-> d[i]] /\ w = [i \in DOMAIN w |-> w[i]]
      BY <3>1 DEF RowLists
    <3> HIDE DEF d, w
    <3>6. d = w
      BY <3>2, <3>4, <3>5 DEF d, w
    <3>7. QED
      BY <3>6 DEF d, w
  <2>2. \A p \in Callers : ~Vanished(p)
    BY DEF PleInv, Gathers, Vanished
  <2>3. QED
    BY <2>1, <2>2 DEF RowsServed
<1>3. QED
  BY <1>1, <1>2 DEF StoreCoherent

(* In every shard the list, the map and the count of bytes agree and are   *)
(* within the budget, and a fetch that succeeds has its rows, whatever the *)
(* table, the shards, the callers and the reads that fail (ensure_cached,  *)
(* ple_store_fetch).                                                       *)
THEOREM StoreStaysCoherent == PleSpec => []StoreCoherent
<1>1. PleSpec => []PleInv
  BY PleInitial, PleStep, PTL DEF PleSpec
<1>2. QED
  BY <1>1, PleCoherent, PTL

-----------------------------------------------------------------------------
(* That the directory of a running server is left alone, for any number of  *)
(* servers, runs and kills.  LiveDirectoryKept says nothing of a directory  *)
(* that is being made, nor of who is looking at it, so it is not inductive: *)
(* the invariant adds that no two servers own one directory, that a name    *)
(* nobody has used yet is not in anybody's hands, and that whoever looks at *)
(* a directory of a running server has not passed the test of its lock.     *)

Collecting == {"collect", "test", "tested", "remove"}
Making == {"created", "opened", "locked", "runs"}
Places == Collecting \union Making \union {"down", "renamed", "trash"}

Server == [at : Places, own : Nat, saved : SUBSET {"state"}, dir : Nat, path : {"run", "deleting"},
           present : SUBSET Nat, visited : SUBSET Nat]
Dir == [name : {"run", "deleting"}, files : SUBSET (Marks \union {"state"}), lock : Servers \union {Nobody}]

TypeOK ==
    /\ server \in [Servers -> Server]
    /\ dirs \in [DOMAIN dirs -> Dir] /\ DOMAIN dirs \subseteq 1 .. runs
    /\ runs \in Nat

Owners ==
    /\ \A p \in Servers : /\ server[p].at # "down" => server[p].own \in 1 .. runs
                          /\ server[p].dir \in 0 .. runs
    /\ \A p, q \in Servers : p # q /\ server[p].at # "down" /\ server[q].at # "down" =>
                                 server[p].own # server[q].own

Fresh ==
    \A q \in Servers : server[q].at \in Collecting =>
        /\ server[q].own \notin DOMAIN dirs
        /\ \A p \in Servers : server[p].dir # server[q].own

Made(q) == CASE server[q].at = "created" -> {}
             [] server[q].at \in {"opened", "locked"} -> {".lock"}
             [] OTHER -> Marks \union server[q].saved

LiveAt(q) ==
    /\ server[q].own \in DOMAIN dirs
    /\ dirs[server[q].own].name = "run"
    /\ dirs[server[q].own].files = Made(q)
    /\ dirs[server[q].own].lock = IF server[q].at \in {"locked", "runs"} THEN q ELSE Nobody
    /\ server[q].at # "runs" => server[q].saved = {}
    /\ \A p \in Servers : server[p].dir = server[q].own =>
                              server[q].at = "runs" /\ server[p].at = "test"
Live == \A q \in Servers : server[q].at \in Making => LiveAt(q)

IInv == TypeOK /\ Owners /\ Fresh /\ Live

(* At the start nobody runs, and the one directory is nobody's.            *)
LEMMA InitEstablishes == DirInit => IInv
<1> SUFFICES ASSUME DirInit PROVE IInv
  OBVIOUS
<1>1. /\ server = [p \in Servers |-> Down] /\ runs = 1
  BY DEF DirInit
<1>2. PICK name \in {"run", "deleting"} :
         dirs = [d \in {1} |-> [name |-> name, files |-> Marks, lock |-> Nobody]]
  BY DEF DirInit
<1>3. DOMAIN dirs = {1} /\ dirs[1] \in Dir
  BY <1>2 DEF Dir
<1>4. TypeOK
  BY <1>1, <1>2, <1>3 DEF TypeOK, Down, Server, Places
<1>5. Owners /\ Fresh /\ Live
  BY <1>1 DEF Owners, Fresh, Live, LiveAt, Down, Collecting, Making
<1> QED
  BY <1>4, <1>5 DEF IInv

(* A step of one server that leaves alone the directories of the others    *)
(* that run, and takes none of them into its hands without the test.       *)
LEMMA OthersLive ==
    ASSUME IInv, NEW p \in Servers, NEW r, server' = [server EXCEPT ![p] = r],
           \A q \in Servers : q # p /\ server[q].at \in Making =>
               /\ server[q].own \in DOMAIN dirs'
               /\ dirs'[server[q].own].name = dirs[server[q].own].name
               /\ dirs'[server[q].own].files = dirs[server[q].own].files
               /\ dirs'[server[q].own].lock = dirs[server[q].own].lock
               /\ r.dir = server[q].own => server[q].at = "runs" /\ r.at = "test"
    PROVE  \A q \in Servers : q # p /\ server'[q].at \in Making => LiveAt(q)'
<1> SUFFICES ASSUME NEW q \in Servers, q # p, server'[q].at \in Making PROVE LiveAt(q)'
  OBVIOUS
<1>1. server'[q] = server[q] /\ server'[p] = r /\ \A x \in Servers : x # p => server'[x] = server[x]
  BY DEF IInv, TypeOK
<1>2. LiveAt(q)
  BY <1>1 DEF IInv, Live
<1>3. Made(q)' = Made(q)
  BY <1>1 DEF Made
<1> QED
  BY <1>1, <1>2, <1>3 DEF LiveAt

(* The directories, one of which may have changed.                         *)
LEMMA DirStep ==
    ASSUME TypeOK, NEW d \in DOMAIN dirs, NEW x \in Dir, dirs' = [dirs EXCEPT ![d] = x], runs' = runs
    PROVE  dirs' \in [DOMAIN dirs' -> Dir] /\ DOMAIN dirs' = DOMAIN dirs /\ DOMAIN dirs' \subseteq 1 .. runs'
BY DEF TypeOK

LEMMA UnlockStep ==
    ASSUME TypeOK, NEW p \in Servers, dirs' = Unlocked(p), runs' = runs
    PROVE  /\ dirs' \in [DOMAIN dirs' -> Dir] /\ DOMAIN dirs' = DOMAIN dirs
           /\ DOMAIN dirs' \subseteq 1 .. runs'
           /\ \A d \in DOMAIN dirs : /\ dirs'[d].name = dirs[d].name /\ dirs'[d].files = dirs[d].files
                                     /\ dirs'[d].lock = IF dirs[d].lock = p THEN Nobody ELSE dirs[d].lock
<1>1. \A d \in DOMAIN dirs : [dirs[d] EXCEPT !.lock = IF @ = p THEN Nobody ELSE @] \in Dir
  BY DEF TypeOK, Dir
<1>2. \A d \in DOMAIN dirs : dirs'[d] = [dirs[d] EXCEPT !.lock = IF @ = p THEN Nobody ELSE @]
  BY DEF Unlocked
<1>3. DOMAIN dirs' = DOMAIN dirs
  BY DEF Unlocked
<1>4. dirs' \in [DOMAIN dirs -> Dir]
  BY <1>1 DEF Unlocked
<1>5. \A d \in DOMAIN dirs : dirs[d] \in Dir
  BY DEF TypeOK
<1>6. \A d \in DOMAIN dirs : /\ dirs'[d].name = dirs[d].name /\ dirs'[d].files = dirs[d].files
                             /\ dirs'[d].lock = IF dirs[d].lock = p THEN Nobody ELSE dirs[d].lock
  <2> TAKE d \in DOMAIN dirs
  <2> DEFINE x == dirs[d]
  <2>1. x \in Dir /\ dirs'[d] = [x EXCEPT !.lock = IF @ = p THEN Nobody ELSE @]
    BY <1>2, <1>5
  <2> HIDE DEF x
  <2>2. /\ dirs'[d].name = x.name /\ dirs'[d].files = x.files
        /\ dirs'[d].lock = IF x.lock = p THEN Nobody ELSE x.lock
    BY <2>1 DEF Dir
  <2>3. QED
    BY <2>2 DEF x
<1> QED
  BY <1>3, <1>4, <1>6 DEF TypeOK

LEMMA StartPreserves == ASSUME IInv, NEW p \in Servers, Start(p) PROVE IInv'
<1> DEFINE r == [Down EXCEPT !.at = "collect", !.own = runs + 1, !.present = DOMAIN dirs]
<1>1. server[p] \in Server /\ TypeOK /\ Owners /\ Fresh /\ Live /\ DOMAIN dirs \subseteq Nat
  BY DEF IInv, TypeOK
<1>2. server' = [server EXCEPT ![p] = r]
  BY <1>1 DEF Start, Down, TypeOK
<1>3. r \in Server
  <2>1. Down \in Server
    BY DEF Down, Server, Places
  <2>2. runs + 1 \in Nat /\ DOMAIN dirs \in SUBSET Nat /\ "collect" \in Places
    BY <1>1 DEF TypeOK, Places, Collecting
  <2> QED
    BY <2>1, <2>2 DEF Server
<1>4. r.at = "collect" /\ r.own = runs + 1 /\ r.dir = 0
  BY <1>1 DEF Start, Down, Server
<1> HIDE DEF r
<1>5. /\ server' \in [Servers -> Server] /\ server'[p] = r
      /\ \A q \in Servers : q # p => server'[q] = server[q]
  BY <1>1, <1>2, <1>3 DEF TypeOK
<1>6. dirs' = dirs /\ runs' = runs + 1 /\ TypeOK'
  BY <1>1, <1>5 DEF Start, TypeOK
<1>10. Owners'
  <2>1. \A q \in Servers : q # p => server'[q] = server[q] /\ server[q].dir \in 0 .. runs
                                     /\ (server[q].at # "down" => server[q].own \in 1 .. runs)
    BY <1>1, <1>5 DEF Owners
  <2>2. server'[p].own = runs + 1 /\ server'[p].dir = 0 /\ runs' = runs + 1 /\ runs \in Nat
    BY <1>1, <1>4, <1>5, <1>6 DEF TypeOK
  <2>3. \A q \in Servers : q # p /\ server'[q].at # "down" => server'[q].own # server'[p].own
    BY <2>1, <2>2
  <2>4. \A q, t \in Servers : q # p /\ t # p /\ q # t /\ server'[q].at # "down" /\ server'[t].at # "down" =>
                                server'[q].own # server'[t].own
    BY <1>1, <2>1 DEF Owners
  <2>5. \A q \in Servers : (server'[q].at # "down" => server'[q].own \in 1 .. runs')
                           /\ server'[q].dir \in 0 .. runs'
    BY <2>1, <2>2
  <2>6. ASSUME NEW q \in Servers, NEW t \in Servers, q # t, server'[q].at # "down", server'[t].at # "down"
        PROVE  server'[q].own # server'[t].own
    <3>1. CASE q = p
      BY <2>3, <2>6, <3>1
    <3>2. CASE t = p
      BY <2>3, <2>6, <3>2
    <3>3. CASE q # p /\ t # p
      BY <2>4, <2>6, <3>3
    <3> QED
      BY <3>1, <3>2, <3>3
  <2>7. \A q, t \in Servers : q # t /\ server'[q].at # "down" /\ server'[t].at # "down" =>
                                server'[q].own # server'[t].own
    BY <2>6
  <2> QED
    BY <2>5, <2>7 DEF Owners
<1>11. Fresh'
  <2>1. \A q \in Servers : server[q].dir \in 0 .. runs /\ (server[q].at # "down" => server[q].own \in 1 .. runs)
    BY <1>1 DEF Owners
  <2>2. runs \in Nat /\ DOMAIN dirs \subseteq 1 .. runs
    BY <1>1 DEF TypeOK
  <2>3. ASSUME NEW q \in Servers, server'[q].at \in Collecting
        PROVE  server'[q].own \notin DOMAIN dirs' /\ \A t \in Servers : server'[t].dir # server'[q].own
    <3>1. CASE q = p
      <4>1. \A t \in Servers : server'[t].dir \in 0 .. runs
        BY <1>4, <1>5, <2>1, <2>2
      <4> QED
        BY <1>4, <1>5, <1>6, <2>2, <3>1, <4>1
    <3>2. CASE q # p
      <4>1. server'[q] = server[q] /\ server[q].own \in 1 .. runs
        BY <1>5, <2>1, <2>3, <3>2 DEF Collecting
      <4> QED
        BY <1>1, <1>4, <1>5, <1>6, <2>2, <2>3, <3>2, <4>1 DEF Fresh
    <3> QED
      BY <3>1, <3>2
  <2> QED
    BY <2>3 DEF Fresh
<1>12. ASSUME NEW q \in Servers, q # p, server[q].at \in Making
       PROVE  /\ server[q].own \in DOMAIN dirs'
              /\ dirs'[server[q].own].name = dirs[server[q].own].name
              /\ dirs'[server[q].own].files = dirs[server[q].own].files
              /\ dirs'[server[q].own].lock = dirs[server[q].own].lock
              /\ r.dir = server[q].own => server[q].at = "runs" /\ r.at = "test"
  <2>1. LiveAt(q) /\ server[q].own \in 1 .. runs /\ server[q].at # "down"
    BY <1>1, <1>12 DEF Live, Owners, Making
  <2> QED
    BY <1>1, <1>4, <1>12, <2>1, <1>6, NobodyAssumption DEF Start, Owners, LiveAt, TypeOK
<1>13. \A q \in Servers : q # p /\ server'[q].at \in Making => LiveAt(q)'
  BY <1>2, <1>12, OthersLive
<1> QED
  BY <1>4, <1>5, <1>6, <1>10, <1>11, <1>13 DEF IInv, Live, Making

LEMMA UntestPreserves == ASSUME IInv, NEW p \in Servers, Untest(p) PROVE IInv'
<1> DEFINE r == [server[p] EXCEPT !.at = "remove"]
<1>1. server[p] \in Server /\ TypeOK /\ Owners /\ Fresh /\ Live /\ DOMAIN dirs \subseteq Nat
  BY DEF IInv, TypeOK
<1>2. server' = [server EXCEPT ![p] = r]
  BY <1>1 DEF Untest, Goes, TypeOK
<1>3. r \in Server
  BY <1>1 DEF Untest, Goes, Server, Places, TypeOK, Collecting, Making
<1>4. r.at = "remove" /\ r.own = server[p].own /\ r.dir = server[p].dir
  BY <1>1 DEF Untest, Goes, Server
<1> HIDE DEF r
<1>5. /\ server' \in [Servers -> Server] /\ server'[p] = r
      /\ \A q \in Servers : q # p => server'[q] = server[q]
  BY <1>1, <1>2, <1>3 DEF TypeOK
<1>6. /\ runs' = runs /\ DOMAIN dirs' = DOMAIN dirs /\ TypeOK'
      /\ \A d \in DOMAIN dirs : /\ dirs'[d].name = dirs[d].name /\ dirs'[d].files = dirs[d].files
                                /\ dirs'[d].lock = IF dirs[d].lock = p THEN Nobody ELSE dirs[d].lock
  <2>1. dirs' = Unlocked(p) /\ runs' = runs
    BY DEF Untest
  <2> QED
    BY <1>1, <1>5, <2>1, UnlockStep DEF TypeOK
<1>10. Owners'
  BY <1>1, <1>4, <1>5, <1>6 DEF Untest, Owners, TypeOK
<1>11. Fresh'
  BY <1>1, <1>4, <1>5, <1>6 DEF Untest, Owners, Fresh, TypeOK, Collecting
<1>12. ASSUME NEW q \in Servers, q # p, server[q].at \in Making
       PROVE  /\ server[q].own \in DOMAIN dirs'
              /\ dirs'[server[q].own].name = dirs[server[q].own].name
              /\ dirs'[server[q].own].files = dirs[server[q].own].files
              /\ dirs'[server[q].own].lock = dirs[server[q].own].lock
              /\ r.dir = server[q].own => server[q].at = "runs" /\ r.at = "test"
  <2>1. LiveAt(q) /\ server[q].own \in 1 .. runs /\ server[q].at # "down"
    BY <1>1, <1>12 DEF Live, Owners, Making
  <2> QED
    BY <1>1, <1>4, <1>12, <2>1, <1>6, NobodyAssumption DEF Untest, Owners, LiveAt, TypeOK
<1>13. \A q \in Servers : q # p /\ server'[q].at \in Making => LiveAt(q)'
  BY <1>2, <1>12, OthersLive
<1> QED
  BY <1>4, <1>5, <1>6, <1>10, <1>11, <1>13 DEF IInv, Live, Making

LEMMA OpenLockPreserves == ASSUME IInv, NEW p \in Servers, OpenLock(p) PROVE IInv'
<1> DEFINE r == [server[p] EXCEPT !.at = "opened"]
<1>1. server[p] \in Server /\ TypeOK /\ Owners /\ Fresh /\ Live /\ DOMAIN dirs \subseteq Nat
  BY DEF IInv, TypeOK
<1>2. server' = [server EXCEPT ![p] = r]
  BY <1>1 DEF OpenLock, Goes, TypeOK
<1>3. r \in Server
  BY <1>1 DEF OpenLock, Goes, Server, Places, TypeOK, Collecting, Making
<1>4. r.at = "opened" /\ r.own = server[p].own /\ r.dir = server[p].dir /\ r.saved = server[p].saved
  BY <1>1 DEF OpenLock, Goes, Server
<1> HIDE DEF r
<1>5. /\ server' \in [Servers -> Server] /\ server'[p] = r
      /\ \A q \in Servers : q # p => server'[q] = server[q]
  BY <1>1, <1>2, <1>3 DEF TypeOK
<1> DEFINE x == [dirs[server[p].own] EXCEPT !.files = @ \union {".lock"}]
<1>6. /\ server[p].own \in DOMAIN dirs /\ dirs[server[p].own] \in Dir /\ LiveAt(p)
      /\ dirs' = [dirs EXCEPT ![server[p].own] = x] /\ runs' = runs
  BY <1>1 DEF OpenLock, Live, LiveAt, Making, TypeOK
<1>7. /\ x \in Dir /\ x.name = dirs[server[p].own].name
      /\ x.files = dirs[server[p].own].files \union {".lock"} /\ x.lock = dirs[server[p].own].lock
  BY <1>6 DEF Dir, Marks
<1> HIDE DEF x
<1>8. TypeOK' /\ DOMAIN dirs' = DOMAIN dirs
  BY <1>1, <1>5, <1>6, <1>7, DirStep DEF TypeOK
<1>9. dirs'[server[p].own] = x /\ \A d \in DOMAIN dirs : d # server[p].own => dirs'[d] = dirs[d]
  BY <1>6
<1>10. Owners'
  BY <1>1, <1>4, <1>5, <1>6, <1>7, <1>8, <1>9 DEF OpenLock, Owners, TypeOK
<1>11. Fresh'
  BY <1>1, <1>4, <1>5, <1>6, <1>7, <1>8, <1>9 DEF OpenLock, Owners, Fresh, TypeOK, Collecting
<1>12. ASSUME NEW q \in Servers, q # p, server[q].at \in Making
       PROVE  /\ server[q].own \in DOMAIN dirs'
              /\ dirs'[server[q].own].name = dirs[server[q].own].name
              /\ dirs'[server[q].own].files = dirs[server[q].own].files
              /\ dirs'[server[q].own].lock = dirs[server[q].own].lock
              /\ r.dir = server[q].own => server[q].at = "runs" /\ r.at = "test"
  <2>1. LiveAt(q) /\ server[q].own \in 1 .. runs /\ server[q].at # "down"
    BY <1>1, <1>12 DEF Live, Owners, Making
  <2> QED
    BY <1>1, <1>4, <1>12, <2>1, <1>6, <1>7, <1>8, <1>9, NobodyAssumption DEF OpenLock, Owners, LiveAt, TypeOK
<1>13. \A q \in Servers : q # p /\ server'[q].at \in Making => LiveAt(q)'
  BY <1>2, <1>12, OthersLive
<1>14. LiveAt(p)'
  <2>1. server'[p].own = server[p].own /\ server[p].own \in DOMAIN dirs'
    BY <1>4, <1>5, <1>6, <1>8
  <2>2. dirs'[server[p].own].name = "run" /\ dirs'[server[p].own].files = Made(p)'
    BY <1>4, <1>5, <1>6, <1>7, <1>9 DEF LiveAt, Made, Marks, OpenLock
  <2>3. dirs'[server[p].own].lock = IF server'[p].at \in {"locked", "runs"} THEN p ELSE Nobody
    BY <1>4, <1>5, <1>6, <1>7, <1>9 DEF LiveAt, OpenLock
  <2>4. \A t \in Servers : server'[t].dir = server'[p].own => server'[p].at = "runs" /\ server'[t].at = "test"
    BY <1>4, <1>5, <1>6 DEF LiveAt, OpenLock
  <2> QED
    BY <1>4, <1>5, <1>6, <2>1, <2>2, <2>3, <2>4 DEF LiveAt, OpenLock
<1> QED
  BY <1>8, <1>10, <1>11, <1>13, <1>14 DEF IInv, Live

LEMMA LockPreserves == ASSUME IInv, NEW p \in Servers, Lock(p) PROVE IInv'
<1> DEFINE r == [server[p] EXCEPT !.at = "locked"]
<1>1. server[p] \in Server /\ TypeOK /\ Owners /\ Fresh /\ Live /\ DOMAIN dirs \subseteq Nat
  BY DEF IInv, TypeOK
<1>2. server' = [server EXCEPT ![p] = r]
  BY <1>1 DEF Lock, Goes, TypeOK
<1>3. r \in Server
  BY <1>1 DEF Lock, Goes, Server, Places, TypeOK, Collecting, Making
<1>4. r.at = "locked" /\ r.own = server[p].own /\ r.dir = server[p].dir /\ r.saved = server[p].saved
  BY <1>1 DEF Lock, Goes, Server
<1> HIDE DEF r
<1>5. /\ server' \in [Servers -> Server] /\ server'[p] = r
      /\ \A q \in Servers : q # p => server'[q] = server[q]
  BY <1>1, <1>2, <1>3 DEF TypeOK
<1> DEFINE x == [dirs[server[p].own] EXCEPT !.lock = p]
<1>6. /\ server[p].own \in DOMAIN dirs /\ dirs[server[p].own] \in Dir /\ LiveAt(p)
      /\ dirs' = [dirs EXCEPT ![server[p].own] = x] /\ runs' = runs
  BY <1>1 DEF Lock, Live, LiveAt, Making, TypeOK
<1>7. /\ x \in Dir /\ x.name = dirs[server[p].own].name
      /\ x.files = dirs[server[p].own].files /\ x.lock = p
  BY <1>6 DEF Dir, Marks
<1> HIDE DEF x
<1>8. TypeOK' /\ DOMAIN dirs' = DOMAIN dirs
  BY <1>1, <1>5, <1>6, <1>7, DirStep DEF TypeOK
<1>9. dirs'[server[p].own] = x /\ \A d \in DOMAIN dirs : d # server[p].own => dirs'[d] = dirs[d]
  BY <1>6
<1>10. Owners'
  BY <1>1, <1>4, <1>5, <1>6, <1>7, <1>8, <1>9 DEF Lock, Owners, TypeOK
<1>11. Fresh'
  BY <1>1, <1>4, <1>5, <1>6, <1>7, <1>8, <1>9 DEF Lock, Owners, Fresh, TypeOK, Collecting
<1>12. ASSUME NEW q \in Servers, q # p, server[q].at \in Making
       PROVE  /\ server[q].own \in DOMAIN dirs'
              /\ dirs'[server[q].own].name = dirs[server[q].own].name
              /\ dirs'[server[q].own].files = dirs[server[q].own].files
              /\ dirs'[server[q].own].lock = dirs[server[q].own].lock
              /\ r.dir = server[q].own => server[q].at = "runs" /\ r.at = "test"
  <2>1. LiveAt(q) /\ server[q].own \in 1 .. runs /\ server[q].at # "down"
    BY <1>1, <1>12 DEF Live, Owners, Making
  <2> QED
    BY <1>1, <1>4, <1>12, <2>1, <1>6, <1>7, <1>8, <1>9, NobodyAssumption DEF Lock, Owners, LiveAt, TypeOK
<1>13. \A q \in Servers : q # p /\ server'[q].at \in Making => LiveAt(q)'
  BY <1>2, <1>12, OthersLive
<1>14. LiveAt(p)'
  <2>1. server'[p].own = server[p].own /\ server[p].own \in DOMAIN dirs'
    BY <1>4, <1>5, <1>6, <1>8
  <2>2. dirs'[server[p].own].name = "run" /\ dirs'[server[p].own].files = Made(p)'
    BY <1>4, <1>5, <1>6, <1>7, <1>9 DEF LiveAt, Made, Marks, Lock
  <2>3. dirs'[server[p].own].lock = IF server'[p].at \in {"locked", "runs"} THEN p ELSE Nobody
    BY <1>4, <1>5, <1>6, <1>7, <1>9 DEF LiveAt, Lock
  <2>4. \A t \in Servers : server'[t].dir = server'[p].own => server'[p].at = "runs" /\ server'[t].at = "test"
    BY <1>4, <1>5, <1>6 DEF LiveAt, Lock
  <2> QED
    BY <1>4, <1>5, <1>6, <2>1, <2>2, <2>3, <2>4 DEF LiveAt, Lock
<1> QED
  BY <1>8, <1>10, <1>11, <1>13, <1>14 DEF IInv, Live

LEMMA PublishPreserves == ASSUME IInv, NEW p \in Servers, Publish(p) PROVE IInv'
<1> DEFINE r == [server[p] EXCEPT !.at = "runs"]
<1>1. server[p] \in Server /\ TypeOK /\ Owners /\ Fresh /\ Live /\ DOMAIN dirs \subseteq Nat
  BY DEF IInv, TypeOK
<1>2. server' = [server EXCEPT ![p] = r]
  BY <1>1 DEF Publish, Goes, TypeOK
<1>3. r \in Server
  BY <1>1 DEF Publish, Goes, Server, Places, TypeOK, Collecting, Making
<1>4. r.at = "runs" /\ r.own = server[p].own /\ r.dir = server[p].dir /\ r.saved = server[p].saved
  BY <1>1 DEF Publish, Goes, Server
<1> HIDE DEF r
<1>5. /\ server' \in [Servers -> Server] /\ server'[p] = r
      /\ \A q \in Servers : q # p => server'[q] = server[q]
  BY <1>1, <1>2, <1>3 DEF TypeOK
<1> DEFINE x == [dirs[server[p].own] EXCEPT !.files = @ \union {".owner"}]
<1>6. /\ server[p].own \in DOMAIN dirs /\ dirs[server[p].own] \in Dir /\ LiveAt(p)
      /\ dirs' = [dirs EXCEPT ![server[p].own] = x] /\ runs' = runs
  BY <1>1 DEF Publish, Live, LiveAt, Making, TypeOK
<1>7. /\ x \in Dir /\ x.name = dirs[server[p].own].name
      /\ x.files = dirs[server[p].own].files \union {".owner"} /\ x.lock = dirs[server[p].own].lock
  BY <1>6 DEF Dir, Marks
<1> HIDE DEF x
<1>8. TypeOK' /\ DOMAIN dirs' = DOMAIN dirs
  BY <1>1, <1>5, <1>6, <1>7, DirStep DEF TypeOK
<1>9. dirs'[server[p].own] = x /\ \A d \in DOMAIN dirs : d # server[p].own => dirs'[d] = dirs[d]
  BY <1>6
<1>10. Owners'
  BY <1>1, <1>4, <1>5, <1>6, <1>7, <1>8, <1>9 DEF Publish, Owners, TypeOK
<1>11. Fresh'
  BY <1>1, <1>4, <1>5, <1>6, <1>7, <1>8, <1>9 DEF Publish, Owners, Fresh, TypeOK, Collecting
<1>12. ASSUME NEW q \in Servers, q # p, server[q].at \in Making
       PROVE  /\ server[q].own \in DOMAIN dirs'
              /\ dirs'[server[q].own].name = dirs[server[q].own].name
              /\ dirs'[server[q].own].files = dirs[server[q].own].files
              /\ dirs'[server[q].own].lock = dirs[server[q].own].lock
              /\ r.dir = server[q].own => server[q].at = "runs" /\ r.at = "test"
  <2>1. LiveAt(q) /\ server[q].own \in 1 .. runs /\ server[q].at # "down"
    BY <1>1, <1>12 DEF Live, Owners, Making
  <2> QED
    BY <1>1, <1>4, <1>12, <2>1, <1>6, <1>7, <1>8, <1>9, NobodyAssumption DEF Publish, Owners, LiveAt, TypeOK
<1>13. \A q \in Servers : q # p /\ server'[q].at \in Making => LiveAt(q)'
  BY <1>2, <1>12, OthersLive
<1>14. LiveAt(p)'
  <2>1. server'[p].own = server[p].own /\ server[p].own \in DOMAIN dirs'
    BY <1>4, <1>5, <1>6, <1>8
  <2>2. dirs'[server[p].own].name = "run" /\ dirs'[server[p].own].files = Made(p)'
    BY <1>4, <1>5, <1>6, <1>7, <1>9 DEF LiveAt, Made, Marks, Publish
  <2>3. dirs'[server[p].own].lock = IF server'[p].at \in {"locked", "runs"} THEN p ELSE Nobody
    BY <1>4, <1>5, <1>6, <1>7, <1>9 DEF LiveAt, Publish
  <2>4. \A t \in Servers : server'[t].dir = server'[p].own => server'[p].at = "runs" /\ server'[t].at = "test"
    BY <1>4, <1>5, <1>6 DEF LiveAt, Publish
  <2> QED
    BY <1>4, <1>5, <1>6, <2>1, <2>2, <2>3, <2>4 DEF LiveAt, Publish
<1> QED
  BY <1>8, <1>10, <1>11, <1>13, <1>14 DEF IInv, Live

LEMMA SaveStatePreserves == ASSUME IInv, NEW p \in Servers, SaveState(p) PROVE IInv'
<1> DEFINE r == [server[p] EXCEPT !.saved = {"state"}]
<1>1. server[p] \in Server /\ TypeOK /\ Owners /\ Fresh /\ Live /\ DOMAIN dirs \subseteq Nat
  BY DEF IInv, TypeOK
<1>2. server' = [server EXCEPT ![p] = r]
  BY <1>1 DEF SaveState, TypeOK
<1>3. r \in Server
  BY <1>1 DEF SaveState, Server, Places, TypeOK, Collecting, Making
<1>4. r.at = "runs" /\ r.own = server[p].own /\ r.dir = server[p].dir /\ r.saved = {"state"}
  BY <1>1 DEF SaveState, Server
<1> HIDE DEF r
<1>5. /\ server' \in [Servers -> Server] /\ server'[p] = r
      /\ \A q \in Servers : q # p => server'[q] = server[q]
  BY <1>1, <1>2, <1>3 DEF TypeOK
<1> DEFINE x == [dirs[server[p].own] EXCEPT !.files = @ \union {"state"}]
<1>6. /\ server[p].own \in DOMAIN dirs /\ dirs[server[p].own] \in Dir /\ LiveAt(p)
      /\ dirs' = [dirs EXCEPT ![server[p].own] = x] /\ runs' = runs
  BY <1>1 DEF SaveState, Live, LiveAt, Making, TypeOK
<1>7. /\ x \in Dir /\ x.name = dirs[server[p].own].name
      /\ x.files = dirs[server[p].own].files \union {"state"} /\ x.lock = dirs[server[p].own].lock
  BY <1>6 DEF Dir, Marks
<1> HIDE DEF x
<1>8. TypeOK' /\ DOMAIN dirs' = DOMAIN dirs
  BY <1>1, <1>5, <1>6, <1>7, DirStep DEF TypeOK
<1>9. dirs'[server[p].own] = x /\ \A d \in DOMAIN dirs : d # server[p].own => dirs'[d] = dirs[d]
  BY <1>6
<1>10. Owners'
  BY <1>1, <1>4, <1>5, <1>6, <1>7, <1>8, <1>9 DEF SaveState, Owners, TypeOK
<1>11. Fresh'
  BY <1>1, <1>4, <1>5, <1>6, <1>7, <1>8, <1>9 DEF SaveState, Owners, Fresh, TypeOK, Collecting
<1>12. ASSUME NEW q \in Servers, q # p, server[q].at \in Making
       PROVE  /\ server[q].own \in DOMAIN dirs'
              /\ dirs'[server[q].own].name = dirs[server[q].own].name
              /\ dirs'[server[q].own].files = dirs[server[q].own].files
              /\ dirs'[server[q].own].lock = dirs[server[q].own].lock
              /\ r.dir = server[q].own => server[q].at = "runs" /\ r.at = "test"
  <2>1. LiveAt(q) /\ server[q].own \in 1 .. runs /\ server[q].at # "down"
    BY <1>1, <1>12 DEF Live, Owners, Making
  <2> QED
    BY <1>1, <1>4, <1>12, <2>1, <1>6, <1>7, <1>8, <1>9, NobodyAssumption DEF SaveState, Owners, LiveAt, TypeOK
<1>13. \A q \in Servers : q # p /\ server'[q].at \in Making => LiveAt(q)'
  BY <1>2, <1>12, OthersLive
<1>14. LiveAt(p)'
  <2>1. server'[p].own = server[p].own /\ server[p].own \in DOMAIN dirs'
    BY <1>4, <1>5, <1>6, <1>8
  <2>2. dirs'[server[p].own].name = "run" /\ dirs'[server[p].own].files = Made(p)'
    BY <1>4, <1>5, <1>6, <1>7, <1>9 DEF LiveAt, Made, Marks, SaveState
  <2>3. dirs'[server[p].own].lock = IF server'[p].at \in {"locked", "runs"} THEN p ELSE Nobody
    BY <1>4, <1>5, <1>6, <1>7, <1>9 DEF LiveAt, SaveState
  <2>4. \A t \in Servers : server'[t].dir = server'[p].own => server'[p].at = "runs" /\ server'[t].at = "test"
    BY <1>4, <1>5, <1>6 DEF LiveAt, SaveState
  <2> QED
    BY <1>4, <1>5, <1>6, <2>1, <2>2, <2>3, <2>4 DEF LiveAt, SaveState
<1> QED
  BY <1>8, <1>10, <1>11, <1>13, <1>14 DEF IInv, Live

LEMMA UnlockPreserves == ASSUME IInv, NEW p \in Servers, Unlock(p) PROVE IInv'
<1> DEFINE r == [server[p] EXCEPT !.at = "trash"]
<1>1. server[p] \in Server /\ TypeOK /\ Owners /\ Fresh /\ Live /\ DOMAIN dirs \subseteq Nat
  BY DEF IInv, TypeOK
<1>2. server' = [server EXCEPT ![p] = r]
  BY <1>1 DEF Unlock, Goes, TypeOK
<1>3. r \in Server
  BY <1>1 DEF Unlock, Goes, Server, Places, TypeOK, Collecting, Making
<1>4. r.at = "trash" /\ r.own = server[p].own /\ r.dir = server[p].dir
  BY <1>1 DEF Unlock, Goes, Server
<1> HIDE DEF r
<1>5. /\ server' \in [Servers -> Server] /\ server'[p] = r
      /\ \A q \in Servers : q # p => server'[q] = server[q]
  BY <1>1, <1>2, <1>3 DEF TypeOK
<1>6. /\ runs' = runs /\ DOMAIN dirs' = DOMAIN dirs /\ TypeOK'
      /\ \A d \in DOMAIN dirs : /\ dirs'[d].name = dirs[d].name /\ dirs'[d].files = dirs[d].files
                                /\ dirs'[d].lock = IF dirs[d].lock = p THEN Nobody ELSE dirs[d].lock
  <2>1. dirs' = Unlocked(p) /\ runs' = runs
    BY DEF Unlock
  <2> QED
    BY <1>1, <1>5, <2>1, UnlockStep DEF TypeOK
<1>10. Owners'
  BY <1>1, <1>4, <1>5, <1>6 DEF Unlock, Owners, TypeOK
<1>11. Fresh'
  BY <1>1, <1>4, <1>5, <1>6 DEF Unlock, Owners, Fresh, TypeOK, Collecting
<1>12. ASSUME NEW q \in Servers, q # p, server[q].at \in Making
       PROVE  /\ server[q].own \in DOMAIN dirs'
              /\ dirs'[server[q].own].name = dirs[server[q].own].name
              /\ dirs'[server[q].own].files = dirs[server[q].own].files
              /\ dirs'[server[q].own].lock = dirs[server[q].own].lock
              /\ r.dir = server[q].own => server[q].at = "runs" /\ r.at = "test"
  <2>1. LiveAt(q) /\ server[q].own \in 1 .. runs /\ server[q].at # "down"
    BY <1>1, <1>12 DEF Live, Owners, Making
  <2> QED
    BY <1>1, <1>4, <1>12, <2>1, <1>6, NobodyAssumption DEF Unlock, Owners, LiveAt, TypeOK
<1>13. \A q \in Servers : q # p /\ server'[q].at \in Making => LiveAt(q)'
  BY <1>2, <1>12, OthersLive
<1> QED
  BY <1>4, <1>5, <1>6, <1>10, <1>11, <1>13 DEF IInv, Live, Making

LEMMA KillPreserves == ASSUME IInv, NEW p \in Servers, Kill(p) PROVE IInv'
<1> DEFINE r == Down
<1>1. server[p] \in Server /\ TypeOK /\ Owners /\ Fresh /\ Live /\ DOMAIN dirs \subseteq Nat
  BY DEF IInv, TypeOK
<1>2. server' = [server EXCEPT ![p] = r]
  BY <1>1 DEF Kill, Down, TypeOK
<1>3. r \in Server
  BY <1>1 DEF Kill, Down, Server, Places, TypeOK, Collecting, Making
<1>4. r.at = "down" /\ r.own = 0 /\ r.dir = 0
  BY <1>1 DEF Kill, Down, Server
<1> HIDE DEF r
<1>5. /\ server' \in [Servers -> Server] /\ server'[p] = r
      /\ \A q \in Servers : q # p => server'[q] = server[q]
  BY <1>1, <1>2, <1>3 DEF TypeOK
<1>6. /\ runs' = runs /\ DOMAIN dirs' = DOMAIN dirs /\ TypeOK'
      /\ \A d \in DOMAIN dirs : /\ dirs'[d].name = dirs[d].name /\ dirs'[d].files = dirs[d].files
                                /\ dirs'[d].lock = IF dirs[d].lock = p THEN Nobody ELSE dirs[d].lock
  <2>1. dirs' = Unlocked(p) /\ runs' = runs
    BY DEF Kill
  <2> QED
    BY <1>1, <1>5, <2>1, UnlockStep DEF TypeOK
<1>10. Owners'
  BY <1>1, <1>4, <1>5, <1>6 DEF Kill, Owners, TypeOK
<1>11. Fresh'
  BY <1>1, <1>4, <1>5, <1>6 DEF Kill, Owners, Fresh, TypeOK, Collecting
<1>12. ASSUME NEW q \in Servers, q # p, server[q].at \in Making
       PROVE  /\ server[q].own \in DOMAIN dirs'
              /\ dirs'[server[q].own].name = dirs[server[q].own].name
              /\ dirs'[server[q].own].files = dirs[server[q].own].files
              /\ dirs'[server[q].own].lock = dirs[server[q].own].lock
              /\ r.dir = server[q].own => server[q].at = "runs" /\ r.at = "test"
  <2>1. LiveAt(q) /\ server[q].own \in 1 .. runs /\ server[q].at # "down"
    BY <1>1, <1>12 DEF Live, Owners, Making
  <2> QED
    BY <1>1, <1>4, <1>12, <2>1, <1>6, NobodyAssumption DEF Kill, Owners, LiveAt, TypeOK
<1>13. \A q \in Servers : q # p /\ server'[q].at \in Making => LiveAt(q)'
  BY <1>2, <1>12, OthersLive
<1> QED
  BY <1>4, <1>5, <1>6, <1>10, <1>11, <1>13 DEF IInv, Live, Making

(* Back to the iterator: a server that has nothing in its hands disturbs   *)
(* nobody.                                                                 *)
LEMMA CollectsPreserves ==
    ASSUME IInv, NEW p \in Servers, server[p].at \in Collecting, Collects(p), UNCHANGED <<dirs, runs>>
    PROVE  IInv'
<1>1. server[p] \in Server /\ TypeOK /\ Owners /\ Fresh /\ Live /\ DOMAIN dirs \subseteq Nat
  BY DEF IInv, TypeOK
<1> DEFINE r == [server[p] EXCEPT !.at = "collect", !.dir = 0, !.path = "run"]
<1>2. server' = [server EXCEPT ![p] = r]
  BY <1>1 DEF Collects, TypeOK
<1>3. r \in Server
  BY <1>1 DEF Server, Places, Collecting
<1>4. r.at = "collect" /\ r.own = server[p].own /\ r.dir = 0
  BY <1>1 DEF Server
<1> HIDE DEF r
<1>5. /\ server' \in [Servers -> Server] /\ server'[p] = r
      /\ \A q \in Servers : q # p => server'[q] = server[q]
  BY <1>1, <1>2, <1>3 DEF TypeOK
<1>6. dirs' = dirs /\ runs' = runs /\ TypeOK'
  BY <1>1, <1>5 DEF TypeOK
<1>7. runs \in Nat /\ server[p].own \in 1 .. runs
  BY <1>1 DEF Owners, TypeOK, Collecting
<1>10. Owners'
  BY <1>1, <1>4, <1>5, <1>6, <1>7 DEF Owners, Collecting
<1>11. Fresh'
  <2>1. ASSUME NEW q \in Servers, server'[q].at \in Collecting
        PROVE  server'[q].own \notin DOMAIN dirs' /\ \A t \in Servers : server'[t].dir # server'[q].own
    <3>1. server[q].at \in Collecting /\ server'[q].own = server[q].own
      BY <1>4, <1>5, <2>1
    <3>2. server[q].own \in 1 .. runs /\ server[q].own # 0
      BY <1>1, <1>7, <3>1 DEF Owners, Collecting
    <3> QED
      BY <1>1, <1>4, <1>5, <1>6, <3>1, <3>2 DEF Fresh
  <2> QED
    BY <2>1 DEF Fresh
<1>12. ASSUME NEW q \in Servers, q # p, server[q].at \in Making
       PROVE  /\ server[q].own \in DOMAIN dirs'
              /\ dirs'[server[q].own].name = dirs[server[q].own].name
              /\ dirs'[server[q].own].files = dirs[server[q].own].files
              /\ dirs'[server[q].own].lock = dirs[server[q].own].lock
              /\ r.dir = server[q].own => server[q].at = "runs" /\ r.at = "test"
  <2>1. LiveAt(q) /\ server[q].own \in 1 .. runs /\ server[q].at # "down"
    BY <1>1, <1>12 DEF Live, Owners, Making
  <2> QED
    BY <1>4, <1>6, <1>7, <2>1 DEF LiveAt
<1>13. \A q \in Servers : q # p /\ server'[q].at \in Making => LiveAt(q)'
  BY <1>2, <1>12, OthersLive
<1> QED
  BY <1>4, <1>5, <1>6, <1>10, <1>11, <1>13 DEF IInv, Live, Making

(* The iterator goes on, or finds a directory to test.                     *)
LEMMA VisitPreserves == ASSUME IInv, NEW p \in Servers, Visit(p) PROVE IInv'
<1>1. server[p] \in Server /\ TypeOK /\ Owners /\ Fresh /\ Live /\ DOMAIN dirs \subseteq Nat
  BY DEF IInv, TypeOK
<1>2. PICK d \in DOMAIN dirs \ server[p].visited :
         LET passed == [server EXCEPT ![p].visited = @ \union {d}]
         IN server' = IF Looks(d) THEN [passed EXCEPT ![p].at = "test", ![p].dir = d, ![p].path = dirs[d].name]
                      ELSE passed
  BY DEF Visit
<1>3. server[p].at = "collect" /\ dirs' = dirs /\ runs' = runs
  BY DEF Visit
<1>4. d \in Nat /\ dirs[d].name \in {"run", "deleting"} /\ d \in 1 .. runs
  BY <1>1 DEF TypeOK, Dir
<1> DEFINE v == [server[p] EXCEPT !.visited = @ \union {d}]
           r == IF Looks(d) THEN [v EXCEPT !.at = "test", !.dir = d, !.path = dirs[d].name] ELSE v
<1>5. server' = [server EXCEPT ![p] = r]
  BY <1>1, <1>2 DEF TypeOK
<1>6. v \in Server /\ v.at = "collect" /\ v.own = server[p].own /\ v.dir = server[p].dir
  BY <1>1, <1>3, <1>4 DEF Server
<1>7. /\ r \in Server /\ r.own = server[p].own
      /\ \/ r.at = "test" /\ r.dir = d /\ Looks(d)
         \/ r.at = "collect" /\ r.dir = server[p].dir
  <2>1. CASE Looks(d)
    <3>1. r = [v EXCEPT !.at = "test", !.dir = d, !.path = dirs[d].name]
      BY <2>1
    <3> HIDE DEF v
    <3>2. "test" \in Places
      BY DEF Places, Collecting
    <3> HIDE DEF r
    <3> QED
      BY <1>4, <1>6, <2>1, <3>1, <3>2 DEF Server
  <2>2. CASE ~Looks(d)
    BY <1>6, <2>2
  <2> QED
    BY <2>1, <2>2
<1> HIDE DEF r, v
<1>8. /\ server' \in [Servers -> Server] /\ server'[p] = r
      /\ \A q \in Servers : q # p => server'[q] = server[q]
  BY <1>1, <1>5, <1>7 DEF TypeOK
<1>9. TypeOK'
  BY <1>1, <1>3, <1>8 DEF TypeOK
<1>10. Owners'
  BY <1>1, <1>3, <1>4, <1>7, <1>8 DEF Owners, TypeOK
<1>11. Fresh'
  BY <1>1, <1>3, <1>4, <1>7, <1>8 DEF Fresh, Collecting
<1>12. ASSUME NEW q \in Servers, q # p, server[q].at \in Making
       PROVE  /\ server[q].own \in DOMAIN dirs'
              /\ dirs'[server[q].own].name = dirs[server[q].own].name
              /\ dirs'[server[q].own].files = dirs[server[q].own].files
              /\ dirs'[server[q].own].lock = dirs[server[q].own].lock
              /\ r.dir = server[q].own => server[q].at = "runs" /\ r.at = "test"
  <2>1. LiveAt(q)
    BY <1>1, <1>12 DEF Live
  <2>2. ASSUME r.dir = server[q].own PROVE server[q].at = "runs" /\ r.at = "test"
    <3>1. r.dir # server[p].dir
      BY <1>3, <2>1, <2>2 DEF LiveAt
    <3>2. ".owner" \in Made(q) /\ r.at = "test"
      BY <1>7, <2>1, <2>2, <3>1 DEF Looks, LiveAt
    <3> QED
      BY <1>12, <3>2 DEF Made, Making
  <2> QED
    BY <1>3, <2>1, <2>2 DEF LiveAt
<1>13. \A q \in Servers : q # p /\ server'[q].at \in Making => LiveAt(q)'
  BY <1>5, <1>12, OthersLive
<1> QED
  BY <1>7, <1>8, <1>9, <1>10, <1>11, <1>13 DEF IInv, Live, Making

(* Only a directory whose lock nobody holds passes the test: that of a     *)
(* running server does not.                                                *)
LEMMA TestPreserves == ASSUME IInv, NEW p \in Servers, Test(p) PROVE IInv'
<1>1. server[p] \in Server /\ TypeOK /\ Owners /\ Fresh /\ Live /\ DOMAIN dirs \subseteq Nat
  BY DEF IInv, TypeOK
<1>2. server[p].at = "test" /\ runs' = runs
  BY DEF Test
<1>3. CASE Found(p) /\ ".lock" \in dirs[server[p].dir].files /\ dirs[server[p].dir].lock = Nobody
  <2> DEFINE d == server[p].dir
             r == [server[p] EXCEPT !.at = "tested"]
             x == [dirs[d] EXCEPT !.lock = p]
  <2>1. d \in DOMAIN dirs /\ dirs[d] \in Dir /\ dirs[d].lock = Nobody
    BY <1>1, <1>3 DEF Found, TypeOK
  <2>2. server' = [server EXCEPT ![p] = r]
    BY <1>1, <1>3 DEF Test, Goes, TypeOK
  <2>3. dirs' = [dirs EXCEPT ![d] = x]
    BY <1>3, <2>1 DEF Test
  <2>4. r \in Server /\ r.at = "tested" /\ r.own = server[p].own /\ r.dir = d
    BY <1>1 DEF Server, Places, Collecting
  <2>5. x \in Dir
    BY <2>1 DEF Dir
  <2> HIDE DEF r, x
  <2>6. /\ server' \in [Servers -> Server] /\ server'[p] = r
        /\ \A q \in Servers : q # p => server'[q] = server[q]
    BY <1>1, <2>2, <2>4 DEF TypeOK
  <2>7. TypeOK' /\ DOMAIN dirs' = DOMAIN dirs /\ \A y \in DOMAIN dirs : y # d => dirs'[y] = dirs[y]
    <3> HIDE DEF d
    <3> QED
      BY <1>1, <1>2, <2>1, <2>3, <2>5, <2>6, DirStep DEF TypeOK
  <2>8. Owners' /\ Fresh'
    BY <1>1, <1>2, <2>4, <2>6, <2>7 DEF Owners, Fresh, Collecting
  <2>9. ASSUME NEW q \in Servers, q # p, server[q].at \in Making
        PROVE  /\ server[q].own \in DOMAIN dirs'
               /\ dirs'[server[q].own].name = dirs[server[q].own].name
               /\ dirs'[server[q].own].files = dirs[server[q].own].files
               /\ dirs'[server[q].own].lock = dirs[server[q].own].lock
               /\ r.dir = server[q].own => server[q].at = "runs" /\ r.at = "test"
    <3>1. LiveAt(q)
      BY <1>1, <2>9 DEF Live
    <3>2. server[q].own # d
      BY <2>1, <3>1, NobodyAssumption DEF LiveAt
    <3> QED
      BY <2>4, <2>7, <3>1, <3>2 DEF LiveAt
  <2>10. \A q \in Servers : q # p /\ server'[q].at \in Making => LiveAt(q)'
    BY <2>2, <2>9, OthersLive
  <2> QED
    BY <2>4, <2>6, <2>7, <2>8, <2>10 DEF IInv, Live, Making
<1>4. CASE ~(Found(p) /\ ".lock" \in dirs[server[p].dir].files /\ dirs[server[p].dir].lock = Nobody)
  BY <1>2, <1>4, CollectsPreserves DEF Test, Collecting
<1> QED
  BY <1>3, <1>4

(* Who removes a directory has it from the test, or has ended with it: it  *)
(* is that of no running server.                                           *)
LEMMA RemovalPreserves ==
    ASSUME IInv, NEW p \in Servers, server[p].at \in {"remove", "trash"},
           NEW r \in Server, server' = [server EXCEPT ![p] = r], runs' = runs,
           r.at \notin Making, r.at \in Collecting => server[p].at \in Collecting,
           r.at # "down" => r.own = server[p].own,
           r.dir \in {0, server[p].dir},
           dirs' \in [DOMAIN dirs' -> Dir], DOMAIN dirs' \subseteq DOMAIN dirs,
           \A d \in DOMAIN dirs : d # server[p].dir => d \in DOMAIN dirs' /\ dirs'[d] = dirs[d]
    PROVE  IInv'
<1>1. server[p] \in Server /\ TypeOK /\ Owners /\ Fresh /\ Live /\ DOMAIN dirs \subseteq Nat
  BY DEF IInv, TypeOK
<1>2. /\ server' \in [Servers -> Server] /\ server'[p] = r
      /\ \A q \in Servers : q # p => server'[q] = server[q]
  BY <1>1 DEF TypeOK
<1>3. TypeOK'
  BY <1>1, <1>2 DEF TypeOK
<1>4. Owners'
  BY <1>1, <1>2 DEF Owners, TypeOK
<1>5. Fresh'
  <2>1. ASSUME NEW q \in Servers, server'[q].at \in Collecting
        PROVE  server'[q].own \notin DOMAIN dirs' /\ \A t \in Servers : server'[t].dir # server'[q].own
    <3>1. server[q].at \in Collecting /\ server'[q].own = server[q].own
      BY <1>2, <2>1 DEF Collecting
    <3>2. server[q].own # 0
      BY <1>1, <3>1 DEF Owners, Collecting, TypeOK
    <3> QED
      BY <1>1, <1>2, <3>1, <3>2 DEF Fresh
  <2> QED
    BY <2>1 DEF Fresh
<1>6. ASSUME NEW q \in Servers, q # p, server[q].at \in Making
      PROVE  /\ server[q].own \in DOMAIN dirs'
             /\ dirs'[server[q].own].name = dirs[server[q].own].name
             /\ dirs'[server[q].own].files = dirs[server[q].own].files
             /\ dirs'[server[q].own].lock = dirs[server[q].own].lock
             /\ r.dir = server[q].own => server[q].at = "runs" /\ r.at = "test"
  <2>1. LiveAt(q) /\ server[q].own # 0
    BY <1>1, <1>6 DEF Live, Owners, Making, TypeOK
  <2>2. server[q].own # server[p].dir
    BY <2>1 DEF LiveAt
  <2> QED
    BY <2>1, <2>2 DEF LiveAt
<1>7. \A q \in Servers : q # p /\ server'[q].at \in Making => LiveAt(q)'
  BY <1>6, OthersLive
<1> QED
  BY <1>2, <1>3, <1>4, <1>5, <1>7 DEF IInv, Live

LEMMA RemoveOnePreserves == ASSUME IInv, NEW p \in Servers, RemoveOne(p) PROVE IInv'
<1>1. server[p] \in Server /\ TypeOK /\ Owners /\ Fresh /\ Live /\ DOMAIN dirs \subseteq Nat
  BY DEF IInv, TypeOK
<1>2. server[p].at \in {"remove", "trash"} /\ runs' = runs /\ dirs \in [DOMAIN dirs -> Dir]
  BY <1>1 DEF RemoveOne, TypeOK
<1>3. ASSUME Removed(p), dirs' \in [DOMAIN dirs' -> Dir], DOMAIN dirs' \subseteq DOMAIN dirs,
             \A d \in DOMAIN dirs : d # server[p].dir => d \in DOMAIN dirs' /\ dirs'[d] = dirs[d]
      PROVE  IInv'
  <2>1. CASE server[p].at = "remove"
    <3> DEFINE r == [server[p] EXCEPT !.at = "collect", !.dir = 0, !.path = "run"]
    <3>1. server' = [server EXCEPT ![p] = r]
      BY <1>1, <1>3, <2>1 DEF Removed, Collects, TypeOK
    <3>2. r \in Server /\ r.at = "collect" /\ r.own = server[p].own /\ r.dir = 0
      BY <1>1 DEF Server, Places, Collecting
    <3>3. "collect" \notin Making /\ server[p].at \in Collecting
      BY <2>1 DEF Making, Collecting
    <3> HIDE DEF r
    <3> QED
      BY <1>2, <1>3, <3>1, <3>2, <3>3, RemovalPreserves
  <2>2. CASE server[p].at # "remove"
    <3>1. server' = [server EXCEPT ![p] = Down]
      BY <1>3, <2>2 DEF Removed
    <3>2. Down \in Server /\ Down.at = "down" /\ Down.dir = 0
      BY DEF Down, Server, Places
    <3>3. "down" \notin Making /\ "down" \notin Collecting
      BY DEF Making, Collecting
    <3> QED
      BY <1>2, <1>3, <3>1, <3>2, <3>3, RemovalPreserves
  <2> QED
    BY <2>1, <2>2
<1>4. CASE ~Found(p)
  <2>1. Removed(p) /\ dirs' = dirs
    BY <1>4 DEF RemoveOne
  <2> QED
    BY <1>2, <1>3, <2>1
<1>5. CASE Found(p) /\ dirs[server[p].dir].files = {}
  <2>1. Removed(p) /\ dirs' = [x \in DOMAIN dirs \ {server[p].dir} |-> dirs[x]]
    BY <1>5 DEF RemoveOne
  <2>2. /\ dirs' \in [DOMAIN dirs' -> Dir] /\ DOMAIN dirs' \subseteq DOMAIN dirs
        /\ \A d \in DOMAIN dirs : d # server[p].dir => d \in DOMAIN dirs' /\ dirs'[d] = dirs[d]
    BY <1>2, <2>1
  <2> QED
    BY <1>3, <2>1, <2>2
<1>6. CASE Found(p) /\ dirs[server[p].dir].files # {}
  <2>1. PICK file \in dirs[server[p].dir].files :
           dirs' = [dirs EXCEPT ![server[p].dir].files = @ \ {file}]
    BY <1>6 DEF RemoveOne
  <2>2. server' = server /\ server[p].dir \in DOMAIN dirs /\ dirs[server[p].dir] \in Dir
    BY <1>2, <1>6 DEF RemoveOne, Found
  <2> DEFINE x == [dirs[server[p].dir] EXCEPT !.files = @ \ {file}]
  <2>3. x \in Dir
    BY <2>2 DEF Dir
  <2>4. dirs' = [dirs EXCEPT ![server[p].dir] = x]
    BY <2>1
  <2> HIDE DEF x
  <2>5. /\ dirs' \in [DOMAIN dirs' -> Dir] /\ DOMAIN dirs' \subseteq DOMAIN dirs
        /\ \A d \in DOMAIN dirs : d # server[p].dir => d \in DOMAIN dirs' /\ dirs'[d] = dirs[d]
    BY <1>2, <2>2, <2>3, <2>4
  <2>6. server' = [server EXCEPT ![p] = server[p]] /\ server[p].at \notin Making
    BY <1>1, <1>2, <2>2 DEF TypeOK, Making
  <2> QED
    BY <1>1, <1>2, <2>5, <2>6, RemovalPreserves
<1> QED
  BY <1>4, <1>5, <1>6

(* The new directory has a name that nobody knows.                         *)
LEMMA CreatePreserves == ASSUME IInv, NEW p \in Servers, Create(p) PROVE IInv'
<1> DEFINE r == [Down EXCEPT !.at = "created", !.own = server[p].own]
           x == [name |-> "run", files |-> {}, lock |-> Nobody]
<1>1. server[p] \in Server /\ TypeOK /\ Owners /\ Fresh /\ Live /\ DOMAIN dirs \subseteq Nat
  BY DEF IInv, TypeOK
<1>2. server' = [server EXCEPT ![p] = r] /\ server[p].at = "collect" /\ runs' = runs
  BY DEF Create
<1>3. r \in Server
  <2>1. Down \in Server /\ server[p].own \in Nat /\ "created" \in Places
    BY <1>1 DEF Down, Server, Places, Making
  <2> QED
    BY <2>1 DEF Server
<1>4. r.at = "created" /\ r.own = server[p].own /\ r.dir = 0 /\ r.saved = {}
  BY DEF Down
<1> HIDE DEF r
<1>5. /\ server' \in [Servers -> Server] /\ server'[p] = r
      /\ \A q \in Servers : q # p => server'[q] = server[q]
  BY <1>1, <1>2, <1>3 DEF TypeOK
<1>6. /\ DOMAIN dirs' = DOMAIN dirs \union {server[p].own} /\ dirs'[server[p].own] = x
      /\ \A d \in DOMAIN dirs : d # server[p].own => dirs'[d] = dirs[d]
      /\ dirs' = [d \in DOMAIN dirs' |-> dirs'[d]]
  BY DEF Create
<1>7. server[p].own \in 1 .. runs /\ runs \in Nat
  BY <1>1, <1>2 DEF Owners, TypeOK
<1>8. x \in Dir /\ x.name = "run" /\ x.files = {} /\ x.lock = Nobody
  BY DEF Dir
<1> HIDE DEF x
<1>9. TypeOK'
  <2>1. \A d \in DOMAIN dirs' : dirs'[d] \in Dir
    BY <1>1, <1>6, <1>8 DEF TypeOK
  <2>2. dirs' \in [DOMAIN dirs' -> Dir] /\ DOMAIN dirs' \subseteq 1 .. runs'
    BY <1>1, <1>2, <1>6, <1>7, <2>1 DEF TypeOK
  <2> QED
    BY <1>1, <1>2, <1>5, <2>2 DEF TypeOK
<1>10. Owners'
  BY <1>1, <1>2, <1>4, <1>5, <1>7 DEF Owners
<1>11. Fresh'
  <2>1. ASSUME NEW q \in Servers, server'[q].at \in Collecting
        PROVE  server'[q].own \notin DOMAIN dirs' /\ \A t \in Servers : server'[t].dir # server'[q].own
    <3>1. q # p /\ server'[q] = server[q]
      BY <1>4, <1>5, <2>1 DEF Collecting
    <3>2. server[q].own # server[p].own /\ server[q].own # 0
      BY <1>1, <1>2, <1>7, <2>1, <3>1 DEF Owners, Collecting
    <3> QED
      BY <1>1, <1>4, <1>5, <1>6, <2>1, <3>1, <3>2 DEF Fresh
  <2> QED
    BY <2>1 DEF Fresh
<1>12. ASSUME NEW q \in Servers, q # p, server[q].at \in Making
       PROVE  /\ server[q].own \in DOMAIN dirs'
              /\ dirs'[server[q].own].name = dirs[server[q].own].name
              /\ dirs'[server[q].own].files = dirs[server[q].own].files
              /\ dirs'[server[q].own].lock = dirs[server[q].own].lock
              /\ r.dir = server[q].own => server[q].at = "runs" /\ r.at = "test"
  <2>1. LiveAt(q) /\ server[q].own # server[p].own /\ server[q].own # 0
    BY <1>1, <1>2, <1>7, <1>12 DEF Live, Owners, Making
  <2> QED
    BY <1>4, <1>6, <2>1 DEF LiveAt
<1>13. \A q \in Servers : q # p /\ server'[q].at \in Making => LiveAt(q)'
  BY <1>2, <1>12, OthersLive
<1>14. LiveAt(p)'
  <2>1. server'[p].own = server[p].own /\ server[p].own \in DOMAIN dirs' /\ server'[p].at = "created"
    BY <1>4, <1>5, <1>6
  <2>2. dirs'[server[p].own].name = "run" /\ dirs'[server[p].own].files = Made(p)' /\ server'[p].saved = {}
    BY <1>4, <1>5, <1>6, <1>8, <2>1 DEF Made
  <2>3. dirs'[server[p].own].lock = Nobody
    BY <1>6, <1>8
  <2>4. \A t \in Servers : server'[t].dir # server'[p].own
    <3>1. \A t \in Servers : server[t].dir # server[p].own
      BY <1>1, <1>2 DEF Fresh, Collecting
    <3> QED
      BY <1>4, <1>5, <1>7, <3>1
  <2> QED
    BY <2>1, <2>2, <2>3, <2>4 DEF LiveAt
<1> QED
  BY <1>9, <1>10, <1>11, <1>13, <1>14 DEF IInv, Live

LEMMA RenamePreserves == ASSUME IInv, NEW p \in Servers, Rename(p) PROVE IInv'
<1>1. server[p] \in Server /\ TypeOK /\ Owners /\ Fresh /\ Live /\ DOMAIN dirs \subseteq Nat
  BY DEF IInv, TypeOK
<1>2. PICK name \in {"run", "deleting"} :
         /\ dirs' = [dirs EXCEPT ![server[p].own].name = name]
         /\ server' = [server EXCEPT ![p].at = "renamed", ![p].dir = server[p].own, ![p].path = name]
  BY DEF Rename
<1> DEFINE r == [server[p] EXCEPT !.at = "renamed", !.dir = server[p].own, !.path = name]
           x == [dirs[server[p].own] EXCEPT !.name = name]
<1>3. server[p].at = "runs" /\ runs' = runs /\ server[p].own \in DOMAIN dirs /\ dirs[server[p].own] \in Dir
  BY <1>1 DEF Rename, Live, LiveAt, Making, TypeOK
<1>4. r \in Server /\ r.at = "renamed" /\ r.own = server[p].own /\ r.dir = server[p].own
  BY <1>1 DEF Server, Places
<1>5. server' = [server EXCEPT ![p] = r] /\ dirs' = [dirs EXCEPT ![server[p].own] = x] /\ x \in Dir
  BY <1>1, <1>2, <1>3 DEF TypeOK, Dir
<1> HIDE DEF r, x
<1>6. /\ server' \in [Servers -> Server] /\ server'[p] = r
      /\ \A q \in Servers : q # p => server'[q] = server[q]
  BY <1>1, <1>4, <1>5 DEF TypeOK
<1>7. TypeOK' /\ DOMAIN dirs' = DOMAIN dirs
  BY <1>1, <1>3, <1>5, <1>6, DirStep DEF TypeOK
<1>8. server[p].own \in 1 .. runs /\ runs \in Nat
  BY <1>1, <1>3 DEF Owners, TypeOK
<1>9. \A d \in DOMAIN dirs : d # server[p].own => dirs'[d] = dirs[d]
  BY <1>5
<1>10. Owners'
  BY <1>1, <1>3, <1>4, <1>6, <1>8 DEF Owners
<1>11. Fresh'
  <2>1. ASSUME NEW q \in Servers, server'[q].at \in Collecting
        PROVE  server'[q].own \notin DOMAIN dirs' /\ \A t \in Servers : server'[t].dir # server'[q].own
    <3>1. q # p /\ server'[q] = server[q]
      BY <1>4, <1>6, <2>1 DEF Collecting
    <3>2. server[q].own # server[p].own
      BY <1>1, <1>3, <2>1, <3>1 DEF Owners, Collecting
    <3> QED
      BY <1>1, <1>4, <1>6, <1>7, <2>1, <3>1, <3>2 DEF Fresh
  <2> QED
    BY <2>1 DEF Fresh
<1>12. ASSUME NEW q \in Servers, q # p, server[q].at \in Making
       PROVE  /\ server[q].own \in DOMAIN dirs'
              /\ dirs'[server[q].own].name = dirs[server[q].own].name
              /\ dirs'[server[q].own].files = dirs[server[q].own].files
              /\ dirs'[server[q].own].lock = dirs[server[q].own].lock
              /\ r.dir = server[q].own => server[q].at = "runs" /\ r.at = "test"
  <2>1. LiveAt(q) /\ server[q].own # server[p].own
    BY <1>1, <1>3, <1>12 DEF Live, Owners, Making
  <2> QED
    BY <1>4, <1>7, <1>9, <2>1 DEF LiveAt
<1>13. \A q \in Servers : q # p /\ server'[q].at \in Making => LiveAt(q)'
  BY <1>5, <1>12, OthersLive
<1> QED
  BY <1>4, <1>6, <1>7, <1>10, <1>11, <1>13 DEF IInv, Live, Making

LEMMA NextPreserves == IInv /\ [DirNext]_dirVars => IInv'
<1> SUFFICES ASSUME IInv, [DirNext]_dirVars PROVE IInv'
  OBVIOUS
<1>1. CASE UNCHANGED dirVars
  <2>1. dirs' = dirs /\ server' = server /\ runs' = runs
    BY <1>1 DEF dirVars
  <2>2. TypeOK' /\ Owners' /\ Fresh'
    BY <2>1 DEF IInv, TypeOK, Owners, Fresh
  <2>3. ASSUME NEW q \in Servers, server[q].at \in Making PROVE LiveAt(q)'
    <3>1. LiveAt(q) /\ Made(q)' = Made(q)
      BY <2>1, <2>3 DEF IInv, Live, Made
    <3> QED
      BY <2>1, <3>1 DEF LiveAt
  <2> QED
    BY <2>1, <2>2, <2>3 DEF IInv, Live
<1>2. CASE DirNext
  <2>1. PICK p \in Servers :
           \/ Start(p) \/ Cleans(p) \/ Create(p) \/ OpenLock(p) \/ Lock(p) \/ Publish(p)
           \/ SaveState(p) \/ Rename(p) \/ Unlock(p) \/ Kill(p)
    BY <1>2 DEF DirNext
  <2>2. CASE Cleans(p)
    BY <2>2, VisitPreserves, TestPreserves, UntestPreserves, RemoveOnePreserves DEF Cleans
  <2>3. CASE Start(p)
    BY <2>3, StartPreserves
  <2>4. CASE Create(p)
    BY <2>4, CreatePreserves
  <2>5. CASE OpenLock(p)
    BY <2>5, OpenLockPreserves
  <2>6. CASE Lock(p)
    BY <2>6, LockPreserves
  <2>7. CASE Publish(p)
    BY <2>7, PublishPreserves
  <2>8. CASE SaveState(p)
    BY <2>8, SaveStatePreserves
  <2>9. CASE Rename(p)
    BY <2>9, RenamePreserves
  <2>10. CASE Unlock(p)
    BY <2>10, UnlockPreserves
  <2>11. CASE Kill(p)
    BY <2>11, KillPreserves
  <2> QED
    BY <2>1, <2>2, <2>3, <2>4, <2>5, <2>6, <2>7, <2>8, <2>9, <2>10, <2>11
<1> QED
  BY <1>1, <1>2

LEMMA InvariantKeeps == IInv => LiveDirectoryKept
<1> SUFFICES ASSUME IInv, NEW p \in Servers, server[p].at = "runs"
             PROVE  /\ server[p].own \in DOMAIN dirs
                    /\ dirs[server[p].own] = [name |-> "run", lock |-> p, files |-> Marks \union server[p].saved]
  BY DEF LiveDirectoryKept
<1>1. LiveAt(p) /\ Made(p) = Marks \union server[p].saved
  BY DEF IInv, Live, Making, Made
<1>2. dirs[server[p].own] \in Dir
  BY <1>1 DEF IInv, TypeOK, LiveAt
<1> QED
  BY <1>1, <1>2 DEF LiveAt, Dir

(* However many servers start, end and are killed over one cache root, and *)
(* however long ago an iterator passed a directory, none of them removes   *)
(* anything from the directory of a server that runs.                      *)
THEOREM RunningKept == DirSpec => []LiveDirectoryKept
<1>1. DirSpec => []IInv
  BY InitEstablishes, NextPreserves, PTL DEF DirSpec
<1> QED
  BY <1>1, InvariantKeeps, PTL
=============================================================================
