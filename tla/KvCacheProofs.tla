---------------------------- MODULE KvCacheProofs ----------------------------
(***************************************************************************)
(* The attention memory without a window and with one completion for each  *)
(* prompt, for any number of slots and cells, any batches and any prompts. *)
(* What the memory promises is not inductive.  The invariant says that the *)
(* cells of a slot hold the first tokens of its prompt, each in one cell,  *)
(* computed for the position it will have once the pending shift is done,  *)
(* that the batch brings the rest of the prompt in order, and that what    *)
(* the cache in RAM holds are whole prompts.  A step is followed through   *)
(* what it calls: the ubatches bring every token of the batch once, each   *)
(* finds a free cell of its own, the trials of prepare give every cell     *)
(* back, and seq_rm, seq_add, an update and a restore change the cells of  *)
(* one sequence only.                                                      *)
(***************************************************************************)
EXTENDS KvCache, SequenceFacts

(* What the theorems ask of the configurations, and what the lemmas ask of  *)
(* the one at hand.                                                        *)
FullAttention == \A x \in Modes : x.window = 0 /\ ~x.several
Plain == mode \in Modes /\ mode.window = 0 /\ ~mode.several

CellsOf(x) == 0 .. x.cells - 1
StreamIn(x, s) == IF x.unified THEN 0 ELSE s
Cell == [pos : Int, seqs : SUBSET KvSeqs, shift : Int]
Row == [token : Int, at : Int]
Memory(x) == [cells : [KvSeqs -> [CellsOf(x) -> Cell]], rows : [KvSeqs -> [CellsOf(x) -> Row]],
              head : [KvSeqs -> Nat], copies : {<<>>}]
Token == [seq : KvSeqs, pos : Nat, token : Int]
Slot == [state : {"idle", "start", "done", "gen"}, prompt : Seq(Int), text : Seq(Int), boss : {Unrelated}]

\* A cell is free, or one sequence of its stream holds it.
Owned(x, m) ==
    \A st \in KvSeqs, i \in CellsOf(x) :
       \/ m.cells[st][i] = Free
       \/ m.cells[st][i].pos >= 0 /\ \E s \in KvSeqs : m.cells[st][i].seqs = {s} /\ StreamIn(x, s) = st

HeldBy(x, m, s) == {i \in CellsOf(x) : s \in m.cells[StreamIn(x, s)][i].seqs}

\* The sequence holds the first n tokens of the prompt, each in one cell.
Held(x, m, s, prompt, n) ==
    /\ \A i \in HeldBy(x, m, s) :
          LET c == m.cells[StreamIn(x, s)][i]
              r == m.rows[StreamIn(x, s)][i]
          IN c.pos \in 0 .. n - 1 /\ r.token = prompt[c.pos + 1] /\ r.at + c.shift = c.pos
    /\ \A i, j \in HeldBy(x, m, s) :
          m.cells[StreamIn(x, s)][i].pos = m.cells[StreamIn(x, s)][j].pos => i = j
    /\ \A q \in 0 .. n - 1 : \E i \in HeldBy(x, m, s) : m.cells[StreamIn(x, s)][i].pos = q

\* The batch brings the rest of it, in order.
Batched(b, s, prompt, n) ==
    /\ \A k \in DOMAIN b : b[k].seq = s =>
          n <= b[k].pos /\ b[k].pos < Len(prompt) /\ b[k].token = prompt[b[k].pos + 1]
    /\ \A q \in n .. Len(prompt) - 1 : \E k \in DOMAIN b : b[k].seq = s /\ b[k].pos = q
    /\ \A j, k \in DOMAIN b : j < k /\ b[j].seq = s /\ b[k].seq = s => b[j].pos < b[k].pos

InBatch(b, s) == \E k \in DOMAIN b : b[k].seq = s
Whole(x, m, s, prompt, b) == \E n \in 0 .. Len(prompt) : Held(x, m, s, prompt, n) /\ Batched(b, s, prompt, n)
Unshifted(x, m, s) == \A i \in HeldBy(x, m, s) : m.cells[StreamIn(x, s)][i].shift = 0

\* What the cache in RAM holds is a whole prompt, as it was computed.
TrueEntry(x, e) ==
    /\ Len(e.tokens) <= x.context
    /\ \A k \in DOMAIN e.cells :
          e.cells[k].pos < Len(e.tokens) /\ e.cells[k].row = [token |-> e.tokens[e.cells[k].pos + 1], at |-> e.cells[k].pos]
    /\ \A j, k \in DOMAIN e.cells : e.cells[j].pos = e.cells[k].pos => j = k
    /\ \A q \in 0 .. Len(e.tokens) - 1 : \E k \in DOMAIN e.cells : e.cells[k].pos = q
Entries(x) == {e \in [tokens : Seq(Int), cells : Seq([pos : Nat, row : Row])] : TrueEntry(x, e)}

Good(x, m, slot, b, n, list, wrong) ==
    /\ x \in Modes /\ m \in Memory(x) /\ Owned(x, m)
    /\ slot \in [KvSeqs -> Slot] /\ b \in Seq(Token) /\ n \in Nat \ {0} /\ list \subseteq Entries(x) /\ wrong = FALSE
    /\ \A s \in KvSeqs :
          /\ Whole(x, m, s, slot[s].prompt, b) /\ Len(slot[s].prompt) <= x.context
          /\ slot[s].state = "start" => slot[s].text \in Texts
          /\ slot[s].state \in {"idle", "start"} => ~InBatch(b, s)
          /\ InBatch(b, s) \/ Unshifted(x, m, s)

KvInv == Good(mode, kv, kvSlot, kvBatch, nBatch, kvSaved, blind)

-----------------------------------------------------------------------------
\* What the parameters and the configuration are.
LEMMA Facts ==
    ASSUME Plain
    PROVE  /\ KvSeqs \subseteq Nat /\ 0 \in KvSeqs /\ IsFiniteSet(KvSeqs)
           /\ mode.cells \in Nat \ {0} /\ mode.context \in Nat /\ mode.unified \in BOOLEAN
           /\ KvCells = CellsOf(mode) /\ All = mode.context + 1
           /\ \A s \in KvSeqs : StreamOf(s) = StreamIn(mode, s) /\ StreamIn(mode, s) \in KvSeqs
           /\ \A s \in KvSeqs : \A m : Holding(m, s) = HeldBy(mode, m, s)
           /\ \A p, q : ~Masked(p, q)
           /\ UBatch \in Nat \ {0} /\ FullBatch \in Nat \ {0} /\ NKeep \in Nat
<1>1. mode \in [unified : BOOLEAN, window : Nat, several : BOOLEAN, shifts : BOOLEAN, ram : BOOLEAN,
                repeats : BOOLEAN, cells : Nat \ {0}, context : Nat]
  BY KvAssumption DEF Plain
<1>2. KvSeqs \subseteq Nat /\ 0 \in KvSeqs /\ IsFiniteSet(KvSeqs)
  <2>1. IsFiniteSet(KvSeqs) /\ KvSeqs # {} /\ KvSeqs = 0 .. Cardinality(KvSeqs) - 1
    BY KvAssumption DEF Plain
  <2>2. Cardinality(KvSeqs) \in Nat
    BY <2>1, FS_CardinalityType
  <2> DEFINE N == Cardinality(KvSeqs)
  <2>3. KvSeqs = 0 .. N - 1 /\ N \in Nat
    BY <2>1, <2>2
  <2> HIDE DEF N
  <2>4. QED
    BY <2>1, <2>3
<1>3. KvCells = CellsOf(mode) /\ All = mode.context + 1
  BY DEF KvCells, CellsOf, All
<1>4. \A s \in KvSeqs : StreamOf(s) = StreamIn(mode, s) /\ StreamIn(mode, s) \in KvSeqs
  BY <1>2 DEF StreamOf, StreamIn
<1>5. \A s \in KvSeqs : \A m : Holding(m, s) = HeldBy(mode, m, s)
  BY <1>3, <1>4 DEF Holding, HeldBy
<1>6. \A p, q : ~Masked(p, q)
  <2>1. mode.window = 0
    BY DEF Plain
  <2>2. QED
    BY <2>1 DEF Masked
<1>7. UBatch \in Nat \ {0} /\ FullBatch \in Nat \ {0} /\ NKeep \in Nat
  BY KvAssumption DEF Plain
<1>8. QED
  BY <1>1, <1>2, <1>3, <1>4, <1>5, <1>6, <1>7

\* The free cell and the empty row.
LEMMA FreeCell == Free \in Cell /\ NoRow \in Row /\ Free.pos = -1 /\ Free.seqs = {} /\ Free.shift = 0
BY DEF Free, NoRow, Cell, Row

\* A memory and what its parts are.
LEMMA MemoryParts ==
    ASSUME NEW x \in Modes, NEW m \in Memory(x)
    PROVE  /\ \A st \in KvSeqs, i \in CellsOf(x) :
                 /\ m.cells[st][i] \in Cell /\ m.cells[st][i].pos \in Int /\ m.cells[st][i].shift \in Int
                 /\ m.cells[st][i].seqs \in SUBSET KvSeqs
                 /\ m.rows[st][i] \in Row /\ m.rows[st][i].token \in Int /\ m.rows[st][i].at \in Int
           /\ \A st \in KvSeqs : m.head[st] \in Nat /\ m.cells[st] \in [CellsOf(x) -> Cell]
                                 /\ m.rows[st] \in [CellsOf(x) -> Row]
           /\ m.cells \in [KvSeqs -> [CellsOf(x) -> Cell]] /\ m.rows \in [KvSeqs -> [CellsOf(x) -> Row]]
           /\ m.head \in [KvSeqs -> Nat] /\ m.copies = <<>>
<1>1. /\ m.cells \in [KvSeqs -> [CellsOf(x) -> Cell]] /\ m.rows \in [KvSeqs -> [CellsOf(x) -> Row]]
      /\ m.head \in [KvSeqs -> Nat] /\ m.copies = <<>>
  BY DEF Memory
<1>2. ASSUME NEW st \in KvSeqs, NEW i \in CellsOf(x)
      PROVE  m.cells[st][i] \in Cell /\ m.rows[st][i] \in Row
  BY <1>1
<1>3. \A c \in Cell : c.pos \in Int /\ c.shift \in Int /\ c.seqs \in SUBSET KvSeqs
  BY DEF Cell
<1>4. \A r \in Row : r.token \in Int /\ r.at \in Int
  BY DEF Row
<1>5. \A st \in KvSeqs : m.head[st] \in Nat /\ m.cells[st] \in [CellsOf(x) -> Cell]
                         /\ m.rows[st] \in [CellsOf(x) -> Row]
  BY <1>1
<1>6. QED
  BY <1>1, <1>2, <1>3, <1>4, <1>5

\* The cells of two sequences are not the same.
LEMMA HeldApart ==
    ASSUME NEW x \in Modes, NEW m \in Memory(x), Owned(x, m), NEW s \in KvSeqs, StreamIn(x, s) \in KvSeqs
    PROVE  \A i \in HeldBy(x, m, s) :
              /\ i \in CellsOf(x) /\ m.cells[StreamIn(x, s)][i].seqs = {s} /\ m.cells[StreamIn(x, s)][i] # Free
              /\ m.cells[StreamIn(x, s)][i].pos >= 0
              /\ \A t \in KvSeqs : StreamIn(x, t) = StreamIn(x, s) /\ i \in HeldBy(x, m, t) => t = s
<1> TAKE i \in HeldBy(x, m, s)
<1>1. i \in CellsOf(x) /\ s \in m.cells[StreamIn(x, s)][i].seqs
  BY DEF HeldBy
<1>2. m.cells[StreamIn(x, s)][i] # Free
  BY <1>1, FreeCell
<1>3. /\ m.cells[StreamIn(x, s)][i].pos >= 0
      /\ \E t \in KvSeqs : m.cells[StreamIn(x, s)][i].seqs = {t} /\ StreamIn(x, t) = StreamIn(x, s)
  BY <1>1, <1>2 DEF Owned
<1>4. m.cells[StreamIn(x, s)][i].seqs = {s}
  BY <1>1, <1>3
<1>5. \A t \in KvSeqs : StreamIn(x, t) = StreamIn(x, s) /\ i \in HeldBy(x, m, t) => t = s
  BY <1>4 DEF HeldBy
<1>6. QED
  BY <1>1, <1>2, <1>3, <1>4, <1>5

\* A sequence that has the same cells and rows holds the same.
SameOf(x, m, new, s) ==
    /\ HeldBy(x, new, s) = HeldBy(x, m, s)
    /\ \A i \in HeldBy(x, m, s) : /\ new.cells[StreamIn(x, s)][i] = m.cells[StreamIn(x, s)][i]
                                  /\ new.rows[StreamIn(x, s)][i] = m.rows[StreamIn(x, s)][i]

\* It holds the same prompts.
LEMMA SameHeld ==
    ASSUME NEW x, NEW m, NEW new, NEW s, SameOf(x, m, new, s)
    PROVE  /\ \A prompt, n : Held(x, m, s, prompt, n) => Held(x, new, s, prompt, n)
           /\ \A prompt, b : Whole(x, m, s, prompt, b) => Whole(x, new, s, prompt, b)
           /\ Unshifted(x, m, s) => Unshifted(x, new, s)
<1>1. ASSUME NEW prompt, NEW n, Held(x, m, s, prompt, n) PROVE Held(x, new, s, prompt, n)
  <2> DEFINE H == HeldBy(x, new, s)
             st == StreamIn(x, s)
  <2>1. H = HeldBy(x, m, s) /\ \A i \in H : new.cells[st][i] = m.cells[st][i] /\ new.rows[st][i] = m.rows[st][i]
    BY DEF SameOf
  <2>2. /\ \A i \in H : /\ m.cells[st][i].pos \in 0 .. n - 1
                       /\ m.rows[st][i].token = prompt[m.cells[st][i].pos + 1]
                       /\ m.rows[st][i].at + m.cells[st][i].shift = m.cells[st][i].pos
        /\ \A i, j \in H : m.cells[st][i].pos = m.cells[st][j].pos => i = j
        /\ \A q \in 0 .. n - 1 : \E i \in H : m.cells[st][i].pos = q
    BY <1>1, <2>1 DEF Held
  <2>3. /\ \A i \in H : /\ new.cells[st][i].pos \in 0 .. n - 1
                       /\ new.rows[st][i].token = prompt[new.cells[st][i].pos + 1]
                       /\ new.rows[st][i].at + new.cells[st][i].shift = new.cells[st][i].pos
        /\ \A i, j \in H : new.cells[st][i].pos = new.cells[st][j].pos => i = j
        /\ \A q \in 0 .. n - 1 : \E i \in H : new.cells[st][i].pos = q
    <3> HIDE DEF H, st
    <3>1. ASSUME NEW i \in H
          PROVE  /\ new.cells[st][i].pos \in 0 .. n - 1
                 /\ new.rows[st][i].token = prompt[new.cells[st][i].pos + 1]
                 /\ new.rows[st][i].at + new.cells[st][i].shift = new.cells[st][i].pos
      BY <2>1, <2>2
    <3>2. \A i, j \in H : new.cells[st][i].pos = new.cells[st][j].pos => i = j
      BY <2>1, <2>2
    <3>3. ASSUME NEW q \in 0 .. n - 1 PROVE \E i \in H : new.cells[st][i].pos = q
      BY <2>1, <2>2
    <3>4. QED
      BY <3>1, <3>2, <3>3
  <2>4. QED
    BY <2>3 DEF Held
<1>2. \A prompt, b : Whole(x, m, s, prompt, b) => Whole(x, new, s, prompt, b)
  BY <1>1 DEF Whole
<1>3. Unshifted(x, m, s) => Unshifted(x, new, s)
  BY DEF SameOf, Unshifted
<1>4. QED
  BY <1>1, <1>2, <1>3

-----------------------------------------------------------------------------
\* A removal frees some of the cells.
Drops(x, m, new, gone) ==
    /\ new \in Memory(x) /\ new.rows = m.rows
    /\ \A st \in KvSeqs, i \in CellsOf(x) :
          new.cells[st][i] = IF <<st, i>> \in gone THEN Free ELSE m.cells[st][i]

\* A removal leaves each cell to one sequence at most.
LEMMA DropOwned ==
    ASSUME NEW x, NEW m, NEW new, NEW gone, Drops(x, m, new, gone), Owned(x, m)
    PROVE  Owned(x, new)
<1> SUFFICES ASSUME NEW st \in KvSeqs, NEW i \in CellsOf(x)
             PROVE  \/ new.cells[st][i] = Free
                    \/ new.cells[st][i].pos >= 0
                       /\ \E s \in KvSeqs : new.cells[st][i].seqs = {s} /\ StreamIn(x, s) = st
  BY DEF Owned
<1>1. new.cells[st][i] = Free \/ new.cells[st][i] = m.cells[st][i]
  BY DEF Drops
<1>2. \/ m.cells[st][i] = Free
      \/ m.cells[st][i].pos >= 0 /\ \E s \in KvSeqs : m.cells[st][i].seqs = {s} /\ StreamIn(x, s) = st
  BY DEF Owned
<1>3. QED
  BY <1>1, <1>2

\* A sequence that loses its positions from k on holds the ones before.
LEMMA DropHeld ==
    ASSUME NEW x \in Modes, NEW m \in Memory(x), NEW new, NEW gone, Drops(x, m, new, gone),
           NEW s \in KvSeqs, StreamIn(x, s) \in KvSeqs, NEW prompt, NEW n \in Nat, NEW k \in Nat,
           Held(x, m, s, prompt, n),
           \A i \in HeldBy(x, m, s) : <<StreamIn(x, s), i>> \in gone <=> m.cells[StreamIn(x, s)][i].pos >= k
    PROVE  /\ Held(x, new, s, prompt, IF k < n THEN k ELSE n)
           /\ Unshifted(x, m, s) => Unshifted(x, new, s)
           /\ k >= n => SameOf(x, m, new, s)
<1> DEFINE st == StreamIn(x, s)
<1>1. ASSUME NEW i \in CellsOf(x)
      PROVE  /\ i \in HeldBy(x, new, s) <=> i \in HeldBy(x, m, s) /\ m.cells[st][i].pos < k
             /\ i \in HeldBy(x, new, s) => new.cells[st][i] = m.cells[st][i] /\ new.rows[st][i] = m.rows[st][i]
  <2>1. new.cells[st][i] = IF <<st, i>> \in gone THEN Free ELSE m.cells[st][i]
    BY DEF Drops
  <2>2. m.cells[st][i].pos \in Int
    BY MemoryParts
  <2>3. CASE i \in HeldBy(x, m, s)
    <3>1. <<st, i>> \in gone <=> m.cells[st][i].pos >= k
      BY <2>3
    <3>2. QED
      BY <2>1, <2>2, <2>3, <3>1, FreeCell DEF HeldBy, Drops
  <2>4. CASE i \notin HeldBy(x, m, s)
    BY <2>1, <2>4, FreeCell DEF HeldBy
  <2>5. QED
    BY <2>3, <2>4
<1>2. \A i : i \in HeldBy(x, new, s) \/ i \in HeldBy(x, m, s) => i \in CellsOf(x)
  BY DEF HeldBy
<1>3. \A i \in HeldBy(x, m, s) : m.cells[st][i].pos \in 0 .. n - 1
  BY DEF Held
<1> DEFINE u == IF k < n THEN k ELSE n
<1>4. \A i \in HeldBy(x, new, s) : i \in HeldBy(x, m, s) /\ new.cells[st][i] = m.cells[st][i] /\ new.rows[st][i] = m.rows[st][i]
                                   /\ m.cells[st][i].pos \in 0 .. u - 1
  BY <1>1, <1>2, <1>3
<1>5. \A i \in HeldBy(x, m, s) : m.cells[st][i].pos < k => i \in HeldBy(x, new, s) /\ new.cells[st][i] = m.cells[st][i]
  BY <1>1, <1>2
<1>6. u \in Nat /\ u <= n /\ u <= k
  OBVIOUS
<1> HIDE DEF u
<1>7. Held(x, new, s, prompt, u)
  <2>1. \A i \in HeldBy(x, new, s) :
           LET c == new.cells[st][i]
               r == new.rows[st][i]
           IN c.pos \in 0 .. u - 1 /\ r.token = prompt[c.pos + 1] /\ r.at + c.shift = c.pos
    BY <1>4 DEF Held
  <2>2. \A i, j \in HeldBy(x, new, s) : new.cells[st][i].pos = new.cells[st][j].pos => i = j
    BY <1>4 DEF Held
  <2>3. ASSUME NEW q \in 0 .. u - 1 PROVE \E i \in HeldBy(x, new, s) : new.cells[st][i].pos = q
    <3>1. q \in 0 .. n - 1 /\ q < k
      BY <1>6
    <3>2. PICK i \in HeldBy(x, m, s) : m.cells[st][i].pos = q
      BY <3>1 DEF Held
    <3>3. QED
      BY <1>5, <3>1, <3>2
  <2>4. QED
    BY <2>1, <2>2, <2>3 DEF Held
<1>8. Unshifted(x, m, s) => Unshifted(x, new, s)
  BY <1>4 DEF Unshifted
<1>9. k >= n => SameOf(x, m, new, s)
  <2>1. ASSUME k >= n PROVE SameOf(x, m, new, s)
    <3>1. \A i \in HeldBy(x, m, s) : m.cells[st][i].pos < k
      BY <1>3, <2>1
    <3>2. HeldBy(x, new, s) = HeldBy(x, m, s)
      BY <1>4, <1>5, <3>1
    <3>3. QED
      BY <1>4, <3>2 DEF SameOf
  <2>2. QED
    BY <2>1
<1>10. QED
  BY <1>7, <1>8, <1>9 DEF u

\* What seq_rm frees.
RangeOf(x, m, s, p0, p1) ==
    {<<StreamIn(x, s), i>> : i \in {j \in HeldBy(x, m, s) : m.cells[StreamIn(x, s)][j].pos \in p0 .. p1 - 1}}

\* A search starts at a cell number after a removal too.
LEMMA SmallestHead ==
    ASSUME NEW h \in Nat, NEW F \in SUBSET Nat
    PROVE  Min({h} \union F) \in Nat
<1> DEFINE S == {h} \union F
<1>1. S \in SUBSET Nat /\ S # {}
  OBVIOUS
<1> HIDE DEF S
<1>2. Min(S) \in Nat
  BY <1>1, SmallestExists
<1>3. QED
  BY <1>2 DEF S

\* seq_rm frees the cells of its sequence in the range.
LEMMA SeqRmDrops ==
    ASSUME Plain, NEW m \in Memory(mode), Owned(mode, m), NEW s \in KvSeqs, NEW p0 \in Int, NEW p1 \in Int
    PROVE  Drops(mode, m, SeqRmRange(m, s, p0, p1), RangeOf(mode, m, s, p0, p1))
<1> DEFINE st == StreamOf(s)
           hit == {i \in Holding(m, s) : m.cells[st][i].pos \in p0 .. p1 - 1}
           freed == {i \in hit : m.cells[st][i].seqs = {s}}
           row == [i \in KvCells |-> IF i \in freed THEN Free
                                     ELSE IF i \in hit THEN WithoutSeq(m.cells[st][i], s)
                                     ELSE m.cells[st][i]]
           head == Min({m.head[st]} \union freed)
           new == [m EXCEPT !.cells[st] = row, !.head[st] = head]
<1>1. SeqRmRange(m, s, p0, p1) = new
  BY DEF SeqRmRange, Memory
<1>2. st = StreamIn(mode, s) /\ st \in KvSeqs /\ KvCells = CellsOf(mode) /\ Holding(m, s) = HeldBy(mode, m, s)
  BY Facts
<1>3. \A i \in HeldBy(mode, m, s) : m.cells[st][i].seqs = {s} /\ i \in CellsOf(mode)
  BY <1>2, HeldApart DEF Plain
<1>4. freed = hit /\ hit \subseteq CellsOf(mode)
  BY <1>2, <1>3
<1>5. hit = {j \in HeldBy(mode, m, s) : m.cells[st][j].pos \in p0 .. p1 - 1}
  BY <1>2
<1> DEFINE gone == RangeOf(mode, m, s, p0, p1)
<1>6. gone = {<<st, i>> : i \in hit}
  BY <1>2, <1>5 DEF RangeOf
<1> HIDE DEF hit, gone
<1>7. row = [i \in CellsOf(mode) |-> IF i \in hit THEN Free ELSE m.cells[st][i]]
  BY <1>2, <1>4
<1>8. mode \in Modes
  BY DEF Plain
<1>9. head \in Nat
  <2> HIDE DEF freed
  <2>1. freed \in SUBSET Nat /\ m.head[st] \in Nat
    BY <1>2, <1>4, <1>8, MemoryParts DEF CellsOf
  <2>2. QED
    BY <2>1, SmallestHead
<1> HIDE DEF row, head, freed
<1>10. row \in [CellsOf(mode) -> Cell]
  BY <1>2, <1>7, <1>8, MemoryParts, FreeCell
<1>11. /\ new \in Memory(mode) /\ new.rows = m.rows /\ new.cells[st] = row
       /\ \A u \in KvSeqs : u # st => new.cells[u] = m.cells[u]
  BY <1>2, <1>9, <1>10 DEF Memory
<1> HIDE DEF new
<1>12. ASSUME NEW u \in KvSeqs, NEW i \in CellsOf(mode)
       PROVE  new.cells[u][i] = IF <<u, i>> \in gone THEN Free ELSE m.cells[u][i]
  <2>1. CASE u = st
    BY <1>6, <1>7, <1>11, <2>1
  <2>2. CASE u # st
    BY <1>6, <1>11, <2>2
  <2>3. QED
    BY <2>1, <2>2
<1>13. QED
  BY <1>1, <1>11, <1>12 DEF Drops, gone

\* What goes when each sequence is cut at a position of its own.
CutAt(x, m, from) ==
    UNION {{<<StreamIn(x, s), i>> : i \in {j \in HeldBy(x, m, s) : m.cells[StreamIn(x, s)][j].pos >= from[s]}} :
           s \in KvSeqs}

\* Cutting every sequence at a position of its own frees what is behind it.
LEMMA SeqRmFromDrops ==
    ASSUME Plain, NEW m \in Memory(mode), Owned(mode, m), NEW from \in [KvSeqs -> Int]
    PROVE  Drops(mode, m, SeqRmFrom(m, from), CutAt(mode, m, from))
<1> DEFINE left(c) == {s \in c.seqs : c.pos < from[s]}
           freed(st) == {i \in KvCells : m.cells[st][i].seqs # {} /\ left(m.cells[st][i]) = {}}
           cells == [st \in KvSeqs |-> [i \in KvCells |->
                        IF i \in freed(st) THEN Free
                        ELSE [m.cells[st][i] EXCEPT !.seqs = left(m.cells[st][i])]]]
           head == [st \in KvSeqs |-> Min({m.head[st]} \union freed(st))]
           new == [m EXCEPT !.cells = cells, !.head = head]
           gone == CutAt(mode, m, from)
<1>1. SeqRmFrom(m, from) = new
  BY DEF SeqRmFrom
<1>2. KvCells = CellsOf(mode) /\ mode \in Modes /\ \A s \in KvSeqs : StreamIn(mode, s) \in KvSeqs
  BY Facts DEF Plain
<1>3. ASSUME NEW st \in KvSeqs, NEW i \in CellsOf(mode)
      PROVE  cells[st][i] = IF <<st, i>> \in gone THEN Free ELSE m.cells[st][i]
  <2> DEFINE c == m.cells[st][i]
  <2>1. c \in Cell /\ c.pos \in Int
    BY <1>2, MemoryParts
  <2>2. cells[st][i] = IF i \in freed(st) THEN Free ELSE [c EXCEPT !.seqs = left(c)]
    BY <1>2
  <2>3. i \in freed(st) <=> c.seqs # {} /\ left(c) = {}
    BY <1>2
  <2>4. <<st, i>> \in gone <=> \E s \in KvSeqs : StreamIn(mode, s) = st /\ s \in c.seqs /\ c.pos >= from[s]
    BY DEF CutAt, HeldBy
  <2> HIDE DEF freed, cells, gone
  <2>5. CASE c = Free
    <3>1. c.seqs = {} /\ left(c) = {} /\ [c EXCEPT !.seqs = {}] = c
      BY <2>1, <2>5, FreeCell DEF Cell
    <3>2. QED
      BY <2>2, <2>3, <2>4, <3>1
  <2>6. CASE c # Free
    <3>1. PICK s \in KvSeqs : c.seqs = {s} /\ StreamIn(mode, s) = st
      BY <2>6 DEF Owned
    <3>2. <<st, i>> \in gone <=> c.pos >= from[s]
      BY <2>4, <3>1
    <3>3. CASE c.pos < from[s]
      <4>1. left(c) = c.seqs /\ [c EXCEPT !.seqs = c.seqs] = c
        BY <2>1, <3>1, <3>3 DEF Cell
      <4>2. from[s] \in Int
        OBVIOUS
      <4>3. <<st, i>> \notin gone
        BY <2>1, <3>2, <3>3, <4>2
      <4>4. i \notin freed(st)
        BY <2>3, <3>1, <4>1
      <4>5. QED
        BY <2>2, <4>1, <4>3, <4>4
    <3>4. CASE ~(c.pos < from[s])
      <4>1. left(c) = {} /\ from[s] \in Int
        BY <3>1, <3>4
      <4>2. <<st, i>> \in gone
        BY <2>1, <3>2, <3>4, <4>1
      <4>3. i \in freed(st)
        BY <2>3, <3>1, <4>1
      <4>4. QED
        BY <2>2, <4>2, <4>3
    <3>5. QED
      BY <3>3, <3>4
  <2>7. QED
    BY <2>5, <2>6
<1>4. head \in [KvSeqs -> Nat]
  <2>1. ASSUME NEW st \in KvSeqs PROVE Min({m.head[st]} \union freed(st)) \in Nat
    <3>1. freed(st) \in SUBSET Nat /\ m.head[st] \in Nat
      BY <1>2, MemoryParts DEF CellsOf
    <3> HIDE DEF freed
    <3>2. QED
      BY <3>1, SmallestHead
  <2>2. QED
    BY <2>1
<1>5. cells \in [KvSeqs -> [CellsOf(mode) -> Cell]]
  <2>1. \A st \in KvSeqs : \A i \in CellsOf(mode) : cells[st][i] \in Cell
    <3> HIDE DEF cells, gone
    <3>1. QED
      BY <1>2, <1>3, MemoryParts, FreeCell
  <2>2. cells = [st \in KvSeqs |-> [i \in CellsOf(mode) |-> cells[st][i]]]
    BY <1>2
  <2> HIDE DEF cells
  <2>3. QED
    BY <2>1, <2>2
<1> HIDE DEF cells, head, gone
<1>6. new \in Memory(mode) /\ new.rows = m.rows /\ new.cells = cells
  BY <1>4, <1>5 DEF Memory
<1>7. QED
  BY <1>1, <1>3, <1>6 DEF Drops, gone

\* The two removals, as they concern one sequence.
LEMMA SeqRmSpares ==
    ASSUME Plain, NEW m \in Memory(mode), Owned(mode, m), NEW s \in KvSeqs, NEW p0 \in Nat,
           NEW prompt, NEW n \in Nat, n <= mode.context, Held(mode, m, s, prompt, n)
    PROVE  LET new == SeqRmRange(m, s, p0, All)
           IN /\ new \in Memory(mode) /\ Owned(mode, new)
              /\ Held(mode, new, s, prompt, IF p0 < n THEN p0 ELSE n)
              /\ Unshifted(mode, m, s) => Unshifted(mode, new, s)
              /\ \A t \in KvSeqs : t # s => SameOf(mode, m, new, t)
<1> DEFINE new == SeqRmRange(m, s, p0, All)
           gone == RangeOf(mode, m, s, p0, All)
<1>1. /\ mode \in Modes /\ All = mode.context + 1 /\ mode.context \in Nat
      /\ \A t \in KvSeqs : StreamIn(mode, t) \in KvSeqs
  BY Facts DEF Plain
<1>2. Drops(mode, m, new, gone)
  BY <1>1, SeqRmDrops
<1>3. \A i \in HeldBy(mode, m, s) : m.cells[StreamIn(mode, s)][i].pos \in 0 .. n - 1
  BY DEF Held
<1>4. \A i \in HeldBy(mode, m, s) : <<StreamIn(mode, s), i>> \in gone <=> m.cells[StreamIn(mode, s)][i].pos >= p0
  BY <1>1, <1>3 DEF RangeOf
<1>5. ASSUME NEW t \in KvSeqs, t # s PROVE SameOf(mode, m, new, t)
  <2>1. \A i \in HeldBy(mode, m, t) : <<StreamIn(mode, t), i>> \notin gone
    <3>1. \A i \in HeldBy(mode, m, t) : StreamIn(mode, s) = StreamIn(mode, t) /\ i \in HeldBy(mode, m, s) => s = t
      BY <1>1, HeldApart
    <3>2. QED
      BY <1>5, <3>1 DEF RangeOf
  <2>2. \A i \in CellsOf(mode) : i \in HeldBy(mode, new, t) <=> i \in HeldBy(mode, m, t)
    <3> TAKE i \in CellsOf(mode)
    <3> DEFINE st == StreamIn(mode, t)
    <3>1. new.cells[st][i] = IF <<st, i>> \in gone THEN Free ELSE m.cells[st][i]
      BY <1>1, <1>2 DEF Drops
    <3>2. QED
      BY <2>1, <3>1, FreeCell DEF HeldBy
  <2>3. HeldBy(mode, new, t) = HeldBy(mode, m, t)
    BY <2>2 DEF HeldBy
  <2>4. \A i \in HeldBy(mode, m, t) : i \in CellsOf(mode)
    BY DEF HeldBy
  <2>5. QED
    BY <1>1, <1>2, <2>1, <2>3, <2>4 DEF SameOf, Drops
<1>6. new \in Memory(mode) /\ Owned(mode, new)
  <2> HIDE DEF new, gone
  <2>1. new \in Memory(mode)
    BY <1>2 DEF Drops
  <2>2. Owned(mode, new)
    BY <1>1, <1>2, <2>1, DropOwned
  <2>3. QED
    BY <2>1, <2>2
<1>7. /\ Held(mode, new, s, prompt, IF p0 < n THEN p0 ELSE n)
      /\ Unshifted(mode, m, s) => Unshifted(mode, new, s)
  <2> HIDE DEF new, gone
  <2>1. QED
    BY <1>1, <1>2, <1>4, DropHeld
<1>8. QED
  BY <1>5, <1>6, <1>7

\* A sequence that is cut holds its prompt up to the cut.
LEMMA SeqRmFromSpares ==
    ASSUME Plain, NEW m \in Memory(mode), Owned(mode, m), NEW from \in [KvSeqs -> Nat]
    PROVE  LET new == SeqRmFrom(m, from)
           IN /\ new \in Memory(mode) /\ Owned(mode, new)
              /\ \A s \in KvSeqs : Unshifted(mode, m, s) => Unshifted(mode, new, s)
              /\ \A s \in KvSeqs, n \in Nat : \A prompt : Held(mode, m, s, prompt, n) =>
                    /\ Held(mode, new, s, prompt, IF from[s] < n THEN from[s] ELSE n)
                    /\ from[s] >= n => SameOf(mode, m, new, s)
<1> DEFINE new == SeqRmFrom(m, from)
           gone == CutAt(mode, m, from)
<1>1. mode \in Modes /\ \A t \in KvSeqs : StreamIn(mode, t) \in KvSeqs
  BY Facts DEF Plain
<1>2. Drops(mode, m, new, gone)
  BY SeqRmFromDrops
<1>3. ASSUME NEW s \in KvSeqs, NEW i \in HeldBy(mode, m, s)
      PROVE  <<StreamIn(mode, s), i>> \in gone <=> m.cells[StreamIn(mode, s)][i].pos >= from[s]
  <2>1. /\ i \in CellsOf(mode) /\ StreamIn(mode, s) \in KvSeqs
        /\ \A t \in KvSeqs : StreamIn(mode, t) = StreamIn(mode, s) /\ i \in HeldBy(mode, m, t) => t = s
    BY <1>1, HeldApart
  <2>2. QED
    BY <2>1 DEF CutAt
<1>4. new \in Memory(mode) /\ Owned(mode, new)
  <2> HIDE DEF new, gone
  <2>1. new \in Memory(mode)
    BY <1>2 DEF Drops
  <2>2. Owned(mode, new)
    BY <1>1, <1>2, <2>1, DropOwned
  <2>3. QED
    BY <2>1, <2>2
<1> HIDE DEF new, gone
<1>5. ASSUME NEW s \in KvSeqs, NEW n \in Nat, NEW prompt, Held(mode, m, s, prompt, n)
      PROVE  /\ Held(mode, new, s, prompt, IF from[s] < n THEN from[s] ELSE n)
             /\ from[s] >= n => SameOf(mode, m, new, s)
  <2>1. from[s] \in Nat
    OBVIOUS
  <2>2. QED
    BY <1>1, <1>2, <1>3, <1>5, <2>1, DropHeld
<1>6. ASSUME NEW s \in KvSeqs, Unshifted(mode, m, s) PROVE Unshifted(mode, new, s)
  <2> DEFINE st == StreamIn(mode, s)
  <2>1. \A i \in CellsOf(mode) : new.cells[st][i] = IF <<st, i>> \in gone THEN Free ELSE m.cells[st][i]
    BY <1>1, <1>2 DEF Drops
  <2>2. \A i \in HeldBy(mode, new, s) : i \in CellsOf(mode) /\ s \in new.cells[st][i].seqs
    BY DEF HeldBy
  <2>3. \A i \in HeldBy(mode, new, s) : new.cells[st][i] = m.cells[st][i] /\ i \in HeldBy(mode, m, s)
    BY <2>1, <2>2, FreeCell DEF HeldBy
  <2>4. QED
    BY <1>6, <2>3 DEF Unshifted
<1>7. QED
  BY <1>4, <1>5, <1>6 DEF new

-----------------------------------------------------------------------------
\* The cells from the head on, around the ring, are each visited once.
LEMMA RingOnce ==
    ASSUME NEW c \in Nat \ {0}, NEW from \in Nat
    PROVE  LET ring == [k \in 1 .. c |-> (from + k - 1) % c]
           IN ring \in Seq(0 .. c - 1) /\ IsInjective(ring)
<1> DEFINE ring == [k \in 1 .. c |-> (from + k - 1) % c]
<1>1. \A k \in 1 .. c : (from + k - 1) % c \in 0 .. c - 1
  OBVIOUS
<1>2. ring \in Seq(0 .. c - 1)
  BY <1>1
<1>3. ASSUME NEW j \in 1 .. c, NEW k \in 1 .. c, j < k, (from + j - 1) % c = (from + k - 1) % c
      PROVE  FALSE
  <2> DEFINE x == from + j - 1
             y == from + k - 1
  <2>1. x \in Nat /\ y \in Nat /\ x < y /\ y - x < c
    BY <1>3
  <2> HIDE DEF x, y
  <2> DEFINE a == x \div c
             b == y \div c
  <2>2. a \in Nat /\ x % c = x - c * a
    BY <2>1
  <2>3. b \in Nat /\ y % c = y - c * b
    BY <2>1
  <2> HIDE DEF a, b
  <2>4. x % c = y % c
    BY <1>3 DEF x, y
  <2>5. y - x = c * (b - a)
    <3>1. c * a \in Int /\ c * b \in Int /\ c * b - c * a = c * (b - a)
      BY <2>2, <2>3
    <3>2. QED
      BY <2>1, <2>2, <2>3, <2>4, <3>1
  <2> DEFINE d == b - a
  <2>6. d \in Int /\ c * d > 0 /\ c * d < c
    BY <2>1, <2>2, <2>3, <2>5
  <2> HIDE DEF d
  <2>7. d >= 1 => c * d >= c
    BY <2>6
  <2>8. d >= 1
    BY <2>6
  <2>9. QED
    BY <2>6, <2>7, <2>8
<1>4. \A j, k \in 1 .. c : ring[j] = ring[k] => j = k
  <2>1. SUFFICES ASSUME NEW j \in 1 .. c, NEW k \in 1 .. c, ring[j] = ring[k], j # k PROVE FALSE
    OBVIOUS
  <2>2. (from + j - 1) % c = (from + k - 1) % c
    BY <2>1
  <2>3. j < k \/ k < j
    BY <2>1
  <2>4. QED
    BY <1>3, <2>2, <2>3
<1>5. IsInjective(ring)
  BY <1>4 DEF IsInjective
<1>6. QED
  BY <1>2, <1>5

\* find_slot, in a stream: cells that are free, each once.
LEMMA FindInFacts ==
    ASSUME Plain, NEW m \in Memory(mode), Owned(mode, m), NEW st \in KvSeqs, NEW n \in Nat
    PROVE  LET f == FindIn(m, st, n)
           IN /\ f \in Seq(CellsOf(mode)) /\ IsInjective(f)
              /\ \A k \in DOMAIN f : f[k] \in CellsOf(mode) /\ m.cells[st][f[k]] = Free
<1> DEFINE used == Cardinality({i \in KvCells : m.cells[st][i].pos # -1})
           from == IF m.head[st] > used + 2 * n THEN 0 ELSE m.head[st]
           ring == [k \in 1 .. mode.cells |-> (from + k - 1) % mode.cells]
           usable == {k \in DOMAIN ring : CanUse(m, st, ring[k])}
           found == SubseqAt(ring, usable)
           len == Min({n, Len(found)})
           f == SubSeq(found, 1, len)
<1>1. FindIn(m, st, n) = f
  BY DEF FindIn
<1>2. mode \in Modes /\ mode.cells \in Nat \ {0} /\ CellsOf(mode) = 0 .. mode.cells - 1
  BY Facts DEF Plain, CellsOf
<1>3. m.head[st] \in Nat
  BY <1>2, MemoryParts
<1> HIDE DEF used
<1>4. from \in Nat
  BY <1>3
<1> HIDE DEF from
<1>5. ring \in Seq(CellsOf(mode)) /\ IsInjective(ring)
  BY <1>2, <1>4, RingOnce
<1> HIDE DEF ring
<1>6. usable \in SUBSET DOMAIN ring
  OBVIOUS
<1>7. ASSUME NEW k \in usable PROVE m.cells[st][ring[k]] = Free
  <2>1. ring[k] \in CellsOf(mode) /\ CanUse(m, st, ring[k])
    BY <1>5
  <2>2. m.cells[st][ring[k]].pos = -1
    BY <2>1, Facts DEF CanUse
  <2>3. QED
    BY <2>1, <2>2 DEF Owned
<1> HIDE DEF usable
<1>8. found \in Seq(CellsOf(mode)) /\ Thinned(found, ring, usable)
  BY <1>5, <1>6, SubseqThins
<1> HIDE DEF found
<1>9. IsInjective(found) /\ \A v : (\E i \in DOMAIN found : found[i] = v) <=> (\E k \in usable : ring[k] = v)
  <2> DEFINE T == CellsOf(mode)
  <2>1. found \in Seq(T) /\ ring \in Seq(T)
    BY <1>5, <1>8
  <2> HIDE DEF T
  <2>2. /\ IsInjective(ring) => IsInjective(found)
        /\ \A v : (\E i \in DOMAIN found : found[i] = v) <=> (\E k \in usable : ring[k] = v)
    BY <1>6, <1>8, <2>1, ThinnedElements
  <2>3. IsInjective(ring)
    BY <1>5
  <2>4. QED
    BY <2>2, <2>3
<1>10. \A i \in DOMAIN found : m.cells[st][found[i]] = Free
  BY <1>7, <1>9
<1>11. len \in 0 .. Len(found)
  <2> DEFINE S == {n, Len(found)}
  <2>1. S \in SUBSET Nat /\ S # {} /\ Len(found) \in S
    BY <1>8
  <2> HIDE DEF S
  <2>2. Min(S) \in S /\ Min(S) <= Len(found)
    BY <2>1, SmallestExists
  <2>3. Len(found) \in Nat /\ Min(S) \in Nat
    BY <1>8, <2>1, <2>2
  <2>4. Min(S) \in 0 .. Len(found)
    BY <2>2, <2>3
  <2>5. QED
    BY <2>4 DEF S
<1> HIDE DEF len
<1>12. /\ f \in Seq(CellsOf(mode)) /\ DOMAIN f \subseteq DOMAIN found
       /\ \A k \in DOMAIN f : f[k] = found[k] /\ k \in DOMAIN found
  <2> DEFINE T == CellsOf(mode)
  <2>1. found \in Seq(T)
    BY <1>8
  <2> HIDE DEF T
  <2>2. f \in Seq(T) /\ DOMAIN f = 1 .. len /\ DOMAIN found = 1 .. Len(found) /\ Len(found) \in Nat
        /\ \A k \in 1 .. len : f[k] = found[k]
    BY <1>11, <2>1
  <2>3. QED
    BY <1>11, <2>2 DEF T
<1> HIDE DEF f
<1>13. IsInjective(f)
  BY <1>9, <1>12 DEF IsInjective
<1>14. \A k \in DOMAIN f : f[k] \in CellsOf(mode) /\ m.cells[st][f[k]] = Free
  BY <1>10, <1>12
<1>15. QED
  BY <1>1, <1>12, <1>13, <1>14

\* Each token of a stream has a cell of its own among those found for it.
LEMMA Ranks ==
    ASSUME NEW ub \in Seq(Token), NEW k \in DOMAIN ub
    PROVE  /\ Rank(ub, k) \in 1 .. CountIn(ub, At(ub, k)) /\ CountIn(ub, At(ub, k)) \in Nat
           /\ \A j \in DOMAIN ub : At(ub, j) = At(ub, k) /\ j < k => Rank(ub, j) < Rank(ub, k)
<1> DEFINE Upto(j) == {i \in 1 .. j : At(ub, i) = At(ub, k)}
           Every == {i \in DOMAIN ub : At(ub, i) = At(ub, k)}
<1>1. Len(ub) \in Nat /\ DOMAIN ub = 1 .. Len(ub) /\ k \in 1 .. Len(ub)
  OBVIOUS
<1>2. \A j \in 1 .. Len(ub) : IsFiniteSet(Upto(j)) /\ Upto(j) \subseteq Every
  <2> TAKE j \in 1 .. Len(ub)
  <2>1. IsFiniteSet(1 .. j)
    BY FS_Interval
  <2>2. Upto(j) \subseteq 1 .. j
    OBVIOUS
  <2>3. Upto(j) \subseteq Every
    BY <1>1
  <2> HIDE DEF Upto
  <2>4. QED
    BY <2>1, <2>2, <2>3, FS_Subset
<1>3. IsFiniteSet(Every)
  <2>1. IsFiniteSet(DOMAIN ub)
    BY <1>1, FS_Interval
  <2>2. Every \subseteq DOMAIN ub
    OBVIOUS
  <2> HIDE DEF Every
  <2>3. QED
    BY <2>1, <2>2, FS_Subset
<1>4. Rank(ub, k) = Cardinality(Upto(k)) /\ CountIn(ub, At(ub, k)) = Cardinality(Every)
  BY DEF Rank, CountIn
<1>5. k \in Upto(k)
  BY <1>1
<1>6. ASSUME NEW j \in DOMAIN ub, At(ub, j) = At(ub, k), j < k PROVE Rank(ub, j) < Rank(ub, k)
  <2>1. Rank(ub, j) = Cardinality(Upto(j))
    BY <1>6 DEF Rank
  <2>2. Upto(j) \subseteq Upto(k) /\ k \notin Upto(j)
    BY <1>1, <1>6
  <2>3. j \in 1 .. Len(ub)
    BY <1>1
  <2> HIDE DEF Upto
  <2>4. Upto(j) # Upto(k)
    BY <1>5, <2>2
  <2>5. Cardinality(Upto(j)) < Cardinality(Upto(k))
    BY <1>1, <1>2, <2>2, <2>3, <2>4, FS_Subset, FS_CardinalityType
  <2>6. QED
    BY <1>4, <2>1, <2>5
<1> HIDE DEF Upto, Every
<1>7. Cardinality(Upto(k)) \in Nat /\ Cardinality(Upto(k)) # 0
  BY <1>1, <1>2, <1>5, FS_CardinalityType, FS_EmptySet
<1>8. Cardinality(Every) \in Nat /\ Cardinality(Upto(k)) <= Cardinality(Every)
  BY <1>1, <1>2, <1>3, FS_Subset, FS_CardinalityType
<1>9. QED
  BY <1>4, <1>6, <1>7, <1>8

\* Where a ubatch may be written: free cells, one for each token.
Placement(x, m, ub, idx) ==
    /\ idx \in [DOMAIN ub -> CellsOf(x)]
    /\ \A k \in DOMAIN ub : m.cells[StreamIn(x, ub[k].seq)][idx[k]] = Free
    /\ \A j, k \in DOMAIN ub : StreamIn(x, ub[j].seq) = StreamIn(x, ub[k].seq) /\ idx[j] = idx[k] => j = k

\* A token of a ubatch and its stream.
LEMMA TokenParts ==
    ASSUME Plain, NEW ub \in Seq(Token), NEW k \in DOMAIN ub
    PROVE  /\ ub[k] \in Token /\ ub[k].seq \in KvSeqs /\ ub[k].pos \in Nat /\ ub[k].token \in Int
           /\ At(ub, k) = StreamIn(mode, ub[k].seq) /\ At(ub, k) \in KvSeqs
           /\ k \in Nat /\ k \in 1 .. Len(ub) /\ Len(ub) \in Nat /\ At(ub, k) \in StreamsOf(ub)
<1>1. ub[k] \in Token
  OBVIOUS
<1>2. ub[k].seq \in KvSeqs /\ ub[k].pos \in Nat /\ ub[k].token \in Int
  BY <1>1 DEF Token
<1>3. At(ub, k) = StreamIn(mode, ub[k].seq) /\ At(ub, k) \in KvSeqs
  BY <1>2, Facts DEF At
<1>4. At(ub, k) \in StreamsOf(ub)
  BY DEF StreamsOf
<1>5. QED
  BY <1>1, <1>2, <1>3, <1>4

\* Without a window find_slot takes free cells only, another for every token.
LEMMA FindSlotPlaces ==
    ASSUME Plain, NEW m \in Memory(mode), Owned(mode, m), NEW ub \in Seq(Token),
           FindSlot(m, ub) # <<>>
    PROVE  Placement(mode, m, ub, FindSlot(m, ub))
<1> DEFINE found == [st \in StreamsOf(ub) |-> FindIn(m, st, CountIn(ub, st))]
           idx == [k \in DOMAIN ub |-> found[At(ub, k)][Rank(ub, k)]]
<1>1. /\ \A st \in StreamsOf(ub) : Len(found[st]) = CountIn(ub, st)
      /\ FindSlot(m, ub) = idx
  BY DEF FindSlot
<1>2. \A st \in StreamsOf(ub) : st \in KvSeqs /\ CountIn(ub, st) \in Nat
  <2> TAKE st \in StreamsOf(ub)
  <2>1. PICK k \in DOMAIN ub : st = At(ub, k)
    BY DEF StreamsOf
  <2>2. QED
    BY <2>1, Ranks, TokenParts
<1>3. ASSUME NEW st \in StreamsOf(ub)
      PROVE  /\ found[st] \in Seq(CellsOf(mode)) /\ IsInjective(found[st])
             /\ \A k \in DOMAIN found[st] : found[st][k] \in CellsOf(mode) /\ m.cells[st][found[st][k]] = Free
  <2>1. found[st] = FindIn(m, st, CountIn(ub, st))
    OBVIOUS
  <2>2. QED
    BY <1>2, <2>1, FindInFacts
<1>4. ASSUME NEW k \in DOMAIN ub
      PROVE  At(ub, k) \in StreamsOf(ub) /\ Rank(ub, k) \in DOMAIN found[At(ub, k)]
  <2>1. At(ub, k) \in StreamsOf(ub)
    BY TokenParts
  <2>2. Rank(ub, k) \in 1 .. CountIn(ub, At(ub, k))
    BY Ranks
  <2>3. DOMAIN found[At(ub, k)] = 1 .. Len(found[At(ub, k)])
    BY <1>3, <2>1
  <2>4. QED
    BY <1>1, <2>1, <2>2, <2>3
<1> HIDE DEF found
<1>5. \A k \in DOMAIN ub : idx[k] \in CellsOf(mode) /\ m.cells[At(ub, k)][idx[k]] = Free
  BY <1>3, <1>4
<1>6. ASSUME NEW j \in DOMAIN ub, NEW k \in DOMAIN ub, At(ub, j) = At(ub, k), idx[j] = idx[k], j # k
      PROVE  FALSE
  <2>1. Rank(ub, j) = Rank(ub, k)
    BY <1>3, <1>4, <1>6 DEF IsInjective
  <2>2. j \in Nat /\ k \in Nat
    BY TokenParts
  <2>3. j < k \/ k < j
    BY <1>6, <2>2
  <2>4. Rank(ub, j) \in Int /\ Rank(ub, k) \in Int
    BY Ranks
  <2>5. CASE j < k
    BY <1>6, <2>1, <2>4, <2>5, Ranks
  <2>6. CASE k < j
    BY <1>6, <2>1, <2>4, <2>6, Ranks
  <2>7. QED
    BY <2>3, <2>5, <2>6
<1>7. idx \in [DOMAIN ub -> CellsOf(mode)]
  BY <1>5
<1> HIDE DEF idx
<1>8. \A k \in DOMAIN ub : At(ub, k) = StreamIn(mode, ub[k].seq)
  BY TokenParts
<1>9. QED
  BY <1>1, <1>5, <1>6, <1>7, <1>8 DEF Placement

-----------------------------------------------------------------------------
TokenCell(t) == [pos |-> t.pos, seqs |-> {t.seq}, shift |-> 0]
TokenRow(t) == [token |-> t.token, at |-> t.pos]

\* A ubatch takes the cells it was placed in and leaves the others.
Taking(x, ub, idx, st, i) == \E k \in DOMAIN ub : StreamIn(x, ub[k].seq) = st /\ idx[k] = i
Puts(x, m, new, ub, idx) ==
    /\ new \in Memory(x) /\ new.rows = m.rows
    /\ \A k \in DOMAIN ub : new.cells[StreamIn(x, ub[k].seq)][idx[k]] = TokenCell(ub[k])
    /\ \A st \in KvSeqs, i \in CellsOf(x) : ~Taking(x, ub, idx, st, i) => new.cells[st][i] = m.cells[st][i]

\* What a token makes of a cell and of a row.
LEMMA TokenCellType ==
    ASSUME NEW t \in Token
    PROVE  /\ TokenCell(t) \in Cell /\ TokenCell(t) # Free /\ TokenCell(t).seqs = {t.seq} /\ TokenCell(t).pos = t.pos
           /\ TokenCell(t).shift = 0 /\ TokenRow(t) \in Row /\ TokenRow(t).token = t.token /\ TokenRow(t).at = t.pos
BY DEF TokenCell, TokenRow, Token, Cell, Row, Free

\* After it each cell belongs to one sequence at most.
LEMMA PutsOwned ==
    ASSUME Plain, NEW m \in Memory(mode), NEW new, NEW ub \in Seq(Token), NEW idx,
           Owned(mode, m), Puts(mode, m, new, ub, idx)
    PROVE  Owned(mode, new)
<1>1. SUFFICES ASSUME NEW st \in KvSeqs, NEW i \in CellsOf(mode)
               PROVE  \/ new.cells[st][i] = Free
                      \/ new.cells[st][i].pos >= 0 /\ \E s \in KvSeqs : new.cells[st][i].seqs = {s} /\ StreamIn(mode, s) = st
  BY DEF Owned
<1>2. CASE Taking(mode, ub, idx, st, i)
  <2>1. PICK k \in DOMAIN ub : StreamIn(mode, ub[k].seq) = st /\ idx[k] = i
    BY <1>2 DEF Taking
  <2>2. new.cells[st][i] = TokenCell(ub[k])
    BY <2>1 DEF Puts
  <2>3. ub[k] \in Token /\ ub[k].seq \in KvSeqs /\ ub[k].pos \in Nat
    BY TokenParts
  <2>4. QED
    BY <2>1, <2>2, <2>3, TokenCellType
<1>3. CASE ~Taking(mode, ub, idx, st, i)
  BY <1>3 DEF Puts, Owned
<1>4. QED
  BY <1>2, <1>3

\* apply_ubatch puts the tokens into their cells and takes no other's.
LEMMA ApplyPuts ==
    ASSUME Plain, NEW m \in Memory(mode), Owned(mode, m), NEW ub \in Seq(Token), NEW idx,
           Placement(mode, m, ub, idx)
    PROVE  Puts(mode, m, ApplyUbatch(m, ub, idx), ub, idx)
<1> DEFINE new(st, i) == {k \in DOMAIN ub : At(ub, k) = st /\ idx[k] = i}
           taken == [s \in KvSeqs |-> Max({-1} \union {m.cells[At(ub, k)][idx[k]].pos :
                               k \in {j \in DOMAIN ub : m.cells[At(ub, j)][idx[j]].seqs = {s}}})]
           left(c) == {s \in c.seqs : c.pos > taken[s]}
           cells == [st \in KvSeqs |-> [i \in KvCells |->
                      IF new(st, i) # {}
                      THEN LET k == Min(new(st, i)) IN [pos |-> ub[k].pos, seqs |-> {ub[k].seq}, shift |-> 0]
                      ELSE IF left(m.cells[st][i]) = {} THEN Free ELSE [m.cells[st][i] EXCEPT !.seqs = left(m.cells[st][i])]]]
           last(st) == Max({k \in DOMAIN ub : At(ub, k) = st})
           head == [st \in KvSeqs |-> IF st \in StreamsOf(ub) THEN 1 + idx[last(st)] ELSE m.head[st]]
           result == [m EXCEPT !.cells = cells, !.head = head]
<1>1. ApplyUbatch(m, ub, idx) = result
  BY DEF ApplyUbatch
<1>2. mode \in Modes /\ KvCells = CellsOf(mode) /\ CellsOf(mode) \subseteq Nat
  BY Facts DEF Plain, CellsOf
<1>3. \A k \in DOMAIN ub : /\ At(ub, k) = StreamIn(mode, ub[k].seq) /\ ub[k] \in Token /\ k \in Nat
                           /\ idx[k] \in CellsOf(mode) /\ m.cells[At(ub, k)][idx[k]] = Free
                           /\ At(ub, k) \in KvSeqs
  BY TokenParts DEF Placement
<1>4. ASSUME NEW s \in KvSeqs PROVE taken[s] = -1
  <2>1. \A j \in DOMAIN ub : m.cells[At(ub, j)][idx[j]].seqs # {s}
    BY <1>3, FreeCell
  <2>2. {j \in DOMAIN ub : m.cells[At(ub, j)][idx[j]].seqs = {s}} = {}
    BY <2>1
  <2>3. taken[s] = Max({-1})
    <3>1. {m.cells[At(ub, k)][idx[k]].pos : k \in {}} = {}
      OBVIOUS
    <3>2. {-1} \union {} = {-1}
      OBVIOUS
    <3>3. taken[s] = Max({-1} \union {m.cells[At(ub, k)][idx[k]].pos :
                               k \in {j \in DOMAIN ub : m.cells[At(ub, j)][idx[j]].seqs = {s}}})
      OBVIOUS
    <3> HIDE DEF taken
    <3>4. QED
      BY <2>2, <3>1, <3>2, <3>3
  <2>4. Max({-1}) = -1
    BY DEF Max
  <2>5. QED
    BY <2>3, <2>4
<1> HIDE DEF taken
<1>5. ASSUME NEW st \in KvSeqs, NEW i \in CellsOf(mode), new(st, i) = {}
      PROVE  cells[st][i] = m.cells[st][i]
  <2> DEFINE c == m.cells[st][i]
  <2>1. c \in Cell /\ c.pos \in Int /\ c.seqs \in SUBSET KvSeqs
    BY <1>2, MemoryParts
  <2>2. cells[st][i] = IF left(c) = {} THEN Free ELSE [c EXCEPT !.seqs = left(c)]
    BY <1>2, <1>5
  <2>3. left(c) = {s \in c.seqs : c.pos > -1}
    BY <1>4, <2>1
  <2> HIDE DEF cells
  <2>4. CASE c = Free
    <3>1. left(c) = {}
      BY <2>3, <2>4, FreeCell
    <3>2. QED
      BY <2>2, <2>4, <3>1
  <2>5. CASE c # Free
    <3>1. c.pos >= 0 /\ c.seqs # {}
      BY <2>5 DEF Owned
    <3>2. left(c) = c.seqs
      BY <2>1, <2>3, <3>1
    <3>3. [c EXCEPT !.seqs = c.seqs] = c
      BY <2>1 DEF Cell
    <3>4. QED
      BY <2>2, <3>1, <3>2, <3>3
  <2>6. QED
    BY <2>4, <2>5
<1>6. ASSUME NEW k \in DOMAIN ub PROVE cells[StreamIn(mode, ub[k].seq)][idx[k]] = TokenCell(ub[k])
  <2> DEFINE st == At(ub, k)
             i == idx[k]
  <2>1. st \in KvSeqs /\ i \in CellsOf(mode) /\ st = StreamIn(mode, ub[k].seq)
    BY <1>3
  <2>2. new(st, i) = {k}
    <3>1. \A j \in DOMAIN ub : At(ub, j) = st /\ idx[j] = i => j = k
      BY <1>3 DEF Placement
    <3>2. QED
      BY <3>1
  <2>3. Min({k}) = k
    <3>1. k \in Int
      BY <1>3
    <3>2. QED
      BY <3>1 DEF Min
  <2>4. cells[st][i] = LET j == Min(new(st, i)) IN [pos |-> ub[j].pos, seqs |-> {ub[j].seq}, shift |-> 0]
    BY <1>2, <2>1, <2>2
  <2> HIDE DEF cells, new
  <2>5. QED
    BY <2>1, <2>2, <2>3, <2>4 DEF TokenCell
<1>7. ASSUME NEW st \in KvSeqs, NEW i \in CellsOf(mode)
      PROVE  /\ cells[st][i] \in Cell
             /\ ~Taking(mode, ub, idx, st, i) => cells[st][i] = m.cells[st][i]
  <2>1. CASE new(st, i) = {}
    <3>1. cells[st][i] = m.cells[st][i] /\ m.cells[st][i] \in Cell
      BY <1>2, <1>5, <2>1, MemoryParts
    <3> HIDE DEF cells
    <3>2. QED
      BY <3>1
  <2>2. CASE new(st, i) # {}
    <3>1. PICK k \in DOMAIN ub : At(ub, k) = st /\ idx[k] = i
      BY <2>2
    <3>2. cells[st][i] = TokenCell(ub[k]) /\ Taking(mode, ub, idx, st, i)
      <4> HIDE DEF cells
      <4>1. QED
        BY <1>3, <1>6, <3>1 DEF Taking
    <3> HIDE DEF cells
    <3>3. QED
      BY <1>3, <3>2, TokenCellType
  <2>3. QED
    BY <2>1, <2>2
<1>8. cells \in [KvSeqs -> [CellsOf(mode) -> Cell]]
  <2>1. cells = [st \in KvSeqs |-> [i \in CellsOf(mode) |-> cells[st][i]]]
    BY <1>2
  <2> HIDE DEF cells
  <2>2. QED
    BY <1>7, <2>1
<1>9. head \in [KvSeqs -> Nat]
  <2>1. ASSUME NEW st \in StreamsOf(ub) PROVE 1 + idx[last(st)] \in Nat
    <3> DEFINE K == {k \in DOMAIN ub : At(ub, k) = st}
    <3>1. PICK k \in DOMAIN ub : st = At(ub, k)
      BY DEF StreamsOf
    <3>2. K \in SUBSET (0 .. Len(ub)) /\ Len(ub) \in Nat /\ K # {} /\ K \subseteq DOMAIN ub
      BY <1>3, <3>1
    <3> HIDE DEF K
    <3>3. Max(K) \in DOMAIN ub
      BY <3>2, LargestExists
    <3>4. last(st) \in DOMAIN ub
      BY <3>3 DEF K
    <3> HIDE DEF last
    <3>5. QED
      BY <1>2, <1>3, <3>4
  <2>2. \A st \in KvSeqs : m.head[st] \in Nat
    BY <1>2, MemoryParts
  <2> HIDE DEF last
  <2>3. QED
    BY <2>1, <2>2
<1> HIDE DEF cells, head
<1>10. result \in Memory(mode) /\ result.rows = m.rows /\ result.cells = cells
  BY <1>8, <1>9 DEF Memory
<1>11. QED
  BY <1>1, <1>6, <1>7, <1>10 DEF Puts

-----------------------------------------------------------------------------
\* Several ubatches, one after the other: where they were placed, and what the
\* memory looks like after u of them.
Places(x, m, ubs, found, u) ==
    /\ \A v \in 1 .. u : found[v] \in [DOMAIN ubs[v] -> CellsOf(x)]
    /\ \A v \in 1 .. u : \A k \in DOMAIN ubs[v] : m.cells[StreamIn(x, ubs[v][k].seq)][found[v][k]] = Free
    /\ \A v, w \in 1 .. u : \A j \in DOMAIN ubs[v], k \in DOMAIN ubs[w] :
          /\ StreamIn(x, ubs[v][j].seq) = StreamIn(x, ubs[w][k].seq) /\ found[v][j] = found[w][k]
          => v = w /\ j = k

Fills(x, m, new, ubs, found, u) ==
    /\ \A v \in 1 .. u : \A k \in DOMAIN ubs[v] :
          new.cells[StreamIn(x, ubs[v][k].seq)][found[v][k]] = TokenCell(ubs[v][k])
    /\ \A st \in KvSeqs, i \in CellsOf(x) :
          (\A v \in 1 .. u : ~Taking(x, ubs[v], found[v], st, i)) => new.cells[st][i] = m.cells[st][i]

\* One more ubatch fills its cells.
LEMMA FillsNext ==
    ASSUME Plain, NEW m \in Memory(mode), NEW c \in Memory(mode), NEW new, NEW ubs \in Seq(Seq(Token)),
           NEW found, NEW u \in Nat, u + 1 \in DOMAIN ubs,
           Fills(mode, m, c, ubs, found, u), Puts(mode, c, new, ubs[u + 1], found[u + 1]),
           \A v \in 1 .. u : found[v] \in [DOMAIN ubs[v] -> CellsOf(mode)],
           \A v \in 1 .. u : \A j \in DOMAIN ubs[v], k \in DOMAIN ubs[u + 1] :
              ~(StreamIn(mode, ubs[v][j].seq) = StreamIn(mode, ubs[u + 1][k].seq) /\ found[v][j] = found[u + 1][k])
    PROVE  Fills(mode, m, new, ubs, found, u + 1)
<1>1. \A v \in 1 .. u + 1 : v = u + 1 \/ v \in 1 .. u
  OBVIOUS
<1>2. ASSUME NEW v \in 1 .. u + 1, NEW k \in DOMAIN ubs[v]
      PROVE  new.cells[StreamIn(mode, ubs[v][k].seq)][found[v][k]] = TokenCell(ubs[v][k])
  <2>1. CASE v = u + 1
    BY <2>1 DEF Puts
  <2>2. CASE v \in 1 .. u
    <3> DEFINE st == StreamIn(mode, ubs[v][k].seq)
               i == found[v][k]
    <3>1. v \in DOMAIN ubs /\ ubs[v] \in Seq(Token)
      BY <2>2
    <3>2. st \in KvSeqs /\ i \in CellsOf(mode)
      BY <2>2, <3>1, TokenParts
    <3>3. ~Taking(mode, ubs[u + 1], found[u + 1], st, i)
      BY <2>2 DEF Taking
    <3>4. new.cells[st][i] = c.cells[st][i]
      BY <3>2, <3>3 DEF Puts
    <3>5. c.cells[st][i] = TokenCell(ubs[v][k])
      BY <2>2 DEF Fills
    <3>6. QED
      BY <3>4, <3>5
  <2>3. QED
    BY <1>1, <2>1, <2>2
<1>3. ASSUME NEW st \in KvSeqs, NEW i \in CellsOf(mode), \A v \in 1 .. u + 1 : ~Taking(mode, ubs[v], found[v], st, i)
      PROVE  new.cells[st][i] = m.cells[st][i]
  <2>1. u + 1 \in 1 .. u + 1 /\ \A v \in 1 .. u : v \in 1 .. u + 1
    OBVIOUS
  <2>2. new.cells[st][i] = c.cells[st][i]
    BY <1>3, <2>1 DEF Puts
  <2>3. c.cells[st][i] = m.cells[st][i]
    BY <1>3, <2>1 DEF Fills
  <2>4. QED
    BY <2>2, <2>3
<1>4. QED
  BY <1>2, <1>3 DEF Fills

\* Cells that are free after some ubatches were free before, and are not theirs.
LEMMA PlacesNext ==
    ASSUME Plain, NEW m \in Memory(mode), NEW c \in Memory(mode), NEW ubs \in Seq(Seq(Token)),
           NEW found, NEW u \in Nat, u + 1 \in DOMAIN ubs,
           Places(mode, m, ubs, found, u), Fills(mode, m, c, ubs, found, u),
           Placement(mode, c, ubs[u + 1], found[u + 1])
    PROVE  Places(mode, m, ubs, found, u + 1)
<1>1. \A v \in 1 .. u + 1 : v = u + 1 \/ v \in 1 .. u
  OBVIOUS
<1>2. \A v \in 1 .. u + 1 : v \in DOMAIN ubs /\ ubs[v] \in Seq(Token)
  OBVIOUS
<1>3. ASSUME NEW v \in 1 .. u, NEW j \in DOMAIN ubs[v], NEW k \in DOMAIN ubs[u + 1],
             StreamIn(mode, ubs[v][j].seq) = StreamIn(mode, ubs[u + 1][k].seq), found[v][j] = found[u + 1][k]
      PROVE  FALSE
  <2>1. c.cells[StreamIn(mode, ubs[v][j].seq)][found[v][j]] = TokenCell(ubs[v][j])
    BY DEF Fills
  <2>2. c.cells[StreamIn(mode, ubs[u + 1][k].seq)][found[u + 1][k]] = Free
    BY DEF Placement
  <2>3. ubs[v][j] \in Token
    BY <1>2, TokenParts
  <2>4. QED
    BY <1>3, <2>1, <2>2, <2>3, TokenCellType
<1>4. ASSUME NEW k \in DOMAIN ubs[u + 1]
      PROVE  m.cells[StreamIn(mode, ubs[u + 1][k].seq)][found[u + 1][k]] = Free
  <2> DEFINE st == StreamIn(mode, ubs[u + 1][k].seq)
             i == found[u + 1][k]
  <2>1. st \in KvSeqs /\ i \in CellsOf(mode)
    BY <1>2, TokenParts DEF Placement
  <2>2. \A v \in 1 .. u : ~Taking(mode, ubs[v], found[v], st, i)
    BY <1>3 DEF Taking
  <2>3. c.cells[st][i] = m.cells[st][i]
    BY <2>1, <2>2 DEF Fills
  <2>4. QED
    BY <2>3 DEF Placement
<1>5. \A v \in 1 .. u + 1 : found[v] \in [DOMAIN ubs[v] -> CellsOf(mode)]
  BY <1>1 DEF Places, Placement
<1>6. \A v \in 1 .. u + 1 : \A k \in DOMAIN ubs[v] : m.cells[StreamIn(mode, ubs[v][k].seq)][found[v][k]] = Free
  BY <1>1, <1>4 DEF Places
<1>7. ASSUME NEW v \in 1 .. u + 1, NEW w \in 1 .. u + 1, NEW j \in DOMAIN ubs[v], NEW k \in DOMAIN ubs[w],
             StreamIn(mode, ubs[v][j].seq) = StreamIn(mode, ubs[w][k].seq), found[v][j] = found[w][k]
      PROVE  v = w /\ j = k
  <2>1. CASE v \in 1 .. u /\ w \in 1 .. u
    BY <1>7, <2>1 DEF Places
  <2>2. CASE v \in 1 .. u /\ w = u + 1
    BY <1>3, <1>7, <2>2
  <2>3. CASE v = u + 1 /\ w \in 1 .. u
    BY <1>3, <1>7, <2>3
  <2>4. CASE v = u + 1 /\ w = u + 1
    BY <1>7, <2>4 DEF Placement
  <2>5. QED
    BY <1>1, <2>1, <2>2, <2>3, <2>4
<1>8. QED
  BY <1>5, <1>6, <1>7 DEF Places

-----------------------------------------------------------------------------
\* What a trial carries: the places found so far, and how to give them back.
Trials(x) ==
    {t \in [m : Memory(x), ok : BOOLEAN, found : Seq(Seq(CellsOf(x))),
            undo : Seq([ub : Seq(Token), idx : Seq(CellsOf(x)), old : Memory(x)])] : Owned(x, t.m)}

\* A trial and what its parts are.
LEMMA TrialParts ==
    ASSUME NEW x, NEW t \in Trials(x)
    PROVE  /\ t.m \in Memory(x) /\ Owned(x, t.m) /\ t.ok \in BOOLEAN /\ t.found \in Seq(Seq(CellsOf(x)))
           /\ t.undo \in Seq([ub : Seq(Token), idx : Seq(CellsOf(x)), old : Memory(x)])
           /\ t = [m |-> t.m, ok |-> t.ok, found |-> t.found, undo |-> t.undo]
BY DEF Trials

\* A ubatch that cannot be placed ends the trial; another is placed and noted.
LEMMA TryIs ==
    ASSUME Plain, NEW t \in Trials(mode), NEW ub \in Seq(Token)
    PROVE  LET new == Try(t, ub)
               idx == FindSlot(t.m, ub)
           IN /\ new \in Trials(mode)
              /\ \/ new = [t EXCEPT !.ok = FALSE]
                 \/ /\ t.ok /\ new.ok /\ Placement(mode, t.m, ub, idx) /\ Puts(mode, t.m, new.m, ub, idx)
                    /\ idx \in Seq(CellsOf(mode)) /\ new.found = Append(t.found, idx)
                    /\ new.undo = <<[ub |-> ub, idx |-> idx, old |-> t.m]>> \o t.undo
<1> DEFINE idx == FindSlot(t.m, ub)
           m == ApplyUbatch(t.m, ub, idx)
           undo == <<[ub |-> ub, idx |-> idx, old |-> t.m]>> \o t.undo
           new == [m |-> m, ok |-> TRUE, found |-> Append(t.found, idx), undo |-> undo]
<1>1. Try(t, ub) = IF ~t.ok \/ idx = <<>> THEN [t EXCEPT !.ok = FALSE] ELSE new
  BY DEF Try
<1>2. CASE ~t.ok \/ idx = <<>>
  <2>1. [t EXCEPT !.ok = FALSE] \in Trials(mode)
    BY DEF Trials
  <2>2. QED
    BY <1>1, <1>2, <2>1
<1>3. CASE t.ok /\ idx # <<>>
  <2>1. Placement(mode, t.m, ub, idx)
    BY <1>3, TrialParts, FindSlotPlaces
  <2>2. Puts(mode, t.m, m, ub, idx)
    BY <2>1, TrialParts, ApplyPuts
  <2>3. idx \in Seq(CellsOf(mode))
    BY <2>1 DEF Placement
  <2> HIDE DEF idx, m
  <2>4. m \in Memory(mode) /\ Owned(mode, m)
    <3>1. m \in Memory(mode)
      BY <2>2 DEF Puts
    <3>2. t.m \in Memory(mode) /\ Owned(mode, t.m)
      BY TrialParts
    <3>3. QED
      BY <2>2, <3>1, <3>2, PutsOwned
  <2>5. Append(t.found, idx) \in Seq(Seq(CellsOf(mode)))
    <3> DEFINE T == Seq(CellsOf(mode))
               f == t.found
    <3>1. f \in Seq(T) /\ idx \in T
      BY <2>3, TrialParts
    <3> HIDE DEF T, f
    <3>2. Append(f, idx) \in Seq(T)
      BY <3>1
    <3>3. QED
      BY <3>2 DEF T, f
  <2>6. undo \in Seq([ub : Seq(Token), idx : Seq(CellsOf(mode)), old : Memory(mode)])
    <3> DEFINE R == [ub : Seq(Token), idx : Seq(CellsOf(mode)), old : Memory(mode)]
               e == [ub |-> ub, idx |-> idx, old |-> t.m]
    <3>1. e \in R /\ t.undo \in Seq(R)
      BY <2>3, TrialParts
    <3> HIDE DEF R, e
    <3>2. <<e>> \o t.undo \in Seq(R)
      BY <3>1
    <3>3. QED
      BY <3>2 DEF R, e
  <2> HIDE DEF undo
  <2>7. new \in Trials(mode)
    BY <2>4, <2>5, <2>6 DEF Trials
  <2>8. Try(t, ub) = new
    BY <1>1, <1>3 DEF idx
  <2>9. QED
    BY <1>3, <2>1, <2>2, <2>3, <2>7, <2>8 DEF idx, undo
<1>4. QED
  BY <1>2, <1>3, TrialParts

\* One ubatch is tried after the other.
LEMMA TryRuns ==
    ASSUME Plain, NEW ss \in Seq(Seq(Token)), NEW base \in Trials(mode)
    PROVE  \E g \in [0 .. Len(ss) -> Trials(mode)] :
              /\ g[0] = base /\ FoldLeft(Try, base, ss) = g[Len(ss)]
              /\ \A i \in 1 .. Len(ss) : g[i] = Try(g[i - 1], ss[i])
<1> DEFINE n == Len(ss)
           S == Trials(mode)
           step == [i \in 1 .. n |-> [acc \in S |-> Try(acc, ss[i])]]
           Is(h) == h = [s \in SUBSET DOMAIN ss |->
                            IF s = {} THEN base ELSE Try(h[s \ {Max(s)}], ss[Max(s)])]
           h == CHOOSE f : Is(f)
<1>1. n \in Nat /\ DOMAIN ss = 1 .. n /\ \A i \in 1 .. n : ss[i] \in Seq(Token)
  OBVIOUS
<1>2. FoldLeft(Try, base, ss) = h[DOMAIN ss]
  BY DEF FoldLeft, MapThenFoldSet
<1>3. base \in S /\ \A i \in 1 .. n : \A acc \in S : Try(acc, ss[i]) \in S
  BY <1>1, TryIs
<1> HIDE DEF n, S
<1>4. Steps(step, n, S)
  BY <1>3 DEF Steps
<1>5. PICK f \in [SUBSET (1 .. n) -> S] : IsFold(f, step, n, base)
  <2> HIDE DEF step
  <2>1. QED
    BY <1>1, <1>3, <1>4, FoldExists DEF HasFold
<1>6. Is(f)
  <2>1. ASSUME NEW s \in SUBSET (1 .. n)
        PROVE  f[s] = IF s = {} THEN base ELSE Try(f[s \ {Max(s)}], ss[Max(s)])
    <3>1. CASE s = {}
      BY <1>5, <3>1 DEF IsFold
    <3>2. CASE s # {}
      <4>1. Max(s) \in 1 .. n /\ f[s] = step[Max(s)][f[s \ {Max(s)}]] /\ f[s \ {Max(s)}] \in S
        BY <1>5, <3>2 DEF IsFold
      <4>2. QED
        BY <3>2, <4>1
    <3>3. QED
      BY <3>1, <3>2
  <2>2. f = [s \in SUBSET (1 .. n) |-> f[s]]
    BY <1>5
  <2>3. QED
    BY <1>1, <2>1, <2>2
<1>7. \A s \in SUBSET (1 .. n) : h[s] = IF s = {} THEN base ELSE Try(h[s \ {Max(s)}], ss[Max(s)])
  <2>1. Is(h)
    <3> HIDE DEF Is
    <3>1. QED
      BY <1>6
  <2>2. h = [s \in SUBSET DOMAIN ss |-> IF s = {} THEN base ELSE Try(h[s \ {Max(s)}], ss[Max(s)])]
    BY <2>1
  <2> HIDE DEF h
  <2>3. QED
    BY <1>1, <2>2
<1> HIDE DEF h
<1>8. \A s \in SUBSET (1 .. n) : s # {} => Max(s) \in 1 .. n
  BY <1>5 DEF IsFold
<1>9. \A s \in SUBSET (1 .. n) : s # {} /\ h[s \ {Max(s)}] \in S => h[s] = step[Max(s)][h[s \ {Max(s)}]]
  BY <1>7, <1>8
<1>10. Folds(h, step, n, S, base)
  <2>1. h[{}] = base
    BY <1>7
  <2> HIDE DEF step
  <2>2. QED
    BY <1>9, <2>1 DEF Folds
<1>11. PICK g \in [0 .. n -> S] : IsRun(g, step, n, base) /\ g[n] = h[1 .. n]
  <2> HIDE DEF step
  <2>1. QED
    BY <1>1, <1>3, <1>4, <1>10, FoldIsRun
<1>12. \A i \in 1 .. n : g[i] = Try(g[i - 1], ss[i])
  <2> TAKE i \in 1 .. n
  <2>1. i - 1 \in 0 .. n
    BY <1>1
  <2>2. g[i] = step[i][g[i - 1]]
    <3> HIDE DEF step, S
    <3>1. QED
      BY <1>11 DEF IsRun
  <2>3. g[i - 1] \in S
    BY <2>1
  <2> HIDE DEF S
  <2>4. QED
    BY <2>2, <2>3
<1>13. g[0] = base /\ FoldLeft(Try, base, ss) = g[n]
  BY <1>1, <1>2, <1>11 DEF IsRun
<1>14. QED
  BY <1>12, <1>13 DEF n, S

\* Each ubatch that is taken back leaves the memory as it was before it.
Record(x) == [ub : Seq(Token), idx : Seq(CellsOf(x)), old : Memory(x)]
Before(t, j) == IF j = 0 THEN t.m ELSE t.undo[j].old
Undoable(x, m, t) ==
    /\ \A j \in DOMAIN t.undo :
          LET u == t.undo[j]
          IN /\ \A st \in KvSeqs, i \in CellsOf(x) :
                   ~Taking(x, u.ub, u.idx, st, i) => Before(t, j - 1).cells[st][i] = u.old.cells[st][i]
             /\ Before(t, j - 1).rows = u.old.rows
    /\ Before(t, Len(t.undo)).cells = m.cells /\ Before(t, Len(t.undo)).rows = m.rows

\* A trial goes on and can still be undone.
LEMMA TryUndoable ==
    ASSUME Plain, NEW m, NEW t \in Trials(mode), NEW ub \in Seq(Token), Undoable(mode, m, t)
    PROVE  Undoable(mode, m, Try(t, ub))
<1> DEFINE new == Try(t, ub)
           idx == FindSlot(t.m, ub)
<1>1. CASE new = [t EXCEPT !.ok = FALSE]
  <2>1. new.m = t.m /\ new.undo = t.undo
    BY <1>1, TrialParts
  <2>2. \A j : Before(new, j) = Before(t, j)
    BY <2>1 DEF Before
  <2>3. QED
    BY <2>1, <2>2 DEF Undoable
<1>2. CASE new # [t EXCEPT !.ok = FALSE]
  <2> DEFINE e == [ub |-> ub, idx |-> idx, old |-> t.m]
  <2>1. /\ new \in Trials(mode) /\ Puts(mode, t.m, new.m, ub, idx) /\ new.undo = <<e>> \o t.undo
        /\ idx \in Seq(CellsOf(mode))
    BY <1>2, TryIs
  <2>2. e \in Record(mode) /\ t.undo \in Seq(Record(mode)) /\ e.ub = ub /\ e.idx = idx /\ e.old = t.m
    BY <2>1, TrialParts DEF Record
  <2> HIDE DEF e, idx
  <2> DEFINE undo == <<e>> \o t.undo
             l == Len(t.undo)
  <2>3. /\ l \in Nat /\ Len(undo) = l + 1 /\ DOMAIN undo = 1 .. l + 1 /\ undo[1] = e
        /\ DOMAIN t.undo = 1 .. l /\ \A j \in 1 .. l : undo[j + 1] = t.undo[j]
    <3> DEFINE R == Record(mode)
    <3>1. e \in R /\ t.undo \in Seq(R)
      BY <2>2
    <3> HIDE DEF R
    <3>2. QED
      BY <3>1
  <2> HIDE DEF undo, l
  <2>4. new.undo = undo
    BY <2>1 DEF undo
  <2>5. \A j \in 0 .. l : Before(new, j + 1) = Before(t, j)
    <3> TAKE j \in 0 .. l
    <3>1. Before(new, j + 1) = undo[j + 1].old
      BY <2>4 DEF Before
    <3>2. CASE j = 0
      BY <2>2, <2>3, <3>1, <3>2 DEF Before
    <3>3. CASE j # 0
      <4>1. j \in 1 .. l
        BY <2>3, <3>3
      <4>2. QED
        BY <2>3, <3>1, <3>3, <4>1 DEF Before
    <3>4. QED
      BY <3>2, <3>3
  <2>6. ASSUME NEW j \in 1 .. l + 1
        PROVE  LET u == undo[j]
               IN /\ \A st \in KvSeqs, i \in CellsOf(mode) :
                        ~Taking(mode, u.ub, u.idx, st, i) => Before(new, j - 1).cells[st][i] = u.old.cells[st][i]
                  /\ Before(new, j - 1).rows = u.old.rows
    <3>1. CASE j = 1
      <4>1. undo[j] = e /\ Before(new, j - 1) = new.m
        BY <2>3, <3>1 DEF Before
      <4>2. QED
        BY <2>1, <2>2, <4>1 DEF Puts
    <3>2. CASE j # 1
      <4>1. j - 1 \in 1 .. l /\ j - 1 - 1 \in 0 .. l /\ j - 1 - 1 + 1 = j - 1 /\ j - 1 + 1 = j
        BY <2>3, <3>2
      <4>2. undo[j] = t.undo[j - 1] /\ Before(new, j - 1) = Before(t, j - 1 - 1)
        BY <2>3, <2>5, <4>1
      <4>3. j - 1 \in DOMAIN t.undo
        BY <2>3, <4>1
      <4>4. QED
        BY <4>2, <4>3 DEF Undoable
    <3>3. QED
      BY <3>1, <3>2
  <2>7. Before(new, Len(new.undo)).cells = m.cells /\ Before(new, Len(new.undo)).rows = m.rows
    <3>1. Before(new, Len(new.undo)) = Before(t, l)
      BY <2>3, <2>4, <2>5
    <3>2. QED
      BY <3>1 DEF Undoable, l
  <2>8. QED
    BY <2>3, <2>4, <2>6, <2>7 DEF Undoable
<1>3. QED
  BY <1>1, <1>2

\* A trial that succeeds has placed each ubatch in cells that were free.
Tells(x, m, ubs, t, i) ==
    /\ Undoable(x, m, t)
    /\ t.ok => Len(t.found) = i /\ Places(x, m, ubs, t.found, i) /\ Fills(x, m, t.m, ubs, t.found, i)

\* What the ubatches did depends on the cells found for them only.
LEMMA FoundSame ==
    ASSUME Plain, NEW m, NEW c, NEW ubs, NEW found, NEW other, NEW u \in Nat, \A v \in 1 .. u : other[v] = found[v]
    PROVE  /\ Places(mode, m, ubs, found, u) => Places(mode, m, ubs, other, u)
           /\ Fills(mode, m, c, ubs, found, u) => Fills(mode, m, c, ubs, other, u)
<1>1. Places(mode, m, ubs, found, u) => Places(mode, m, ubs, other, u)
  BY DEF Places
<1>2. Fills(mode, m, c, ubs, found, u) => Fills(mode, m, c, ubs, other, u)
  BY DEF Fills
<1>3. QED
  BY <1>1, <1>2

\* A trial goes on and tells what its ubatches would do.
LEMMA TryTells ==
    ASSUME Plain, NEW m \in Memory(mode), NEW ubs \in Seq(Seq(Token)), NEW t \in Trials(mode),
           NEW i \in Nat, i + 1 \in DOMAIN ubs, Tells(mode, m, ubs, t, i)
    PROVE  Tells(mode, m, ubs, Try(t, ubs[i + 1]), i + 1)
<1> DEFINE ub == ubs[i + 1]
           new == Try(t, ub)
           idx == FindSlot(t.m, ub)
<1>1. ub \in Seq(Token)
  OBVIOUS
<1>2. Undoable(mode, m, new)
  BY <1>1, TryUndoable DEF Tells
<1>3. CASE new = [t EXCEPT !.ok = FALSE]
  <2>1. ~new.ok
    BY <1>3, TrialParts
  <2>2. QED
    BY <1>2, <2>1 DEF Tells
<1>4. CASE new # [t EXCEPT !.ok = FALSE]
  <2>1. /\ t.ok /\ Placement(mode, t.m, ub, idx) /\ Puts(mode, t.m, new.m, ub, idx)
        /\ idx \in Seq(CellsOf(mode)) /\ new.found = Append(t.found, idx)
    BY <1>1, <1>4, TryIs
  <2>2. t.m \in Memory(mode) /\ t.found \in Seq(Seq(CellsOf(mode))) /\ Len(t.found) = i
    BY <2>1, TrialParts DEF Tells
  <2> HIDE DEF idx, new, ub
  <2>3. /\ Len(new.found) = i + 1 /\ new.found[i + 1] = idx
        /\ \A v \in 1 .. i : new.found[v] = t.found[v]
    <3> DEFINE T == Seq(CellsOf(mode))
               f == t.found
    <3>1. f \in Seq(T) /\ idx \in T /\ Len(f) = i
      BY <2>1, <2>2
    <3> HIDE DEF T, f
    <3>2. /\ Len(Append(f, idx)) = i + 1 /\ Append(f, idx)[i + 1] = idx
          /\ \A v \in 1 .. i : Append(f, idx)[v] = f[v]
      BY <3>1
    <3>3. QED
      BY <2>1, <3>2 DEF f
  <2>4. Places(mode, m, ubs, new.found, i) /\ Fills(mode, m, t.m, ubs, new.found, i)
    BY <2>1, <2>3, FoundSame DEF Tells
  <2>5. Places(mode, m, ubs, new.found, i + 1)
    BY <2>1, <2>2, <2>3, <2>4, PlacesNext DEF ub
  <2>6. Fills(mode, m, new.m, ubs, new.found, i + 1)
    <3>1. i + 1 \in 1 .. i + 1 /\ \A v \in 1 .. i : v \in 1 .. i + 1 /\ v # i + 1
      OBVIOUS
    <3>2. \A v \in 1 .. i : new.found[v] \in [DOMAIN ubs[v] -> CellsOf(mode)]
      BY <2>4 DEF Places
    <3>3. \A v \in 1 .. i : \A j \in DOMAIN ubs[v], k \in DOMAIN ubs[i + 1] :
              ~(StreamIn(mode, ubs[v][j].seq) = StreamIn(mode, ubs[i + 1][k].seq) /\ new.found[v][j] = new.found[i + 1][k])
      BY <2>5, <3>1 DEF Places
    <3>4. Puts(mode, t.m, new.m, ubs[i + 1], new.found[i + 1]) /\ new.m \in Memory(mode)
      BY <2>1, <2>3 DEF ub, Puts
    <3>5. QED
      BY <2>2, <2>4, <3>2, <3>3, <3>4, FillsNext
  <2>7. QED
    BY <1>2, <2>3, <2>5, <2>6 DEF Tells, ub, new
<1>5. QED
  BY <1>3, <1>4

\* Undoing a ubatch gives its cells what they held before.
LEMMA UndoneIs ==
    ASSUME Plain, NEW m \in Memory(mode), NEW u \in Record(mode)
    PROVE  /\ Undone(m, u) \in Memory(mode) /\ Undone(m, u).rows = m.rows
           /\ \A st \in KvSeqs, i \in CellsOf(mode) :
                 Undone(m, u).cells[st][i] = IF Taking(mode, u.ub, u.idx, st, i) THEN u.old.cells[st][i] ELSE m.cells[st][i]
<1> DEFINE back(st, i) == \E k \in DOMAIN u.ub : At(u.ub, k) = st /\ u.idx[k] = i
           ordinal(st) == Cardinality({x \in StreamsOf(u.ub) : x < st})
           cells == [st \in KvSeqs |-> [i \in KvCells |-> IF back(st, i) THEN u.old.cells[st][i] ELSE m.cells[st][i]]]
           head == [st \in KvSeqs |-> IF st \in StreamsOf(u.ub) THEN u.old.head[ordinal(st)] ELSE m.head[st]]
           new == [m EXCEPT !.cells = cells, !.head = head]
<1>1. Undone(m, u) = new
  BY DEF Undone
<1>2. u.ub \in Seq(Token) /\ u.old \in Memory(mode) /\ mode \in Modes /\ KvCells = CellsOf(mode)
  BY Facts DEF Record, Plain
<1>3. ASSUME NEW st \in KvSeqs, NEW i \in CellsOf(mode)
      PROVE  /\ back(st, i) <=> Taking(mode, u.ub, u.idx, st, i)
             /\ cells[st][i] = IF Taking(mode, u.ub, u.idx, st, i) THEN u.old.cells[st][i] ELSE m.cells[st][i]
             /\ cells[st][i] \in Cell
  <2>1. back(st, i) <=> Taking(mode, u.ub, u.idx, st, i)
    BY <1>2, TokenParts DEF Taking
  <2>2. cells[st][i] = IF back(st, i) THEN u.old.cells[st][i] ELSE m.cells[st][i]
    BY <1>2
  <2>3. u.old.cells[st][i] \in Cell /\ m.cells[st][i] \in Cell
    BY <1>2, MemoryParts
  <2> HIDE DEF cells, back
  <2>4. QED
    BY <2>1, <2>2, <2>3
<1>4. cells \in [KvSeqs -> [CellsOf(mode) -> Cell]]
  <2>1. cells = [st \in KvSeqs |-> [i \in CellsOf(mode) |-> cells[st][i]]]
    BY <1>2
  <2> HIDE DEF cells
  <2>2. QED
    BY <1>3, <2>1
<1>5. head \in [KvSeqs -> Nat]
  <2>1. ASSUME NEW st \in KvSeqs PROVE ordinal(st) \in KvSeqs
    <3> DEFINE B == {x \in StreamsOf(u.ub) : x < st}
    <3>1. KvSeqs = 0 .. Cardinality(KvSeqs) - 1 /\ Cardinality(KvSeqs) \in Nat /\ st \in Nat
      BY Facts, FS_CardinalityType, KvAssumption DEF Plain
    <3>2. StreamsOf(u.ub) \subseteq KvSeqs
      BY <1>2, TokenParts DEF StreamsOf
    <3>3. B \subseteq 0 .. st - 1
      BY <3>1, <3>2
    <3>4. IsFiniteSet(0 .. st - 1) /\ Cardinality(0 .. st - 1) = st
      <4>1. Cardinality(0 .. st - 1) = IF 0 > st - 1 THEN 0 ELSE st - 1 - 0 + 1
        BY <3>1, FS_Interval
      <4>2. QED
        BY <3>1, <4>1, FS_Interval
    <3> HIDE DEF B
    <3>5. Cardinality(B) \in Nat /\ Cardinality(B) <= st
      <4> DEFINE I == 0 .. st - 1
      <4>1. IsFiniteSet(I) /\ Cardinality(I) = st /\ B \subseteq I
        BY <3>3, <3>4
      <4> HIDE DEF I
      <4>2. IsFiniteSet(B) /\ Cardinality(B) <= Cardinality(I)
        BY <4>1, FS_Subset
      <4>3. Cardinality(B) \in Nat
        BY <4>2, FS_CardinalityType
      <4>4. QED
        BY <4>1, <4>2, <4>3
    <3> DEFINE c == Cardinality(B)
               N == Cardinality(KvSeqs)
    <3>6. c \in Nat /\ c <= st /\ N \in Nat /\ KvSeqs = 0 .. N - 1 /\ st \in Nat
      BY <3>1, <3>5
    <3> HIDE DEF c, N
    <3>7. c \in KvSeqs
      BY <3>6
    <3>8. QED
      BY <3>7 DEF c, B
  <2> HIDE DEF ordinal
  <2>2. \A st \in KvSeqs : m.head[st] \in Nat /\ u.old.head[st] \in Nat
    BY <1>2, MemoryParts
  <2>3. QED
    BY <2>1, <2>2
<1> HIDE DEF cells, head
<1>6. new \in Memory(mode) /\ new.cells = cells /\ new.rows = m.rows
  BY <1>4, <1>5 DEF Memory
<1>7. QED
  BY <1>1, <1>3, <1>6

\* One ubatch is taken back after the other.
LEMMA UndoneRuns ==
    ASSUME Plain, NEW ss \in Seq(Record(mode)), NEW base \in Memory(mode)
    PROVE  \E g \in [0 .. Len(ss) -> Memory(mode)] :
              /\ g[0] = base /\ FoldLeft(Undone, base, ss) = g[Len(ss)]
              /\ \A i \in 1 .. Len(ss) : g[i] = Undone(g[i - 1], ss[i])
<1> DEFINE n == Len(ss)
           S == Memory(mode)
           step == [i \in 1 .. n |-> [acc \in S |-> Undone(acc, ss[i])]]
           Is(h) == h = [s \in SUBSET DOMAIN ss |->
                            IF s = {} THEN base ELSE Undone(h[s \ {Max(s)}], ss[Max(s)])]
           h == CHOOSE f : Is(f)
<1>1. n \in Nat /\ DOMAIN ss = 1 .. n /\ \A i \in 1 .. n : ss[i] \in Record(mode)
  OBVIOUS
<1>2. FoldLeft(Undone, base, ss) = h[DOMAIN ss]
  BY DEF FoldLeft, MapThenFoldSet
<1>3. base \in S /\ \A i \in 1 .. n : \A acc \in S : Undone(acc, ss[i]) \in S
  BY <1>1, UndoneIs
<1> HIDE DEF n, S
<1>4. Steps(step, n, S)
  BY <1>3 DEF Steps
<1>5. PICK f \in [SUBSET (1 .. n) -> S] : IsFold(f, step, n, base)
  <2> HIDE DEF step
  <2>1. QED
    BY <1>1, <1>3, <1>4, FoldExists DEF HasFold
<1>6. Is(f)
  <2>1. ASSUME NEW s \in SUBSET (1 .. n)
        PROVE  f[s] = IF s = {} THEN base ELSE Undone(f[s \ {Max(s)}], ss[Max(s)])
    <3>1. CASE s = {}
      BY <1>5, <3>1 DEF IsFold
    <3>2. CASE s # {}
      <4>1. Max(s) \in 1 .. n /\ f[s] = step[Max(s)][f[s \ {Max(s)}]] /\ f[s \ {Max(s)}] \in S
        BY <1>5, <3>2 DEF IsFold
      <4>2. QED
        BY <3>2, <4>1
    <3>3. QED
      BY <3>1, <3>2
  <2>2. f = [s \in SUBSET (1 .. n) |-> f[s]]
    BY <1>5
  <2>3. QED
    BY <1>1, <2>1, <2>2
<1>7. \A s \in SUBSET (1 .. n) : h[s] = IF s = {} THEN base ELSE Undone(h[s \ {Max(s)}], ss[Max(s)])
  <2>1. Is(h)
    <3> HIDE DEF Is
    <3>1. QED
      BY <1>6
  <2>2. h = [s \in SUBSET DOMAIN ss |-> IF s = {} THEN base ELSE Undone(h[s \ {Max(s)}], ss[Max(s)])]
    BY <2>1
  <2> HIDE DEF h
  <2>3. QED
    BY <1>1, <2>2
<1> HIDE DEF h
<1>8. \A s \in SUBSET (1 .. n) : s # {} => Max(s) \in 1 .. n
  BY <1>5 DEF IsFold
<1>9. \A s \in SUBSET (1 .. n) : s # {} /\ h[s \ {Max(s)}] \in S => h[s] = step[Max(s)][h[s \ {Max(s)}]]
  BY <1>7, <1>8
<1>10. Folds(h, step, n, S, base)
  <2>1. h[{}] = base
    BY <1>7
  <2> HIDE DEF step
  <2>2. QED
    BY <1>9, <2>1 DEF Folds
<1>11. PICK g \in [0 .. n -> S] : IsRun(g, step, n, base) /\ g[n] = h[1 .. n]
  <2> HIDE DEF step
  <2>1. QED
    BY <1>1, <1>3, <1>4, <1>10, FoldIsRun
<1>12. \A i \in 1 .. n : g[i] = Undone(g[i - 1], ss[i])
  <2> TAKE i \in 1 .. n
  <2>1. i - 1 \in 0 .. n /\ g[i] = step[i][g[i - 1]]
    BY <1>1, <1>11 DEF IsRun
  <2>2. g[i - 1] \in S
    BY <2>1
  <2>3. QED
    BY <2>1, <2>2
<1>13. g[0] = base /\ FoldLeft(Undone, base, ss) = g[n]
  BY <1>1, <1>2, <1>11 DEF IsRun
<1>14. QED
  BY <1>12, <1>13 DEF n, S

\* However the trial ends, the cells are as before; if it succeeds, the ubatches
\* have places in cells that are free.
LEMMA PreparedFacts ==
    ASSUME Plain, NEW m \in Memory(mode), Owned(mode, m), NEW ubs \in Seq(Seq(Token))
    PROVE  LET p == Prepared(m, ubs)
           IN /\ p.m \in Memory(mode) /\ p.m.cells = m.cells /\ p.m.rows = m.rows
              /\ p.ok \in BOOLEAN /\ p.ubs = ubs
              /\ p.ok => Places(mode, m, ubs, p.found, Len(ubs))
<1> DEFINE base == [m |-> m, ok |-> TRUE, found |-> <<>>, undo |-> <<>>]
           n == Len(ubs)
<1>1. base \in Trials(mode) /\ base.undo = <<>> /\ base.m = m /\ base.found = <<>>
  BY DEF Trials
<1>2. Tells(mode, m, ubs, base, 0)
  <2>1. DOMAIN base.undo = {} /\ Len(base.undo) = 0 /\ Before(base, 0) = m /\ Len(base.found) = 0
    BY <1>1 DEF Before
  <2>2. \A v : v \notin 1 .. 0
    OBVIOUS
  <2> HIDE DEF base
  <2>3. Undoable(mode, m, base)
    BY <2>1 DEF Undoable
  <2>4. Places(mode, m, ubs, base.found, 0) /\ Fills(mode, m, base.m, ubs, base.found, 0)
    BY <1>1, <2>2 DEF Places, Fills
  <2>5. QED
    BY <2>1, <2>3, <2>4 DEF Tells
<1>3. n \in Nat /\ DOMAIN ubs = 1 .. n
  OBVIOUS
<1> HIDE DEF base
<1>4. PICK g \in [0 .. n -> Trials(mode)] :
         /\ g[0] = base /\ FoldLeft(Try, base, ubs) = g[n]
         /\ \A i \in 1 .. n : g[i] = Try(g[i - 1], ubs[i])
  BY <1>1, TryRuns
<1> HIDE DEF n
<1>5. \A i \in 0 .. n : Tells(mode, m, ubs, g[i], i)
  <2> DEFINE S == {i \in 0 .. n : Tells(mode, m, ubs, g[i], i)}
  <2>1. 0 \in S
    BY <1>2, <1>3, <1>4
  <2>2. ASSUME NEW i \in S, i + 1 <= n PROVE i + 1 \in S
    <3>1. i + 1 \in 1 .. n /\ i + 1 - 1 = i /\ i \in Nat /\ g[i] \in Trials(mode)
      BY <1>3, <1>4, <2>2
    <3>2. g[i + 1] = Try(g[i], ubs[i + 1])
      BY <1>4, <3>1
    <3>3. QED
      BY <1>3, <2>2, <3>1, <3>2, TryTells
  <2>3. S \in SUBSET Nat
    BY <1>3
  <2> HIDE DEF S
  <2>4. \A i \in 0 .. n : i \in S
    BY <1>3, <2>1, <2>2, <2>3, InductionUpTo
  <2>5. QED
    BY <2>4 DEF S
<1> DEFINE t == Tried(m, ubs)
<1>6. t = g[n] /\ t \in Trials(mode) /\ Tells(mode, m, ubs, t, n)
  BY <1>3, <1>4, <1>5 DEF Tried, base
<1> HIDE DEF t
<1>7. t.undo \in Seq(Record(mode)) /\ t.m \in Memory(mode) /\ t.ok \in BOOLEAN
  BY <1>6, TrialParts DEF Record
<1> DEFINE l == Len(t.undo)
<1>8. l \in Nat /\ DOMAIN t.undo = 1 .. l /\ \A j \in 1 .. l : t.undo[j] \in Record(mode)
  BY <1>7
<1>9. PICK f \in [0 .. l -> Memory(mode)] :
         /\ f[0] = t.m /\ FoldLeft(Undone, t.m, t.undo) = f[l]
         /\ \A i \in 1 .. l : f[i] = Undone(f[i - 1], t.undo[i])
  BY <1>7, UndoneRuns
<1> HIDE DEF l
<1>10. \A j \in 0 .. l : f[j].cells = Before(t, j).cells /\ f[j].rows = Before(t, j).rows
  <2> DEFINE S == {j \in 0 .. l : f[j].cells = Before(t, j).cells /\ f[j].rows = Before(t, j).rows}
  <2>1. 0 \in S
    BY <1>8, <1>9 DEF Before
  <2>2. ASSUME NEW i \in S, i + 1 <= l PROVE i + 1 \in S
    <3> DEFINE u == t.undo[i + 1]
               new == Undone(f[i], u)
    <3>1. /\ i + 1 \in 1 .. l /\ i + 1 - 1 = i /\ i \in Nat /\ f[i] \in Memory(mode) /\ i + 1 # 0
          /\ i + 1 \in DOMAIN t.undo /\ i + 1 \in 0 .. l
      BY <1>8, <1>9, <2>2
    <3>2. f[i + 1] = new /\ u \in Record(mode) /\ u.old \in Memory(mode) /\ Before(t, i + 1) = u.old
      <4>1. f[i + 1] = new /\ u \in Record(mode) /\ Before(t, i + 1) = u.old
        BY <1>8, <1>9, <3>1 DEF Before
      <4> HIDE DEF u
      <4>2. QED
        BY <4>1 DEF Record
    <3>3. /\ \A st \in KvSeqs, c \in CellsOf(mode) :
                ~Taking(mode, u.ub, u.idx, st, c) => f[i].cells[st][c] = u.old.cells[st][c]
          /\ f[i].rows = u.old.rows
      <4>1. Undoable(mode, m, t)
        BY <1>6 DEF Tells
      <4>2. /\ \A st \in KvSeqs, c \in CellsOf(mode) :
                  ~Taking(mode, u.ub, u.idx, st, c) => Before(t, i).cells[st][c] = u.old.cells[st][c]
            /\ Before(t, i).rows = u.old.rows
        BY <3>1, <4>1 DEF Undoable
      <4>3. f[i].cells = Before(t, i).cells /\ f[i].rows = Before(t, i).rows
        BY <2>2
      <4> HIDE DEF u
      <4>4. QED
        BY <4>2, <4>3
    <3> HIDE DEF u
    <3>4. /\ new \in Memory(mode) /\ new.rows = f[i].rows
          /\ \A st \in KvSeqs, c \in CellsOf(mode) : new.cells[st][c] = u.old.cells[st][c]
      BY <3>1, <3>2, <3>3, UndoneIs
    <3>5. new.cells \in [KvSeqs -> [CellsOf(mode) -> Cell]] /\ u.old.cells \in [KvSeqs -> [CellsOf(mode) -> Cell]]
      BY <3>2, <3>4 DEF Memory
    <3> HIDE DEF new
    <3>6. new.cells = u.old.cells
      <4> DEFINE a == new.cells
                 b == u.old.cells
      <4>1. a \in [KvSeqs -> [CellsOf(mode) -> Cell]] /\ b \in [KvSeqs -> [CellsOf(mode) -> Cell]]
            /\ \A st \in KvSeqs, c \in CellsOf(mode) : a[st][c] = b[st][c]
        BY <3>4, <3>5
      <4> HIDE DEF a, b
      <4>2. \A st \in KvSeqs : a[st] = b[st]
        BY <4>1
      <4>3. a = b
        BY <4>1, <4>2
      <4>4. QED
        BY <4>3 DEF a, b
    <3>7. QED
      BY <3>1, <3>2, <3>3, <3>4, <3>6
  <2>3. S \in SUBSET Nat
    BY <1>8
  <2> HIDE DEF S
  <2>4. \A j \in 0 .. l : j \in S
    BY <1>8, <2>1, <2>2, <2>3, InductionUpTo
  <2>5. QED
    BY <2>4 DEF S
<1>11. f[l].cells = m.cells /\ f[l].rows = m.rows /\ f[l] \in Memory(mode)
  <2>1. Undoable(mode, m, t)
    BY <1>6 DEF Tells
  <2>2. Before(t, l).cells = m.cells /\ Before(t, l).rows = m.rows
    BY <2>1 DEF Undoable, l
  <2>3. l \in 0 .. l
    BY <1>8
  <2>4. QED
    BY <1>9, <1>10, <2>2, <2>3
<1>12. t.ok => Places(mode, m, ubs, t.found, n)
  BY <1>6 DEF Tells
<1>13. Prepared(m, ubs) = [m |-> f[l], ok |-> t.ok, found |-> t.found, ubs |-> ubs]
  BY <1>9 DEF Prepared, t
<1>14. QED
  BY <1>7, <1>11, <1>12, <1>13 DEF n

-----------------------------------------------------------------------------
\* The tokens of a sequence come in the order of their positions.
Ordered(b) == \A j, k \in DOMAIN b : j < k /\ b[j].seq = b[k].seq => b[j].pos < b[k].pos

\* Ubatches that bring each token of a batch once, those of a sequence in order.
Divides(ubs, b) ==
    /\ ubs \in Seq(Seq(Token))
    /\ \A u \in DOMAIN ubs : \A k \in DOMAIN ubs[u] : \E j \in DOMAIN b : ubs[u][k] = b[j]
    /\ \A j \in DOMAIN b : \E u \in DOMAIN ubs : \E k \in DOMAIN ubs[u] : ubs[u][k] = b[j]
    /\ \A u, v \in DOMAIN ubs : \A k \in DOMAIN ubs[u], l \in DOMAIN ubs[v] :
          /\ ubs[u][k].seq = ubs[v][l].seq /\ ubs[u][k].pos = ubs[v][l].pos => u = v /\ k = l
          /\ ubs[u][k].seq = ubs[v][l].seq /\ u < v => ubs[u][k].pos < ubs[v][l].pos

\* No two tokens of a batch in order are the same.
LEMMA OrderedOnce ==
    ASSUME NEW b \in Seq(Token), Ordered(b)
    PROVE  \A j, k \in DOMAIN b : b[j].seq = b[k].seq /\ b[j].pos = b[k].pos => j = k
<1> TAKE j, k \in DOMAIN b
<1>1. j \in Nat /\ k \in Nat /\ b[j] \in Token /\ b[k] \in Token
  OBVIOUS
<1>2. b[j].pos \in Nat /\ b[k].pos \in Nat
  BY <1>1 DEF Token
<1>3. QED
  BY <1>1, <1>2 DEF Ordered

\* The numbers of one block are below those of the next.
LEMMA Blocks ==
    ASSUME NEW U \in Nat \ {0}, NEW u \in Nat, NEW v \in Nat, u < v
    PROVE  /\ u * U + U <= v * U
           /\ \A k, l \in 1 .. U : u * U + k < v * U + l
<1>1. PICK d \in Nat : v = u + 1 + d
  <2>1. v - u - 1 \in Nat /\ v = u + 1 + (v - u - 1)
    OBVIOUS
  <2>2. QED
    BY <2>1
<1>2. v * U = u * U + U + d * U
  BY <1>1
<1>3. d * U \in Nat /\ u * U \in Nat
  OBVIOUS
<1>4. u * U + U <= v * U
  BY <1>2, <1>3
<1>5. QED
  BY <1>2, <1>3

\* A simple split brings every token once, in order.
LEMMA SimpleDivides ==
    ASSUME Plain, NEW b \in Seq(Token), Ordered(b)
    PROVE  Divides(SimpleSplit(b), b)
<1> DEFINE U == UBatch
           L == Len(b)
           n == (L + U - 1) \div U
           low(u) == (u - 1) * U + 1
           high(u) == Min({u * U, L})
           ubs == [u \in 1 .. n |-> SubSeq(b, low(u), high(u))]
<1>1. SimpleSplit(b) = ubs
  BY DEF SimpleSplit
<1>2. U \in Nat \ {0} /\ L \in Nat /\ DOMAIN b = 1 .. L /\ \A j \in 1 .. L : b[j] \in Token
  BY Facts
<1> HIDE DEF U, L
<1>3. n \in Nat /\ n * U <= L + U - 1 /\ L + U - 1 < n * U + U
  <2> DEFINE x == L + U - 1
             r == x % U
             q == x \div U
  <2>1. x \in Nat
    BY <1>2
  <2> HIDE DEF x
  <2>2. q \in Nat /\ r = x - U * q /\ r \in 0 .. U - 1
    BY <1>2, <2>1
  <2>3. q * U = U * q /\ U * q \in Nat
    BY <1>2, <2>2
  <2> HIDE DEF r, q
  <2>4. q * U <= x /\ x < q * U + U
    BY <1>2, <2>1, <2>2, <2>3
  <2>5. QED
    BY <2>2, <2>4 DEF x, q
<1> HIDE DEF n
<1>4. ASSUME NEW u \in 1 .. n
      PROVE  /\ low(u) \in Nat /\ 1 <= low(u) /\ low(u) <= high(u) /\ high(u) <= L /\ high(u) \in Nat
             /\ high(u) <= low(u) + U - 1
             /\ high(u) = low(u) + U - 1 \/ high(u) = L
  <2>1. u * U = (u - 1) * U + U /\ (u - 1) * U \in Nat /\ u * U \in Nat
    BY <1>2, <1>3
  <2>2. u * U <= n * U
    <3>1. CASE u = n
      <4>1. u * U \in Nat
        BY <2>1
      <4>2. QED
        BY <3>1, <4>1
    <3>2. CASE u < n
      <4>1. u * U + U <= n * U
        BY <1>2, <1>3, <3>2, Blocks
      <4>2. n * U \in Nat
        BY <1>2, <1>3
      <4>3. QED
        BY <1>2, <2>1, <4>1, <4>2
    <3>3. QED
      BY <1>3, <3>1, <3>2
  <2> DEFINE a == u * U
             c == (u - 1) * U
             d == n * U
  <2>3. a \in Nat /\ c \in Nat /\ d \in Nat /\ a = c + U /\ a <= d /\ d <= L + U - 1
    BY <1>2, <1>3, <2>1, <2>2
  <2> HIDE DEF a, c, d
  <2>4. c + 1 <= L /\ c + 1 <= a
    BY <1>2, <2>3
  <2>5. Min({a, L}) \in {a, L} /\ Min({a, L}) <= a /\ Min({a, L}) <= L
    <3>1. {a, L} \in SUBSET Nat /\ {a, L} # {}
      BY <1>2, <2>3
    <3>2. QED
      BY <3>1, SmallestExists
  <2> DEFINE h == Min({a, L})
  <2>6. h \in {a, L} /\ h <= a /\ h <= L
    BY <2>5
  <2> HIDE DEF h
  <2>7. h \in Nat /\ 1 <= c + 1 /\ c + 1 <= h /\ h <= c + 1 + U - 1 /\ (h = c + 1 + U - 1 \/ h = L)
    BY <1>2, <2>3, <2>4, <2>6
  <2>8. low(u) = c + 1 /\ high(u) = h
    BY DEF c, h, a
  <2> HIDE DEF low, high
  <2>9. QED
    BY <1>2, <2>3, <2>6, <2>7, <2>8
<1>5. ASSUME NEW u \in 1 .. n
      PROVE  /\ ubs[u] \in Seq(Token) /\ DOMAIN ubs[u] = 1 .. high(u) - low(u) + 1
             /\ \A k \in DOMAIN ubs[u] : /\ k \in 1 .. U /\ low(u) + k - 1 \in 1 .. L
                                         /\ ubs[u][k] = b[low(u) + k - 1]
  <2> DEFINE lo == low(u)
             hi == high(u)
  <2>1. lo \in Nat /\ hi \in Nat /\ 1 <= lo /\ lo <= hi /\ hi <= L /\ hi <= lo + U - 1
    BY <1>4
  <2>2. ubs[u] = SubSeq(b, lo, hi)
    OBVIOUS
  <2> HIDE DEF lo, hi, ubs
  <2>3. /\ SubSeq(b, lo, hi) \in Seq(Token) /\ DOMAIN SubSeq(b, lo, hi) = 1 .. hi - lo + 1
        /\ \A k \in 1 .. hi - lo + 1 : SubSeq(b, lo, hi)[k] = b[lo + k - 1]
    <3>1. SubSeq(b, lo, hi) = [k \in 1 .. hi - lo + 1 |-> b[lo + k - 1]]
      BY <1>2, <2>1 DEF L
    <3>2. \A k \in 1 .. hi - lo + 1 : lo + k - 1 \in 1 .. L
      BY <1>2, <2>1
    <3> DEFINE d == hi - lo + 1
               w == SubSeq(b, lo, hi)
    <3>3. d \in Nat
      BY <2>1
    <3>4. \A k \in 1 .. d : b[lo + k - 1] \in Token
      BY <1>2, <3>2
    <3>5. w = [k \in 1 .. d |-> b[lo + k - 1]]
      BY <3>1
    <3> HIDE DEF d, w
    <3>6. w \in Seq(Token) /\ DOMAIN w = 1 .. d /\ \A k \in 1 .. d : w[k] = b[lo + k - 1]
      BY <3>3, <3>4, <3>5
    <3>7. QED
      BY <3>6 DEF d, w
  <2>4. \A k \in 1 .. hi - lo + 1 : k \in 1 .. U /\ lo + k - 1 \in 1 .. L
    BY <1>2, <2>1
  <2>5. QED
    BY <2>2, <2>3, <2>4 DEF lo, hi
<1>6. DOMAIN ubs = 1 .. n /\ ubs \in Seq(Seq(Token))
  <2>1. DOMAIN ubs = 1 .. n
    OBVIOUS
  <2>2. ubs = [u \in 1 .. n |-> ubs[u]]
    OBVIOUS
  <2> HIDE DEF ubs
  <2> DEFINE T == Seq(Token)
  <2>3. \A u \in 1 .. n : ubs[u] \in T
    BY <1>5
  <2> HIDE DEF T
  <2>4. ubs \in Seq(T)
    BY <1>3, <2>2, <2>3
  <2>5. QED
    BY <2>1, <2>4 DEF T
<1>7. ASSUME NEW j \in DOMAIN b PROVE \E u \in DOMAIN ubs : \E k \in DOMAIN ubs[u] : ubs[u][k] = b[j]
  <2> DEFINE x == j - 1
             q == x \div U
             r == x % U
  <2>1. x \in Nat /\ x <= L - 1 /\ x + 1 = j
    BY <1>2
  <2> HIDE DEF x
  <2>2. q \in Nat /\ r = x - U * q /\ r \in 0 .. U - 1
    BY <1>2, <2>1
  <2>3. q * U = U * q /\ U * q \in Nat /\ (q + 1 - 1) * U = q * U
    BY <1>2, <2>2
  <2> HIDE DEF q, r
  <2>4. q + 1 \in 1 .. n
    <3>1. q * U < n * U
      <4>1. n * U \in Nat /\ q * U \in Nat
        BY <1>2, <1>3, <2>3
      <4>2. q * U <= L - 1
        BY <1>2, <2>1, <2>2, <2>3
      <4>3. L - 1 < n * U
        BY <1>2, <1>3, <4>1
      <4>4. QED
        BY <1>2, <4>1, <4>2, <4>3
    <3>2. ~(n < q)
      <4>1. ASSUME n < q PROVE FALSE
        <5>1. n * U + U <= q * U
          BY <1>2, <1>3, <2>2, <4>1, Blocks
        <5>2. n * U \in Nat /\ q * U \in Nat
          BY <1>2, <1>3, <2>3
        <5>3. QED
          BY <1>2, <3>1, <5>1, <5>2
      <4>2. QED
        BY <4>1
    <3>3. n # q
      <4>1. q * U \in Nat
        BY <1>2, <2>3
      <4>2. QED
        BY <3>1, <4>1
    <3>4. QED
      BY <1>3, <2>2, <3>2, <3>3
  <2>5. low(q + 1) = q * U + 1 /\ low(q + 1) + (r + 1) - 1 = j
    <3>1. low(q + 1) = q * U + 1
      <4> DEFINE w == q + 1
      <4>1. w - 1 = q
        BY <2>2
      <4> HIDE DEF w
      <4>2. low(w) = (w - 1) * U + 1
        OBVIOUS
      <4>3. low(w) = q * U + 1
        BY <4>1, <4>2
      <4>4. QED
        BY <4>3 DEF w
    <3> DEFINE l == low(q + 1)
               p == q * U
    <3>2. l = p + 1 /\ p \in Nat /\ r = x - p
      BY <2>2, <2>3, <3>1
    <3> HIDE DEF l, p
    <3>3. l + (r + 1) - 1 = j
      BY <1>2, <2>1, <2>2, <3>2
    <3>4. QED
      BY <3>1, <3>3 DEF l
  <2>6. r + 1 \in DOMAIN ubs[q + 1]
    <3> DEFINE l == low(q + 1)
               h == high(q + 1)
    <3>1. l \in Nat /\ h \in Nat /\ l <= h /\ (h = l + U - 1 \/ h = L) /\ l + r = j
      <4>1. low(q + 1) \in Nat
        BY <1>4, <2>4
      <4> HIDE DEF low, high
      <4>2. l + r = j
        BY <1>2, <2>2, <2>5, <4>1
      <4>3. QED
        BY <1>4, <2>4, <4>2
    <3> HIDE DEF l, h
    <3>2. r + 1 \in 1 .. h - l + 1
      BY <1>2, <2>1, <2>2, <3>1
    <3>3. QED
      BY <1>5, <2>4, <3>2 DEF l, h
  <2>7. ubs[q + 1][r + 1] = b[j]
    BY <1>5, <2>4, <2>5, <2>6
  <2> HIDE DEF ubs
  <2>8. QED
    BY <1>6, <2>4, <2>6, <2>7
<1>8. ASSUME NEW u \in 1 .. n, NEW v \in 1 .. n, NEW k \in DOMAIN ubs[u], NEW l \in DOMAIN ubs[v],
             ubs[u][k].seq = ubs[v][l].seq
      PROVE  /\ u < v => ubs[u][k].pos < ubs[v][l].pos
             /\ ubs[u][k].pos = ubs[v][l].pos => u = v /\ k = l
  <2> DEFINE i == low(u) + k - 1
             j == low(v) + l - 1
  <2>1. /\ i \in DOMAIN b /\ j \in DOMAIN b /\ ubs[u][k] = b[i] /\ ubs[v][l] = b[j]
        /\ k \in 1 .. U /\ l \in 1 .. U
    BY <1>2, <1>5
  <2>2. \A p \in 1 .. n : p - 1 \in Nat /\ (p - 1) * U \in Nat
    BY <1>2, <1>3
  <2>3. i = (u - 1) * U + k /\ j = (v - 1) * U + l
    <3> HIDE DEF ubs
    <3>1. (u - 1) * U \in Nat /\ (v - 1) * U \in Nat
      BY <2>2
    <3>2. k \in Nat /\ l \in Nat
      BY <1>2, <2>1
    <3>3. QED
      BY <3>1, <3>2
  <2> HIDE DEF ubs
  <2>4. u < v => i < j
    <3>1. ASSUME u < v PROVE i < j
      <4>1. u - 1 < v - 1
        BY <3>1, <2>2
      <4> HIDE DEF i, j
      <4>2. (u - 1) * U + k < (v - 1) * U + l
        BY <1>2, <2>1, <2>2, <4>1, Blocks
      <4>3. QED
        BY <2>3, <4>2
    <3>2. QED
      BY <3>1
  <2>5. v < u => j < i
    <3>1. ASSUME v < u PROVE j < i
      <4>1. v - 1 < u - 1
        BY <3>1, <2>2
      <4> HIDE DEF i, j
      <4>2. (v - 1) * U + l < (u - 1) * U + k
        BY <1>2, <2>1, <2>2, <4>1, Blocks
      <4>3. QED
        BY <2>3, <4>2
    <3>2. QED
      BY <3>1
  <2>6. i = j => u = v /\ k = l
    <3>1. ASSUME i = j PROVE u = v /\ k = l
      <4>1. i \in Nat /\ j \in Nat
        BY <1>2, <2>1
      <4>2. u = v
        <5> HIDE DEF i, j
        <5>1. QED
          BY <3>1, <2>4, <2>5, <4>1
      <4>3. k = l
        <5> DEFINE c == (u - 1) * U
        <5>1. c \in Nat /\ c + k = c + l
          BY <2>2, <2>3, <3>1, <4>2
        <5> HIDE DEF c
        <5>2. QED
          BY <2>1, <5>1
      <4>4. QED
        BY <4>2, <4>3
    <3>2. QED
      BY <3>1
  <2> HIDE DEF i, j
  <2>7. u < v => ubs[u][k].pos < ubs[v][l].pos
    BY <1>8, <2>1, <2>4 DEF Ordered
  <2>8. ubs[u][k].pos = ubs[v][l].pos => u = v /\ k = l
    BY <1>8, <2>1, <2>6, OrderedOnce
  <2>9. QED
    BY <2>7, <2>8
<1>9. \A u \in DOMAIN ubs : \A k \in DOMAIN ubs[u] : \E j \in DOMAIN b : ubs[u][k] = b[j]
  <2> HIDE DEF ubs
  <2>1. QED
    BY <1>2, <1>5, <1>6
<1> HIDE DEF ubs
<1>10. Divides(ubs, b)
  <2>1. ASSUME NEW u \in DOMAIN ubs, NEW v \in DOMAIN ubs, NEW k \in DOMAIN ubs[u], NEW l \in DOMAIN ubs[v]
        PROVE  /\ ubs[u][k].seq = ubs[v][l].seq /\ ubs[u][k].pos = ubs[v][l].pos => u = v /\ k = l
               /\ ubs[u][k].seq = ubs[v][l].seq /\ u < v => ubs[u][k].pos < ubs[v][l].pos
    <3>1. u \in 1 .. n /\ v \in 1 .. n
      BY <1>6
    <3>2. CASE ubs[u][k].seq = ubs[v][l].seq
      <4>1. /\ u < v => ubs[u][k].pos < ubs[v][l].pos
            /\ ubs[u][k].pos = ubs[v][l].pos => u = v /\ k = l
        BY <1>8, <3>1, <3>2
      <4>2. QED
        BY <3>2, <4>1
    <3>3. QED
      BY <3>2
  <2>2. QED
    BY <1>6, <1>7, <1>9, <2>1 DEF Divides
<1>11. QED
  BY <1>1, <1>10

\* A part of a sequence that leaves an element out is shorter.
LEMMA ThinnedShorter ==
    ASSUME NEW T, NEW new \in Seq(T), NEW old \in Seq(T), NEW kept \in SUBSET DOMAIN old,
           Thinned(new, old, kept), NEW k \in DOMAIN old, k \notin kept
    PROVE  Len(new) < Len(old)
<1>1. PICK h \in [DOMAIN new -> kept] : \A i, j \in DOMAIN new : h[i] = h[j] => i = j
  BY ThinnedFrom
<1> DEFINE N == Len(new)
           O == Len(old)
           D == 1 .. N
           W == 1 .. O
<1>2. N \in Nat /\ O \in Nat /\ DOMAIN new = D /\ DOMAIN old = W
  OBVIOUS
<1>3. IsFiniteSet(D) /\ Cardinality(D) = N /\ IsFiniteSet(W) /\ Cardinality(W) = O
  <2>1. \A n \in Nat : IsFiniteSet(1 .. n) /\ Cardinality(1 .. n) = n
    <3> TAKE n \in Nat
    <3>1. IsFiniteSet(1 .. n) /\ Cardinality(1 .. n) = IF 1 > n THEN 0 ELSE n - 1 + 1
      BY FS_Interval
    <3>2. QED
      BY <3>1
  <2>2. QED
    BY <1>2, <2>1
<1> HIDE DEF N, O, D, W
<1>4. kept \in SUBSET W /\ kept # W
  BY <1>2
<1>5. IsFiniteSet(kept) /\ Cardinality(kept) <= O /\ Cardinality(kept) # O
  BY <1>3, <1>4, FS_Subset
<1>6. ~(Cardinality(kept) < Cardinality(D))
  <2>1. ASSUME Cardinality(kept) < Cardinality(D) PROVE FALSE
    <3>1. h \in [D -> kept]
      BY <1>2
    <3>2. \E x, y \in D : x # y /\ h[x] = h[y]
      BY <1>3, <1>5, <2>1, <3>1, FS_PigeonHole
    <3>3. QED
      BY <1>1, <1>2, <3>2
  <2>2. QED
    BY <2>1
<1>7. Cardinality(kept) \in Nat
  BY <1>5, FS_CardinalityType
<1>8. QED
  BY <1>2, <1>3, <1>5, <1>6, <1>7 DEF N, O

\* The tokens of one sequence, in the order they come.
LEMMA OfIs ==
    ASSUME NEW b \in Seq(Token), NEW s
    PROVE  LET o == Of(b, s)
           IN /\ o \in Seq(Token)
              /\ \A i \in DOMAIN o : o[i].seq = s /\ \E k \in DOMAIN b : o[i] = b[k]
              /\ \A k \in DOMAIN b : b[k].seq = s => \E i \in DOMAIN o : o[i] = b[k]
              /\ Ordered(b) => \A i, j \in DOMAIN o : i < j => o[i].pos < o[j].pos
<1> DEFINE kept == {k \in DOMAIN b : b[k].seq = s}
           o == SubseqAt(b, kept)
<1>1. kept \in SUBSET DOMAIN b /\ o = Of(b, s)
  BY DEF Of
<1> HIDE DEF o
<1>2. o \in Seq(Token) /\ Thinned(o, b, kept)
  BY <1>1, SubseqThins DEF o
<1>3. PICK h \in [DOMAIN o -> kept] :
        /\ \A i, j \in DOMAIN o : i < j => h[i] < h[j]
        /\ \A k \in kept : \E i \in DOMAIN o : h[i] = k
        /\ \A i \in DOMAIN o : o[i] = b[h[i]]
  BY <1>2 DEF Thinned
<1>4. \A i \in DOMAIN o : h[i] \in DOMAIN b /\ b[h[i]].seq = s
  BY <1>3
<1>5. \A k \in DOMAIN b : b[k].seq = s => \E i \in DOMAIN o : o[i] = b[k]
  BY <1>3
<1>6. Ordered(b) => \A i, j \in DOMAIN o : i < j => o[i].pos < o[j].pos
  BY <1>3, <1>4 DEF Ordered
<1>7. QED
  BY <1>1, <1>2, <1>3, <1>4, <1>5, <1>6

\* The sequences of a ubatch are sequences.
LEMMA TakeType ==
    ASSUME NEW who \in Seq(KvSeqs), NEW t \in Token
    PROVE  TakeSeq(who, t) \in Seq(KvSeqs)
BY DEF TakeSeq, Token

\* One token after the other may bring a sequence.
LEMMA TakenRuns ==
    ASSUME NEW ss \in Seq(Token), NEW base \in Seq(KvSeqs)
    PROVE  \E g \in [0 .. Len(ss) -> Seq(KvSeqs)] :
              /\ g[0] = base /\ FoldLeft(TakeSeq, base, ss) = g[Len(ss)]
              /\ \A i \in 1 .. Len(ss) : g[i] = TakeSeq(g[i - 1], ss[i])
<1> DEFINE n == Len(ss)
           S == Seq(KvSeqs)
           step == [i \in 1 .. n |-> [acc \in S |-> TakeSeq(acc, ss[i])]]
           Is(h) == h = [s \in SUBSET DOMAIN ss |->
                            IF s = {} THEN base ELSE TakeSeq(h[s \ {Max(s)}], ss[Max(s)])]
           h == CHOOSE f : Is(f)
<1>1. n \in Nat /\ DOMAIN ss = 1 .. n /\ \A i \in 1 .. n : ss[i] \in Token
  OBVIOUS
<1>2. FoldLeft(TakeSeq, base, ss) = h[DOMAIN ss]
  BY DEF FoldLeft, MapThenFoldSet
<1>3. base \in S /\ \A i \in 1 .. n : \A acc \in S : TakeSeq(acc, ss[i]) \in S
  BY <1>1, TakeType
<1> HIDE DEF n, S
<1>4. Steps(step, n, S)
  BY <1>3 DEF Steps
<1>5. PICK f \in [SUBSET (1 .. n) -> S] : IsFold(f, step, n, base)
  <2> HIDE DEF step
  <2>1. QED
    BY <1>1, <1>3, <1>4, FoldExists DEF HasFold
<1>6. Is(f)
  <2>1. ASSUME NEW s \in SUBSET (1 .. n)
        PROVE  f[s] = IF s = {} THEN base ELSE TakeSeq(f[s \ {Max(s)}], ss[Max(s)])
    <3>1. CASE s = {}
      BY <1>5, <3>1 DEF IsFold
    <3>2. CASE s # {}
      <4>1. Max(s) \in 1 .. n /\ f[s] = step[Max(s)][f[s \ {Max(s)}]] /\ f[s \ {Max(s)}] \in S
        BY <1>5, <3>2 DEF IsFold
      <4>2. QED
        BY <3>2, <4>1
    <3>3. QED
      BY <3>1, <3>2
  <2>2. f = [s \in SUBSET (1 .. n) |-> f[s]]
    BY <1>5
  <2>3. QED
    BY <1>1, <2>1, <2>2
<1>7. \A s \in SUBSET (1 .. n) : h[s] = IF s = {} THEN base ELSE TakeSeq(h[s \ {Max(s)}], ss[Max(s)])
  <2>1. Is(h)
    <3> HIDE DEF Is
    <3>1. QED
      BY <1>6
  <2>2. h = [s \in SUBSET DOMAIN ss |-> IF s = {} THEN base ELSE TakeSeq(h[s \ {Max(s)}], ss[Max(s)])]
    BY <2>1
  <2> HIDE DEF h
  <2>3. QED
    BY <1>1, <2>2
<1> HIDE DEF h
<1>8. \A s \in SUBSET (1 .. n) : s # {} => Max(s) \in 1 .. n
  BY <1>5 DEF IsFold
<1>9. \A s \in SUBSET (1 .. n) : s # {} /\ h[s \ {Max(s)}] \in S => h[s] = step[Max(s)][h[s \ {Max(s)}]]
  BY <1>7, <1>8
<1>10. Folds(h, step, n, S, base)
  <2>1. h[{}] = base
    BY <1>7
  <2> HIDE DEF step
  <2>2. QED
    BY <1>9, <2>1 DEF Folds
<1>11. PICK g \in [0 .. n -> S] : IsRun(g, step, n, base) /\ g[n] = h[1 .. n]
  <2> HIDE DEF step
  <2>1. QED
    BY <1>1, <1>3, <1>4, <1>10, FoldIsRun
<1>12. \A i \in 1 .. n : g[i] = TakeSeq(g[i - 1], ss[i])
  <2> TAKE i \in 1 .. n
  <2>1. i - 1 \in 0 .. n /\ g[i] = step[i][g[i - 1]]
    BY <1>1, <1>11 DEF IsRun
  <2>2. g[i - 1] \in S
    BY <2>1
  <2>3. QED
    BY <2>1, <2>2
<1>13. g[0] = base /\ FoldLeft(TakeSeq, base, ss) = g[n]
  BY <1>1, <1>2, <1>11 DEF IsRun
<1>14. QED
  BY <1>12, <1>13 DEF n, S

\* The sequences of an equal split are some that have tokens, each once.
LEMMA TakenIs ==
    ASSUME Plain, NEW b \in Seq(Token), b # <<>>
    PROVE  LET who == Taken(b)
           IN /\ who \in Seq(KvSeqs) /\ who # <<>>
              /\ \A i, j \in DOMAIN who : who[i] = who[j] => i = j
              /\ \A i \in DOMAIN who : \E k \in DOMAIN b : b[k].seq = who[i]
<1> DEFINE n == Len(b)
           P(w, i) == /\ i > 0 => w # <<>>
                      /\ \A p, q \in DOMAIN w : w[p] = w[q] => p = q
                      /\ \A p \in DOMAIN w : \E k \in DOMAIN b : b[k].seq = w[p]
<1>1. n \in Nat /\ n > 0 /\ DOMAIN b = 1 .. n /\ UBatch \in Nat \ {0} /\ \A i \in 1 .. n : b[i] \in Token
  BY Facts
<1>2. <<>> \in Seq(KvSeqs)
  OBVIOUS
<1>3. PICK g \in [0 .. n -> Seq(KvSeqs)] :
         /\ g[0] = <<>> /\ FoldLeft(TakeSeq, <<>>, b) = g[n]
         /\ \A i \in 1 .. n : g[i] = TakeSeq(g[i - 1], b[i])
  BY <1>2, TakenRuns
<1> HIDE DEF n
<1>4. ASSUME NEW i \in 0 .. n, P(g[i], i), i + 1 <= n PROVE P(g[i + 1], i + 1)
  <2> DEFINE w == g[i]
             t == b[i + 1]
  <2>1. w \in Seq(KvSeqs) /\ t \in Token /\ i + 1 \in DOMAIN b /\ t.seq \in KvSeqs
    <3>1. w \in Seq(KvSeqs) /\ t \in Token /\ i + 1 \in DOMAIN b
      BY <1>1, <1>3, <1>4
    <3> HIDE DEF t
    <3>2. QED
      BY <3>1 DEF Token
  <2>2. g[i + 1] = TakeSeq(w, t)
    <3>1. i + 1 \in 1 .. n /\ i + 1 - 1 = i
      BY <1>1, <1>4
    <3>2. QED
      BY <1>3, <3>1
  <2>3. P(w, i) /\ i + 1 > 0
    BY <1>4
  <2> HIDE DEF w
  <2>4. CASE w = <<>>
    <3>1. TakeSeq(w, t) = <<t.seq>>
      <4>1. ToSet(w) = {} /\ Len(w) = 0 /\ Append(w, t.seq) = <<t.seq>>
        BY <2>4 DEF ToSet
      <4>2. QED
        BY <1>1, <2>4, <4>1 DEF TakeSeq
    <3>2. Len(<<t.seq>>) = 1 /\ DOMAIN <<t.seq>> = {1} /\ <<t.seq>>[1] = t.seq /\ <<t.seq>> # <<>>
      OBVIOUS
    <3>3. P(<<t.seq>>, i + 1)
      <4> DEFINE v == <<t.seq>>
      <4>1. Len(v) = 1 /\ DOMAIN v = {1} /\ v[1] = t.seq /\ v # <<>>
        BY <3>2
      <4> HIDE DEF v
      <4>2. \A p \in DOMAIN v : v[p] = t.seq /\ p = 1
        BY <4>1
      <4>3. \A p \in DOMAIN v : \E k \in DOMAIN b : b[k].seq = v[p]
        BY <2>1, <4>2
      <4>4. P(v, i + 1)
        BY <4>1, <4>2, <4>3
      <4> HIDE DEF P
      <4>5. QED
        BY <4>4 DEF v
    <3> HIDE DEF P
    <3>4. QED
      BY <2>2, <3>1, <3>3
  <2>5. CASE w # <<>>
    <3>1. TakeSeq(w, t) \in {w, Append(w, t.seq)}
      BY DEF TakeSeq
    <3>2. CASE TakeSeq(w, t) = w
      <4>1. P(w, i + 1)
        BY <2>3, <2>5
      <4> HIDE DEF P
      <4>2. QED
        BY <2>2, <3>2, <4>1
    <3>3. CASE TakeSeq(w, t) # w
      <4>1. t.seq \notin ToSet(w) /\ TakeSeq(w, t) = Append(w, t.seq)
        BY <3>3 DEF TakeSeq
      <4> DEFINE v == Append(w, t.seq)
                 l == Len(w)
      <4>2. l \in Nat /\ Len(v) = l + 1 /\ DOMAIN w = 1 .. l /\ DOMAIN v = 1 .. l + 1 /\ v[l + 1] = t.seq
            /\ \A p \in 1 .. l : v[p] = w[p]
        BY <2>1
      <4>3. \A p \in 1 .. l : w[p] # t.seq
        BY <4>1, <4>2 DEF ToSet
      <4> HIDE DEF v, l
      <4>4. \A p, q \in DOMAIN v : v[p] = v[q] => p = q
        BY <2>3, <4>2, <4>3
      <4>5. \A p \in DOMAIN v : \E k \in DOMAIN b : b[k].seq = v[p]
        <5> TAKE p \in DOMAIN v
        <5>1. CASE p = l + 1
          BY <2>1, <4>2, <5>1
        <5>2. CASE p \in 1 .. l
          <6>1. PICK k \in DOMAIN b : b[k].seq = w[p]
            BY <2>3, <4>2, <5>2
          <6>2. QED
            BY <4>2, <5>2, <6>1
        <5>3. QED
          BY <4>2, <5>1, <5>2
      <4>6. v # <<>>
        BY <4>2
      <4>7. P(v, i + 1)
        BY <4>2, <4>4, <4>5, <4>6
      <4> HIDE DEF P
      <4>8. QED
        BY <2>2, <4>1, <4>7 DEF v
    <3>4. QED
      BY <3>2, <3>3
  <2>6. QED
    BY <2>4, <2>5
<1>5. P(g[0], 0)
  <2>1. Len(<<>>) = 0 /\ DOMAIN <<>> = {}
    OBVIOUS
  <2>2. QED
    BY <1>1, <1>3, <2>1
<1>6. \A i \in 0 .. n : P(g[i], i)
  <2> DEFINE S == {i \in 0 .. n : P(g[i], i)}
  <2>1. 0 \in S /\ S \in SUBSET Nat
    BY <1>1, <1>5
  <2> HIDE DEF P
  <2>2. \A i \in S : i + 1 <= n => i + 1 \in S
    BY <1>1, <1>4
  <2> HIDE DEF S
  <2>3. \A i \in 0 .. n : i \in S
    BY <1>1, <2>1, <2>2, InductionUpTo
  <2>4. QED
    BY <2>3 DEF S
<1>7. P(g[n], n) /\ g[n] \in Seq(KvSeqs) /\ Taken(b) = g[n]
  <2> HIDE DEF P
  <2>1. QED
    BY <1>1, <1>3, <1>6 DEF Taken
<1>8. QED
  BY <1>1, <1>7

\* A number is a multiple of another and a remainder.
LEMMA DivParts ==
    ASSUME NEW n \in Nat \ {0}, NEW x \in Nat
    PROVE  /\ x \div n \in Nat /\ x % n \in 0 .. n - 1 /\ x % n = x - n * (x \div n) /\ n * (x \div n) \in Nat
OBVIOUS

\* Which ones are theirs.
LEMMA DivOf ==
    ASSUME NEW n \in Nat \ {0}, NEW q \in Nat, NEW r \in 0 .. n - 1
    PROVE  (q * n + r) \div n = q /\ (q * n + r) % n = r
<1> DEFINE x == q * n + r
           p == x \div n
           y == x % n
<1>1. q * n \in Nat /\ x \in Nat
  OBVIOUS
<1>2. p \in Nat /\ y \in 0 .. n - 1 /\ y = x - n * p /\ n * p = p * n
  <2>1. x \in Nat
    BY <1>1
  <2> HIDE DEF x
  <2>2. p \in Nat /\ y \in 0 .. n - 1 /\ y = x - n * p
    BY <2>1, DivParts
  <2> HIDE DEF p
  <2>3. n * p = p * n
    BY <2>2
  <2>4. QED
    BY <2>2, <2>3
<1> HIDE DEF p, y
<1>3. ~(p < q)
  <2>1. ASSUME p < q PROVE FALSE
    <3>1. p * n + n <= q * n
      BY <1>2, <2>1, Blocks
    <3>2. p * n \in Nat
      BY <1>2
    <3>3. QED
      BY <1>1, <1>2, <3>1, <3>2
  <2>2. QED
    BY <2>1
<1>4. ~(q < p)
  <2>1. ASSUME q < p PROVE FALSE
    <3>1. q * n + n <= p * n
      BY <1>2, <2>1, Blocks
    <3>2. p * n \in Nat
      BY <1>2
    <3>3. QED
      BY <1>1, <1>2, <3>1, <3>2
  <2>2. QED
    BY <2>1
<1>5. p = q
  BY <1>2, <1>3, <1>4
<1>6. y = r
  <2> DEFINE z == q * n
  <2>1. n * p = z /\ z \in Nat /\ x = z + r
    BY <1>1, <1>2, <1>5
  <2> HIDE DEF z
  <2>2. QED
    BY <1>2, <2>1
<1>7. QED
  BY <1>5, <1>6 DEF p, y

\* A ubatch of an equal split takes the first tokens of some sequences.
LEMMA EqualUbatchIs ==
    ASSUME Plain, NEW b \in Seq(Token), b # <<>>
    PROVE  LET ub == EqualUbatch(b)
           IN /\ ub \in Seq(Token) /\ ub # <<>>
              /\ \A j \in DOMAIN ub : \E k \in DOMAIN b : ub[j] = b[k]
              /\ Ordered(b) => /\ \A j, l \in DOMAIN ub : ub[j].seq = ub[l].seq /\ ub[j].pos = ub[l].pos => j = l
                               /\ \A j \in DOMAIN ub, k \in DOMAIN b :
                                     b[k] \notin ToSet(ub) /\ b[k].seq = ub[j].seq => ub[j].pos < b[k].pos
<1> DEFINE who == Taken(b)
           W == Len(who)
           part == UBatch \div W
           lens == {Len(Of(b, s)) : s \in ToSet(who)}
           n == Min(lens \union {Max({1, part})})
           ub == [j \in 1 .. n * W |-> Of(b, who[1 + (j - 1) \div n])[1 + ((j - 1) % n)]]
<1>1. /\ who \in Seq(KvSeqs) /\ who # <<>>
      /\ \A i, j \in DOMAIN who : who[i] = who[j] => i = j
      /\ \A i \in DOMAIN who : \E k \in DOMAIN b : b[k].seq = who[i]
  BY TakenIs
<1> HIDE DEF who
<1>2. EqualUbatch(b) = ub
  BY DEF EqualUbatch, who
<1>3. W \in Nat \ {0} /\ DOMAIN who = 1 .. W /\ ToSet(who) = {who[i] : i \in 1 .. W}
  BY <1>1 DEF ToSet
<1>4. UBatch \in Nat \ {0} /\ part \in Nat
  <2>1. UBatch \in Nat \ {0}
    BY Facts
  <2>2. QED
    BY <1>3, <2>1
<1> HIDE DEF W, part
<1>5. ASSUME NEW i \in 1 .. W
      PROVE  /\ Of(b, who[i]) \in Seq(Token) /\ Len(Of(b, who[i])) \in Nat \ {0}
             /\ \A j \in DOMAIN Of(b, who[i]) : Of(b, who[i])[j].seq = who[i]
  <2>1. PICK k \in DOMAIN b : b[k].seq = who[i]
    BY <1>1, <1>3
  <2>2. Of(b, who[i]) \in Seq(Token) /\ \E j \in DOMAIN Of(b, who[i]) : Of(b, who[i])[j] = b[k]
    BY <2>1, OfIs
  <2>3. Len(Of(b, who[i])) \in Nat \ {0}
    <3> DEFINE o == Of(b, who[i])
    <3>1. o \in Seq(Token) /\ DOMAIN o # {}
      BY <2>2
    <3> HIDE DEF o
    <3>2. Len(o) \in Nat \ {0}
      BY <3>1
    <3>3. QED
      BY <3>2 DEF o
  <2>4. QED
    BY <2>2, <2>3, OfIs
<1>6. n \in Nat \ {0} /\ \A i \in 1 .. W : n <= Len(Of(b, who[i]))
  <2>1. Max({1, part}) \in Nat \ {0}
    <3>1. {1, part} \in SUBSET (0 .. 1 + part) /\ {1, part} # {} /\ 1 + part \in Nat
      BY <1>4
    <3>2. Max({1, part}) \in {1, part} /\ 1 <= Max({1, part})
      BY <3>1, LargestExists
    <3>3. QED
      BY <1>4, <3>2
  <2> DEFINE m == Max({1, part})
             all == lens \union {m}
  <2>2. lens \in SUBSET (Nat \ {0}) /\ \A i \in 1 .. W : Len(Of(b, who[i])) \in lens
    BY <1>3, <1>5
  <2> HIDE DEF m, lens
  <2>3. all \in SUBSET (Nat \ {0}) /\ all # {}
    BY <2>1, <2>2 DEF m
  <2> HIDE DEF all
  <2>4. Min(all) \in all /\ \A k \in all : Min(all) <= k
    BY <2>3, SmallestExists
  <2>5. n = Min(all)
    BY DEF all, m
  <2>6. \A k \in lens : k \in all
    BY DEF all
  <2> HIDE DEF n
  <2>7. QED
    BY <2>2, <2>3, <2>4, <2>5, <2>6
<1> HIDE DEF n, lens
<1> DEFINE row(j) == 1 + (j - 1) \div n
           col(j) == 1 + ((j - 1) % n)
<1>7. ASSUME NEW j \in 1 .. n * W
      PROVE  /\ row(j) \in 1 .. W /\ col(j) \in 1 .. n /\ j - 1 = n * (row(j) - 1) + (col(j) - 1)
             /\ col(j) \in DOMAIN Of(b, who[row(j)])
             /\ ub[j] = Of(b, who[row(j)])[col(j)] /\ ub[j] \in Token /\ ub[j].seq = who[row(j)]
  <2> DEFINE q == (j - 1) \div n
             r == (j - 1) % n
  <2>1. n * W \in Nat /\ j - 1 \in Nat /\ j - 1 < n * W
    BY <1>3, <1>6
  <2>2. q \in Nat /\ r \in 0 .. n - 1 /\ r = j - 1 - n * q /\ n * q \in Nat
    BY <1>6, <2>1, DivParts
  <2> HIDE DEF q, r
  <2>3. q < W
    <3>1. ASSUME ~(q < W) PROVE FALSE
      <4>1. W * n <= q * n
        <5>1. CASE q = W
          <6>1. q * n \in Nat
            BY <1>6, <2>2
          <6>2. QED
            BY <5>1, <6>1
        <5>2. CASE W < q
          <6>1. W * n + n <= q * n
            BY <1>3, <1>6, <2>2, <5>2, Blocks
          <6>2. W * n \in Nat /\ q * n \in Nat
            BY <1>3, <1>6, <2>2
          <6>3. QED
            BY <1>6, <6>1, <6>2
        <5>3. QED
          BY <1>3, <2>2, <3>1, <5>1, <5>2
      <4>2. W * n = n * W /\ q * n = n * q
        BY <1>3, <1>6, <2>2
      <4> DEFINE a == n * W
                 c == n * q
      <4>3. a \in Nat /\ c \in Nat /\ a <= c /\ j - 1 < a /\ r = j - 1 - c
        BY <2>1, <2>2, <4>1, <4>2
      <4> HIDE DEF a, c
      <4>4. QED
        BY <1>6, <2>1, <2>2, <4>3
    <3>2. QED
      BY <3>1
  <2>4. row(j) = 1 + q /\ col(j) = 1 + r
    BY DEF q, r
  <2> HIDE DEF row, col
  <2>5. row(j) \in 1 .. W /\ col(j) \in 1 .. n /\ row(j) - 1 = q /\ col(j) - 1 = r
    BY <1>3, <1>6, <2>2, <2>3, <2>4
  <2>6. j - 1 = n * (row(j) - 1) + (col(j) - 1)
    <3> DEFINE c == n * q
    <3>1. c \in Nat /\ r = j - 1 - c /\ n * (row(j) - 1) = c
      BY <2>2, <2>5
    <3> HIDE DEF c
    <3>2. QED
      BY <2>1, <2>2, <2>5, <3>1
  <2> DEFINE o == Of(b, who[row(j)])
  <2>7. o \in Seq(Token) /\ Len(o) \in Nat /\ n <= Len(o) /\ \A i \in DOMAIN o : o[i].seq = who[row(j)]
    BY <1>5, <1>6, <2>5
  <2> HIDE DEF o
  <2>8. col(j) \in DOMAIN o /\ o[col(j)] \in Token
    BY <1>6, <2>5, <2>7
  <2>9. ub[j] = o[col(j)]
    BY DEF o, row, col
  <2> HIDE DEF ub
  <2>10. QED
    BY <2>5, <2>6, <2>7, <2>8, <2>9 DEF o
<1>8. ub \in Seq(Token) /\ ub # <<>> /\ DOMAIN ub = 1 .. n * W
  <2>1. n * W \in Nat \ {0}
    BY <1>3, <1>6
  <2>2. ub = [j \in 1 .. n * W |-> ub[j]]
    OBVIOUS
  <2> HIDE DEF ub
  <2>3. \A j \in 1 .. n * W : ub[j] \in Token
    BY <1>7
  <2> DEFINE N == n * W
  <2>4. N \in Nat \ {0} /\ ub = [j \in 1 .. N |-> ub[j]] /\ \A j \in 1 .. N : ub[j] \in Token
    BY <2>1, <2>2, <2>3
  <2> HIDE DEF N
  <2>5. ub \in Seq(Token) /\ DOMAIN ub = 1 .. N
    BY <2>4
  <2>6. ub # <<>>
    BY <2>4, <2>5
  <2>7. QED
    BY <2>5, <2>6 DEF N
<1> HIDE DEF ub, row, col
<1>9. \A j \in DOMAIN ub : \E k \in DOMAIN b : ub[j] = b[k]
  BY <1>7, <1>8, OfIs
<1>10. ASSUME Ordered(b), NEW j \in DOMAIN ub, NEW l \in DOMAIN ub, ub[j].seq = ub[l].seq, ub[j].pos = ub[l].pos
       PROVE  j = l
  <2>1. j \in 1 .. n * W /\ l \in 1 .. n * W
    BY <1>8
  <2>2. row(j) = row(l)
    BY <1>1, <1>3, <1>7, <1>10, <2>1
  <2> DEFINE o == Of(b, who[row(j)])
  <2>3. /\ o \in Seq(Token) /\ col(j) \in DOMAIN o /\ col(l) \in DOMAIN o
        /\ ub[j] = o[col(j)] /\ ub[l] = o[col(l)]
    BY <1>5, <1>7, <2>1, <2>2
  <2>4. \A p, q \in DOMAIN o : p < q => o[p].pos < o[q].pos
    BY <1>10, OfIs
  <2>5. \A p \in DOMAIN o : p \in Nat /\ o[p].pos \in Nat
    <3>1. o \in Seq(Token)
      BY <2>3
    <3> HIDE DEF o
    <3>2. \A p \in DOMAIN o : p \in Nat /\ o[p] \in Token
      BY <3>1
    <3>3. QED
      BY <3>2 DEF Token
  <2> HIDE DEF o
  <2>6. col(j) = col(l)
    <3>1. col(j) \in Nat /\ col(l) \in Nat /\ o[col(j)].pos = o[col(l)].pos /\ o[col(j)].pos \in Nat
      BY <1>10, <2>3, <2>5
    <3>2. ~(col(j) < col(l)) /\ ~(col(l) < col(j))
      BY <2>3, <2>4, <3>1
    <3>3. QED
      BY <3>1, <3>2
  <2>7. j - 1 = l - 1
    <3>1. j - 1 = n * (row(j) - 1) + (col(j) - 1) /\ l - 1 = n * (row(l) - 1) + (col(l) - 1)
      BY <1>7, <2>1
    <3>2. QED
      BY <2>2, <2>6, <3>1, Zenon
  <2>8. j \in Int /\ l \in Int
    BY <2>1, <1>3, <1>6
  <2>9. QED
    BY <2>7, <2>8
<1>11. ASSUME Ordered(b), NEW j \in DOMAIN ub, NEW k \in DOMAIN b, b[k] \notin ToSet(ub), b[k].seq = ub[j].seq
       PROVE  ub[j].pos < b[k].pos
  <2>1. j \in 1 .. n * W
    BY <1>8
  <2> DEFINE i == row(j)
             o == Of(b, who[i])
  <2>2. /\ i \in 1 .. W /\ o \in Seq(Token) /\ col(j) \in DOMAIN o /\ col(j) \in 1 .. n
        /\ ub[j] = o[col(j)] /\ b[k].seq = who[i] /\ n <= Len(o)
    BY <1>5, <1>6, <1>7, <1>11, <2>1
  <2>3. PICK p \in DOMAIN o : o[p] = b[k]
    BY <2>2, OfIs
  <2>4. \A p1, q1 \in DOMAIN o : p1 < q1 => o[p1].pos < o[q1].pos
    BY <1>11, OfIs
  <2>5. p \in Nat \ {0} /\ p \in 1 .. Len(o)
    <3>1. o \in Seq(Token) /\ p \in DOMAIN o
      BY <2>2, <2>3
    <3> HIDE DEF o
    <3>2. QED
      BY <3>1
  <2> HIDE DEF o, i
  <2>6. ~(p <= n)
    <3>1. ASSUME p <= n PROVE FALSE
      <4> DEFINE a == i - 1
                 x == a * n + (p - 1)
                 l == x + 1
      <4>1. a \in Nat /\ p - 1 \in 0 .. n - 1 /\ a * n \in Nat /\ a < W
        BY <1>3, <1>6, <2>2, <2>5, <3>1
      <4>2. x \div n = a /\ x % n = p - 1
        BY <1>6, <4>1, DivOf
      <4>3. x \in Nat /\ x + 1 <= W * n
        <5>1. a * n + n <= W * n
          BY <1>3, <1>6, <4>1, Blocks
        <5> DEFINE c == a * n
                   d == W * n
        <5>2. c \in Nat /\ d \in Nat /\ c + n <= d
          BY <1>3, <1>6, <4>1, <5>1
        <5> HIDE DEF c, d
        <5>3. c + (p - 1) \in Nat /\ c + (p - 1) + 1 <= d
          BY <1>6, <4>1, <5>2
        <5>4. QED
          BY <5>3 DEF c, d
      <4> HIDE DEF x
      <4>4. l \in 1 .. n * W /\ l - 1 = x
        <5>1. W * n = n * W /\ n * W \in Nat
          BY <1>3, <1>6
        <5>2. QED
          BY <4>3, <5>1
      <4> HIDE DEF l
      <4>5. row(l) = 1 + a /\ col(l) = 1 + (p - 1)
        BY <4>2, <4>4 DEF row, col
      <4>6. 1 + a = i /\ 1 + (p - 1) = p
        BY <2>2, <2>5, <1>3
      <4>7. ub[l] = o[p]
        BY <1>7, <4>4, <4>5, <4>6 DEF o
      <4>8. b[k] \in ToSet(ub)
        BY <1>8, <2>3, <4>4, <4>7 DEF ToSet
      <4>9. QED
        BY <1>11, <4>8
    <3>2. QED
      BY <3>1
  <2>7. col(j) < p
    BY <1>6, <2>2, <2>5, <2>6
  <2>8. QED
    BY <2>2, <2>3, <2>4, <2>7
<1>12. QED
  BY <1>2, <1>8, <1>9, <1>10, <1>11

-----------------------------------------------------------------------------
\* An equal split in the making: its ubatches, and the tokens that are left.
Peel == [ubs : Seq(Seq(Token)), left : Seq(Token)]
Peeled(b, f) ==
    /\ \A u \in DOMAIN f.ubs : \A k \in DOMAIN f.ubs[u] : \E j \in DOMAIN b : f.ubs[u][k] = b[j]
    /\ \A k \in DOMAIN f.left : \E j \in DOMAIN b : f.left[k] = b[j]
    /\ \A j \in DOMAIN b : \/ \E k \in DOMAIN f.left : f.left[k] = b[j]
                           \/ \E u \in DOMAIN f.ubs : \E k \in DOMAIN f.ubs[u] : f.ubs[u][k] = b[j]
    /\ Ordered(f.left)
    /\ \A u \in DOMAIN f.ubs : \A k \in DOMAIN f.ubs[u], j \in DOMAIN f.left :
          f.ubs[u][k].seq = f.left[j].seq => f.ubs[u][k].pos < f.left[j].pos
    /\ \A u, v \in DOMAIN f.ubs : \A k \in DOMAIN f.ubs[u], l \in DOMAIN f.ubs[v] :
          /\ f.ubs[u][k].seq = f.ubs[v][l].seq /\ f.ubs[u][k].pos = f.ubs[v][l].pos => u = v /\ k = l
          /\ f.ubs[u][k].seq = f.ubs[v][l].seq /\ u < v => f.ubs[u][k].pos < f.ubs[v][l].pos

\* What an equal ubatch leaves of a batch.
LEMMA LeftOf ==
    ASSUME NEW left \in Seq(Token), NEW ub \in Seq(Token)
    PROVE  LET rest == SubseqAt(left, {k \in DOMAIN left : left[k] \notin ToSet(ub)})
           IN /\ rest \in Seq(Token)
              /\ \A k \in DOMAIN rest : rest[k] \notin ToSet(ub) /\ \E j \in DOMAIN left : rest[k] = left[j]
              /\ \A j \in DOMAIN left : left[j] \in ToSet(ub) \/ \E k \in DOMAIN rest : rest[k] = left[j]
              /\ Ordered(left) => Ordered(rest)
              /\ (\E j \in DOMAIN left : left[j] \in ToSet(ub)) => Len(rest) < Len(left)
<1> DEFINE kept == {k \in DOMAIN left : left[k] \notin ToSet(ub)}
           rest == SubseqAt(left, kept)
<1>1. kept \in SUBSET DOMAIN left
  OBVIOUS
<1> HIDE DEF rest
<1>2. rest \in Seq(Token) /\ Thinned(rest, left, kept)
  BY <1>1, SubseqThins DEF rest
<1>3. PICK h \in [DOMAIN rest -> kept] :
        /\ \A i, j \in DOMAIN rest : i < j => h[i] < h[j]
        /\ \A k \in kept : \E i \in DOMAIN rest : h[i] = k
        /\ \A i \in DOMAIN rest : rest[i] = left[h[i]]
  BY <1>2 DEF Thinned
<1>4. \A i \in DOMAIN rest : h[i] \in DOMAIN left /\ left[h[i]] \notin ToSet(ub)
  BY <1>3
<1>5. \A k \in DOMAIN rest : rest[k] \notin ToSet(ub) /\ \E j \in DOMAIN left : rest[k] = left[j]
  BY <1>3, <1>4
<1>6. \A j \in DOMAIN left : left[j] \in ToSet(ub) \/ \E k \in DOMAIN rest : rest[k] = left[j]
  BY <1>3
<1>7. Ordered(left) => Ordered(rest)
  BY <1>3, <1>4 DEF Ordered
<1>8. (\E j \in DOMAIN left : left[j] \in ToSet(ub)) => Len(rest) < Len(left)
  <2>1. ASSUME NEW j \in DOMAIN left, left[j] \in ToSet(ub) PROVE Len(rest) < Len(left)
    <3>1. j \notin kept
      BY <2>1
    <3> HIDE DEF kept
    <3>2. QED
      BY <1>1, <1>2, <3>1, ThinnedShorter
  <2>2. QED
    BY <2>1
<1>9. QED
  BY <1>2, <1>5, <1>6, <1>7, <1>8 DEF rest

\* An equal ubatch is split off as long as there are tokens.
LEMMA NextUbatchIs ==
    ASSUME Plain, NEW f \in Peel, NEW t
    PROVE  LET new == NextUbatch(f, t)
               ub == EqualUbatch(f.left)
               rest == SubseqAt(f.left, {k \in DOMAIN f.left : f.left[k] \notin ToSet(ub)})
           IN /\ new \in Peel
              /\ f.left = <<>> => new = f
              /\ f.left # <<>> => /\ ub \in Seq(Token) /\ new = [ubs |-> Append(f.ubs, ub), left |-> rest]
                                  /\ Len(rest) < Len(f.left)
<1> DEFINE left == f.left
           ub == EqualUbatch(left)
           rest == SubseqAt(left, {k \in DOMAIN left : left[k] \notin ToSet(ub)})
           new == [ubs |-> Append(f.ubs, ub), left |-> rest]
<1>1. f.ubs \in Seq(Seq(Token)) /\ left \in Seq(Token)
  BY DEF Peel
<1>2. NextUbatch(f, t) = IF left = <<>> THEN f ELSE new
  BY DEF NextUbatch
<1>3. ASSUME left # <<>> PROVE ub \in Seq(Token) /\ new \in Peel /\ Len(rest) < Len(left)
  <2> HIDE DEF left
  <2>1. ub \in Seq(Token) /\ ub # <<>> /\ \A j \in DOMAIN ub : \E k \in DOMAIN left : ub[j] = left[k]
    BY <1>1, <1>3, EqualUbatchIs
  <2> HIDE DEF ub
  <2>2. PICK k \in DOMAIN left : left[k] \in ToSet(ub)
    <3>1. 1 \in DOMAIN ub
      BY <2>1
    <3>2. ub[1] \in ToSet(ub)
      BY <3>1 DEF ToSet
    <3>3. QED
      BY <2>1, <3>1, <3>2
  <2>3. rest \in Seq(Token) /\ Len(rest) < Len(left)
    BY <1>1, <2>1, <2>2, LeftOf
  <2> HIDE DEF rest
  <2>4. Append(f.ubs, ub) \in Seq(Seq(Token))
    <3> DEFINE T == Seq(Token)
               g == f.ubs
    <3>1. g \in Seq(T) /\ ub \in T
      BY <1>1, <2>1
    <3> HIDE DEF T, g
    <3>2. Append(g, ub) \in Seq(T)
      BY <3>1
    <3>3. QED
      BY <3>2 DEF T, g
  <2>5. QED
    BY <2>1, <2>3, <2>4 DEF Peel
<1>4. QED
  BY <1>2, <1>3

\* The result is again ubatches and what is left.
LEMMA NextUbatchType ==
    ASSUME Plain, NEW f \in Peel, NEW t
    PROVE  NextUbatch(f, t) \in Peel
BY NextUbatchIs

\* One ubatch after the other is split off.
LEMMA PeelRuns ==
    ASSUME Plain, NEW ss \in Seq(Token), NEW base \in Peel
    PROVE  \E g \in [0 .. Len(ss) -> Peel] :
              /\ g[0] = base /\ FoldLeft(NextUbatch, base, ss) = g[Len(ss)]
              /\ \A i \in 1 .. Len(ss) : g[i] = NextUbatch(g[i - 1], ss[i])
<1> DEFINE n == Len(ss)
           S == Peel
           step == [i \in 1 .. n |-> [acc \in S |-> NextUbatch(acc, ss[i])]]
           Is(h) == h = [s \in SUBSET DOMAIN ss |->
                            IF s = {} THEN base ELSE NextUbatch(h[s \ {Max(s)}], ss[Max(s)])]
           h == CHOOSE f : Is(f)
<1>1. n \in Nat /\ DOMAIN ss = 1 .. n /\ \A i \in 1 .. n : ss[i] \in Token
  OBVIOUS
<1>2. FoldLeft(NextUbatch, base, ss) = h[DOMAIN ss]
  BY DEF FoldLeft, MapThenFoldSet
<1>3. base \in S /\ \A i \in 1 .. n : \A acc \in S : NextUbatch(acc, ss[i]) \in S
  BY <1>1, NextUbatchType
<1> HIDE DEF n, S
<1>4. Steps(step, n, S)
  BY <1>3 DEF Steps
<1>5. PICK f \in [SUBSET (1 .. n) -> S] : IsFold(f, step, n, base)
  <2> HIDE DEF step
  <2>1. QED
    BY <1>1, <1>3, <1>4, FoldExists DEF HasFold
<1>6. Is(f)
  <2>1. ASSUME NEW s \in SUBSET (1 .. n)
        PROVE  f[s] = IF s = {} THEN base ELSE NextUbatch(f[s \ {Max(s)}], ss[Max(s)])
    <3>1. CASE s = {}
      BY <1>5, <3>1 DEF IsFold
    <3>2. CASE s # {}
      <4>1. Max(s) \in 1 .. n /\ f[s] = step[Max(s)][f[s \ {Max(s)}]] /\ f[s \ {Max(s)}] \in S
        BY <1>5, <3>2 DEF IsFold
      <4>2. QED
        BY <3>2, <4>1
    <3>3. QED
      BY <3>1, <3>2
  <2>2. f = [s \in SUBSET (1 .. n) |-> f[s]]
    BY <1>5
  <2>3. QED
    BY <1>1, <2>1, <2>2
<1>7. \A s \in SUBSET (1 .. n) : h[s] = IF s = {} THEN base ELSE NextUbatch(h[s \ {Max(s)}], ss[Max(s)])
  <2>1. Is(h)
    <3> HIDE DEF Is
    <3>1. QED
      BY <1>6
  <2>2. h = [s \in SUBSET DOMAIN ss |-> IF s = {} THEN base ELSE NextUbatch(h[s \ {Max(s)}], ss[Max(s)])]
    BY <2>1
  <2> HIDE DEF h
  <2>3. QED
    BY <1>1, <2>2
<1> HIDE DEF h
<1>8. \A s \in SUBSET (1 .. n) : s # {} => Max(s) \in 1 .. n
  BY <1>5 DEF IsFold
<1>9. \A s \in SUBSET (1 .. n) : s # {} /\ h[s \ {Max(s)}] \in S => h[s] = step[Max(s)][h[s \ {Max(s)}]]
  BY <1>7, <1>8
<1>10. Folds(h, step, n, S, base)
  <2>1. h[{}] = base
    BY <1>7
  <2> HIDE DEF step
  <2>2. QED
    BY <1>9, <2>1 DEF Folds
<1>11. PICK g \in [0 .. n -> S] : IsRun(g, step, n, base) /\ g[n] = h[1 .. n]
  <2> HIDE DEF step
  <2>1. QED
    BY <1>1, <1>3, <1>4, <1>10, FoldIsRun
<1>12. \A i \in 1 .. n : g[i] = NextUbatch(g[i - 1], ss[i])
  <2> TAKE i \in 1 .. n
  <2>1. i - 1 \in 0 .. n
    BY <1>1
  <2>2. g[i] = step[i][g[i - 1]]
    <3> HIDE DEF step, S
    <3>1. QED
      BY <1>11 DEF IsRun
  <2>3. g[i - 1] \in S
    BY <2>1
  <2> HIDE DEF S
  <2>4. QED
    BY <2>2, <2>3
<1>13. g[0] = base /\ FoldLeft(NextUbatch, base, ss) = g[n]
  BY <1>1, <1>2, <1>11 DEF IsRun
<1>14. QED
  BY <1>12, <1>13 DEF n, S

\* Splitting one off keeps what was split off before and what is left in order.
LEMMA PeelNext ==
    ASSUME Plain, NEW b, NEW f \in Peel, NEW t, Peeled(b, f)
    PROVE  Peeled(b, NextUbatch(f, t))
<1> DEFINE left == f.left
           ub == EqualUbatch(left)
           rest == SubseqAt(left, {k \in DOMAIN left : left[k] \notin ToSet(ub)})
           new == NextUbatch(f, t)
           n == Len(f.ubs)
<1>1. f.ubs \in Seq(Seq(Token)) /\ left \in Seq(Token)
  BY DEF Peel
<1>2. CASE left = <<>>
  <2>1. f.left = <<>>
    BY <1>2
  <2>2. f.left = <<>> => NextUbatch(f, t) = f
    BY NextUbatchIs
  <2>3. QED
    BY <2>1, <2>2
<1>3. CASE left # <<>>
  <2>1. ub \in Seq(Token) /\ new = [ubs |-> Append(f.ubs, ub), left |-> rest]
    BY <1>3, NextUbatchIs
  <2> HIDE DEF left
  <2>2. Ordered(left) /\ \A k \in DOMAIN left : \E j \in DOMAIN b : left[k] = b[j]
    BY DEF Peeled, left
  <2>3. /\ \A j \in DOMAIN ub : \E k \in DOMAIN left : ub[j] = left[k]
        /\ \A j, l \in DOMAIN ub : ub[j].seq = ub[l].seq /\ ub[j].pos = ub[l].pos => j = l
        /\ \A j \in DOMAIN ub, k \in DOMAIN left :
              left[k] \notin ToSet(ub) /\ left[k].seq = ub[j].seq => ub[j].pos < left[k].pos
    BY <1>1, <1>3, <2>2, EqualUbatchIs
  <2> HIDE DEF ub
  <2>4. /\ \A k \in DOMAIN rest : rest[k] \notin ToSet(ub) /\ \E j \in DOMAIN left : rest[k] = left[j]
        /\ \A j \in DOMAIN left : left[j] \in ToSet(ub) \/ \E k \in DOMAIN rest : rest[k] = left[j]
        /\ Ordered(rest)
    BY <1>1, <2>1, <2>2, LeftOf
  <2> HIDE DEF rest, new, n
  <2> DEFINE ubs == Append(f.ubs, ub)
  <2>5. /\ n \in Nat /\ DOMAIN f.ubs = 1 .. n /\ DOMAIN ubs = 1 .. n + 1 /\ ubs[n + 1] = ub
        /\ \A u \in 1 .. n : ubs[u] = f.ubs[u]
    <3> DEFINE T == Seq(Token)
               g == f.ubs
    <3>1. g \in Seq(T) /\ ub \in T /\ n = Len(g)
      BY <1>1, <2>1 DEF n
    <3> HIDE DEF T, g
    <3>2. /\ n \in Nat /\ DOMAIN g = 1 .. n /\ DOMAIN Append(g, ub) = 1 .. n + 1 /\ Append(g, ub)[n + 1] = ub
          /\ \A u \in 1 .. n : Append(g, ub)[u] = g[u]
      BY <3>1
    <3>3. QED
      BY <3>2 DEF g
  <2>6. new.ubs = ubs /\ new.left = rest
    BY <2>1
  <2> HIDE DEF ubs
  <2>7. \A u \in DOMAIN ubs : u \in 1 .. n \/ u = n + 1
    BY <2>5
  <2>8. ASSUME NEW u \in DOMAIN ubs, NEW k \in DOMAIN ubs[u] PROVE \E j \in DOMAIN b : ubs[u][k] = b[j]
    <3>1. CASE u = n + 1
      BY <2>2, <2>3, <2>5, <3>1
    <3>2. CASE u \in 1 .. n
      BY <2>5, <3>2 DEF Peeled
    <3>3. QED
      BY <2>7, <3>1, <3>2
  <2>9. \A k \in DOMAIN rest : \E j \in DOMAIN b : rest[k] = b[j]
    BY <2>2, <2>4
  <2>10. ASSUME NEW j \in DOMAIN b
         PROVE  \/ \E k \in DOMAIN rest : rest[k] = b[j]
                \/ \E u \in DOMAIN ubs : \E k \in DOMAIN ubs[u] : ubs[u][k] = b[j]
    <3>1. CASE \E k \in DOMAIN left : left[k] = b[j]
      <4>1. PICK k \in DOMAIN left : left[k] = b[j]
        BY <3>1
      <4>2. CASE left[k] \in ToSet(ub)
        <5>1. PICK l \in DOMAIN ub : ub[l] = b[j]
          BY <4>1, <4>2 DEF ToSet
        <5>2. n + 1 \in DOMAIN ubs
          BY <2>5
        <5>3. QED
          BY <2>5, <5>1, <5>2
      <4>3. CASE left[k] \notin ToSet(ub)
        BY <2>4, <4>1, <4>3
      <4>4. QED
        BY <4>2, <4>3
    <3>2. CASE \E u \in DOMAIN f.ubs : \E k \in DOMAIN f.ubs[u] : f.ubs[u][k] = b[j]
      <4>1. PICK u \in DOMAIN f.ubs : \E k \in DOMAIN f.ubs[u] : f.ubs[u][k] = b[j]
        BY <3>2
      <4>2. u \in DOMAIN ubs /\ ubs[u] = f.ubs[u]
        BY <2>5, <4>1
      <4>3. QED
        BY <4>1, <4>2
    <3>3. QED
      BY <3>1, <3>2 DEF Peeled, left
  <2>11. ASSUME NEW u \in DOMAIN ubs, NEW k \in DOMAIN ubs[u], NEW j \in DOMAIN rest, ubs[u][k].seq = rest[j].seq
         PROVE  ubs[u][k].pos < rest[j].pos
    <3>1. PICK i \in DOMAIN left : rest[j] = left[i]
      BY <2>4
    <3>2. CASE u = n + 1
      BY <2>3, <2>4, <2>5, <2>11, <3>1, <3>2
    <3>3. CASE u \in 1 .. n
      <4>1. u \in DOMAIN f.ubs /\ ubs[u] = f.ubs[u]
        BY <2>5, <3>3
      <4>2. QED
        BY <2>11, <3>1, <4>1 DEF Peeled, left
    <3>4. QED
      BY <2>7, <3>2, <3>3
  <2>12. ASSUME NEW u \in DOMAIN ubs, NEW v \in DOMAIN ubs, NEW k \in DOMAIN ubs[u], NEW l \in DOMAIN ubs[v],
                ubs[u][k].seq = ubs[v][l].seq
         PROVE  /\ ubs[u][k].pos = ubs[v][l].pos => u = v /\ k = l
                /\ u < v => ubs[u][k].pos < ubs[v][l].pos
    <3> DEFINE P(x, y) == x < y
    <3>1. ASSUME NEW w \in 1 .. n, NEW c \in DOMAIN f.ubs[w], NEW d \in DOMAIN ub, f.ubs[w][c].seq = ub[d].seq
          PROVE  f.ubs[w][c].pos < ub[d].pos /\ f.ubs[w][c].pos # ub[d].pos
      <4>1. PICK i \in DOMAIN left : ub[d] = left[i]
        BY <2>3
      <4>2. f.ubs[w][c].pos < ub[d].pos
        <5>1. \A p \in DOMAIN f.ubs : \A k2 \in DOMAIN f.ubs[p], j2 \in DOMAIN left :
                 f.ubs[p][k2].seq = left[j2].seq => f.ubs[p][k2].pos < left[j2].pos
          BY DEF Peeled, left
        <5>2. w \in DOMAIN f.ubs
          BY <2>5
        <5>3. f.ubs[w][c].seq = left[i].seq
          BY <3>1, <4>1
        <5>4. QED
          BY <4>1, <5>1, <5>2, <5>3
      <4>3. ub[d] \in Token
        BY <2>1
      <4>4. f.ubs[w][c] \in Token
        <5> DEFINE T == Seq(Token)
                   g == f.ubs
        <5>1. g \in Seq(T) /\ w \in DOMAIN g
          BY <1>1, <2>5
        <5> HIDE DEF T, g
        <5>2. g[w] \in T
          BY <5>1
        <5>3. f.ubs[w] \in Seq(Token)
          BY <5>2 DEF T, g
        <5>4. QED
          BY <5>3
      <4>5. f.ubs[w][c].pos \in Nat /\ ub[d].pos \in Nat
        BY <4>3, <4>4 DEF Token
      <4>6. QED
        BY <4>2, <4>5
    <3>2. CASE u = n + 1 /\ v = n + 1
      <4>1. ~(u < v) /\ ubs[u] = ub /\ ubs[v] = ub
        BY <2>5, <3>2
      <4>2. QED
        BY <2>3, <2>12, <3>2, <4>1
    <3>3. CASE u \in 1 .. n /\ v = n + 1
      BY <2>5, <2>12, <3>1, <3>3
    <3>4. CASE u = n + 1 /\ v \in 1 .. n
      <4>1. ~(u < v) /\ ubs[u] = ub /\ ubs[v] = f.ubs[v]
        BY <2>5, <3>4
      <4>2. ubs[v][l].pos # ubs[u][k].pos
        BY <2>12, <3>1, <3>4, <4>1
      <4>3. QED
        BY <4>1, <4>2
    <3>5. CASE u \in 1 .. n /\ v \in 1 .. n
      <4>1. u \in DOMAIN f.ubs /\ v \in DOMAIN f.ubs /\ ubs[u] = f.ubs[u] /\ ubs[v] = f.ubs[v]
        BY <2>5, <3>5
      <4>2. QED
        BY <2>12, <4>1 DEF Peeled
    <3>6. QED
      BY <2>7, <3>2, <3>3, <3>4, <3>5
  <2>13. /\ \A u, v \in DOMAIN ubs : \A k \in DOMAIN ubs[u], l \in DOMAIN ubs[v] :
               /\ ubs[u][k].seq = ubs[v][l].seq /\ ubs[u][k].pos = ubs[v][l].pos => u = v /\ k = l
               /\ ubs[u][k].seq = ubs[v][l].seq /\ u < v => ubs[u][k].pos < ubs[v][l].pos
    BY <2>12
  <2>14. QED
    BY <2>4, <2>6, <2>8, <2>9, <2>10, <2>11, <2>13 DEF Peeled, new
<1>4. QED
  BY <1>2, <1>3

\* An equal split brings every token once, each sequence in order.
LEMMA EqualDivides ==
    ASSUME Plain, NEW b \in Seq(Token), Ordered(b)
    PROVE  Divides(EqualSplit(b), b)
<1> DEFINE n == Len(b)
           base == [ubs |-> <<>>, left |-> b]
<1>1. n \in Nat /\ DOMAIN b = 1 .. n
  OBVIOUS
<1>2. base \in Peel /\ base.left = b
  BY DEF Peel
<1>3. Peeled(b, base)
  <2>1. DOMAIN base.ubs = {}
    OBVIOUS
  <2>2. QED
    BY <1>2, <2>1 DEF Peeled
<1> HIDE DEF base
<1>4. PICK g \in [0 .. n -> Peel] :
         /\ g[0] = base /\ FoldLeft(NextUbatch, base, b) = g[n]
         /\ \A i \in 1 .. n : g[i] = NextUbatch(g[i - 1], b[i])
  BY <1>2, PeelRuns
<1> HIDE DEF n
<1>5. \A i \in 0 .. n : Peeled(b, g[i]) /\ (g[i].left = <<>> \/ Len(g[i].left) + i <= n)
  <2> DEFINE S == {i \in 0 .. n : Peeled(b, g[i]) /\ (g[i].left = <<>> \/ Len(g[i].left) + i <= n)}
  <2>1. 0 \in S
    <3>1. Len(b) + 0 <= n
      BY DEF n
    <3>2. QED
      BY <1>1, <1>2, <1>3, <1>4, <3>1
  <2>2. ASSUME NEW i \in S, i + 1 <= n PROVE i + 1 \in S
    <3> DEFINE f == g[i]
               new == g[i + 1]
               t == b[i + 1]
    <3>1. /\ i + 1 \in 1 .. n /\ i + 1 - 1 = i /\ i \in Nat /\ f \in Peel /\ i + 1 \in 0 .. n
          /\ Peeled(b, f) /\ (f.left = <<>> \/ Len(f.left) + i <= n)
      BY <1>1, <1>4, <2>2
    <3>2. new = NextUbatch(f, t)
      BY <1>4, <3>1
    <3> HIDE DEF f, t
    <3>3. Peeled(b, new)
      BY <3>1, <3>2, PeelNext
    <3>4. new.left = <<>> \/ Len(new.left) + (i + 1) <= n
      <4>1. CASE f.left = <<>>
        BY <3>1, <3>2, <4>1, NextUbatchIs
      <4>2. CASE f.left # <<>>
        <5>1. Len(new.left) < Len(f.left) /\ new \in Peel
          <6> DEFINE ub == EqualUbatch(f.left)
                     rest == SubseqAt(f.left, {k \in DOMAIN f.left : f.left[k] \notin ToSet(ub)})
          <6>1. new \in Peel /\ new = [ubs |-> Append(f.ubs, ub), left |-> rest] /\ Len(rest) < Len(f.left)
            BY <3>1, <3>2, <4>2, NextUbatchIs
          <6> HIDE DEF rest, ub
          <6>2. QED
            BY <6>1
        <5>2. Len(new.left) \in Nat /\ Len(f.left) \in Nat
          <6>1. new.left \in Seq(Token) /\ f.left \in Seq(Token)
            BY <3>1, <5>1 DEF Peel
          <6>2. QED
            BY <6>1
        <5>3. QED
          BY <1>1, <3>1, <4>2, <5>1, <5>2
      <4>3. QED
        BY <4>1, <4>2
    <3> HIDE DEF new
    <3>5. QED
      BY <3>1, <3>3, <3>4 DEF new
  <2>3. S \in SUBSET Nat
    BY <1>1
  <2> HIDE DEF S
  <2>4. \A i \in 0 .. n : i \in S
    BY <1>1, <2>1, <2>2, <2>3, InductionUpTo
  <2>5. QED
    BY <2>4 DEF S
<1> DEFINE f == g[n]
<1>6. f \in Peel /\ Peeled(b, f) /\ (f.left = <<>> \/ Len(f.left) + n <= n)
  BY <1>1, <1>4, <1>5
<1>7. EqualSplit(b) = f.ubs
  BY <1>4 DEF EqualSplit, base
<1> HIDE DEF f
<1>8. f.left \in Seq(Token) /\ f.ubs \in Seq(Seq(Token))
  BY <1>6 DEF Peel
<1>9. DOMAIN f.left = {}
  <2>1. Len(f.left) \in Nat
    BY <1>8
  <2>2. f.left = <<>> \/ Len(f.left) = 0
    BY <1>1, <1>6, <2>1
  <2>3. QED
    BY <1>8, <2>2
<1>10. Divides(f.ubs, b)
  BY <1>6, <1>8, <1>9 DEF Peeled, Divides
<1>11. QED
  BY <1>7, <1>10

-----------------------------------------------------------------------------
\* Without a window there is one way to split, and it is tried on the memory.
LEMMA InitBatchIs ==
    ASSUME Plain, NEW m \in Memory(mode), Owned(mode, m), NEW b \in Seq(Token), Ordered(b)
    PROVE  LET t == InitBatch(m, b)
           IN /\ t.m \in Memory(mode) /\ t.m.cells = m.cells /\ t.m.rows = m.rows /\ t.ok \in BOOLEAN
              /\ t.ubs \in Seq(Seq(Token)) /\ Divides(t.ubs, b)
              /\ t.ok => Places(mode, m, t.ubs, t.found, Len(t.ubs))
<1> DEFINE ubs == IF mode.unified THEN SimpleSplit(b) ELSE EqualSplit(b)
<1>1. ~(mode.window > 0)
  BY DEF Plain
<1>2. Splits(b) = <<ubs>>
  BY <1>1 DEF Splits
<1>3. Divides(ubs, b)
  BY SimpleDivides, EqualDivides
<1> HIDE DEF ubs
<1>4. InitBatch(m, b) = Prepared(m, ubs)
  <2>1. Len(Splits(b)) = 1 /\ Splits(b)[1] = ubs
    BY <1>2
  <2>2. QED
    BY <2>1 DEF InitBatch
<1>5. ubs \in Seq(Seq(Token))
  BY <1>3 DEF Divides
<1>6. QED
  BY <1>3, <1>4, <1>5, PreparedFacts

\* What is computed for a ubatch is written to the cells it was placed in.
Writes(x, m, new, ub, idx) ==
    /\ new \in Memory(x)
    /\ \A k \in DOMAIN ub : /\ new.cells[StreamIn(x, ub[k].seq)][idx[k]] = TokenCell(ub[k])
                            /\ new.rows[StreamIn(x, ub[k].seq)][idx[k]] = TokenRow(ub[k])
    /\ \A st \in KvSeqs, i \in CellsOf(x) :
          ~Taking(x, ub, idx, st, i) => new.cells[st][i] = m.cells[st][i] /\ new.rows[st][i] = m.rows[st][i]

\* process_ubatch puts the tokens and writes their rows.
LEMMA ComputedWrites ==
    ASSUME Plain, NEW m \in Memory(mode), Owned(mode, m), NEW ub \in Seq(Token), NEW idx,
           Placement(mode, m, ub, idx)
    PROVE  Writes(mode, m, Computed(m, ub, idx), ub, idx) /\ Owned(mode, Computed(m, ub, idx))
<1> DEFINE put == ApplyUbatch(m, ub, idx)
           mine(st, i) == {k \in DOMAIN ub : At(ub, k) = st /\ idx[k] = i}
           rows == [st \in KvSeqs |-> [i \in KvCells |->
                       IF mine(st, i) = {} THEN put.rows[st][i]
                       ELSE LET k == Min(mine(st, i)) IN [token |-> ub[k].token, at |-> ub[k].pos]]]
           new == [put EXCEPT !.rows = rows]
<1>1. Computed(m, ub, idx) = new
  BY DEF Computed
<1>2. Puts(mode, m, put, ub, idx) /\ put \in Memory(mode) /\ put.rows = m.rows
  <2>1. Puts(mode, m, put, ub, idx)
    BY ApplyPuts
  <2> HIDE DEF put
  <2>2. QED
    BY <2>1 DEF Puts
<1> HIDE DEF put
<1>3. mode \in Modes /\ KvCells = CellsOf(mode) /\ CellsOf(mode) \subseteq Nat
  BY Facts DEF Plain, CellsOf
<1>4. \A k \in DOMAIN ub : /\ At(ub, k) = StreamIn(mode, ub[k].seq) /\ ub[k] \in Token /\ k \in Nat
                           /\ idx[k] \in CellsOf(mode) /\ At(ub, k) \in KvSeqs
  BY TokenParts DEF Placement
<1>5. ASSUME NEW k \in DOMAIN ub PROVE rows[StreamIn(mode, ub[k].seq)][idx[k]] = TokenRow(ub[k])
  <2> DEFINE st == At(ub, k)
             i == idx[k]
  <2>1. st \in KvSeqs /\ i \in CellsOf(mode) /\ st = StreamIn(mode, ub[k].seq)
    BY <1>4
  <2>2. mine(st, i) = {k}
    <3>1. \A j \in DOMAIN ub : At(ub, j) = st /\ idx[j] = i => j = k
      BY <1>4 DEF Placement
    <3>2. QED
      BY <3>1
  <2>3. Min({k}) = k
    <3>1. k \in Int
      BY <1>4
    <3>2. QED
      BY <3>1 DEF Min
  <2>4. rows[st][i] = LET j == Min(mine(st, i)) IN [token |-> ub[j].token, at |-> ub[j].pos]
    BY <1>3, <2>1, <2>2
  <2> HIDE DEF rows, mine
  <2>5. QED
    BY <2>1, <2>2, <2>3, <2>4 DEF TokenRow
<1>6. ASSUME NEW st \in KvSeqs, NEW i \in CellsOf(mode)
      PROVE  /\ rows[st][i] \in Row
             /\ ~Taking(mode, ub, idx, st, i) => rows[st][i] = m.rows[st][i]
  <2>1. CASE mine(st, i) = {}
    <3>1. rows[st][i] = m.rows[st][i] /\ m.rows[st][i] \in Row
      BY <1>2, <1>3, <2>1, MemoryParts
    <3> HIDE DEF rows
    <3>2. QED
      BY <3>1
  <2>2. CASE mine(st, i) # {}
    <3>1. PICK k \in DOMAIN ub : At(ub, k) = st /\ idx[k] = i
      BY <2>2
    <3>2. rows[st][i] = TokenRow(ub[k]) /\ Taking(mode, ub, idx, st, i)
      <4> HIDE DEF rows
      <4>1. QED
        BY <1>4, <1>5, <3>1 DEF Taking
    <3> HIDE DEF rows
    <3>3. QED
      BY <1>4, <3>2, TokenCellType
  <2>3. QED
    BY <2>1, <2>2
<1>7. rows \in [KvSeqs -> [CellsOf(mode) -> Row]]
  <2>1. rows = [st \in KvSeqs |-> [i \in CellsOf(mode) |-> rows[st][i]]]
    BY <1>3
  <2> HIDE DEF rows
  <2>2. QED
    BY <1>6, <2>1
<1> HIDE DEF rows
<1>8. new \in Memory(mode) /\ new.rows = rows /\ new.cells = put.cells
  BY <1>2, <1>7 DEF Memory
<1> HIDE DEF new
<1>9. Writes(mode, m, new, ub, idx)
  BY <1>2, <1>5, <1>6, <1>8 DEF Writes, Puts
<1>10. Owned(mode, new)
  <2>1. Owned(mode, put)
    BY <1>2, PutsOwned
  <2>2. QED
    BY <1>8, <2>1 DEF Owned
<1>11. QED
  BY <1>1, <1>9, <1>10

\* What several ubatches have written.
Written(x, m, new, ubs, found, u) ==
    /\ Fills(x, m, new, ubs, found, u)
    /\ \A v \in 1 .. u : \A k \in DOMAIN ubs[v] :
          new.rows[StreamIn(x, ubs[v][k].seq)][found[v][k]] = TokenRow(ubs[v][k])
    /\ \A st \in KvSeqs, i \in CellsOf(x) :
          (\A v \in 1 .. u : ~Taking(x, ubs[v], found[v], st, i)) => new.rows[st][i] = m.rows[st][i]

\* One more ubatch is written.
LEMMA WrittenNext ==
    ASSUME Plain, NEW m \in Memory(mode), NEW c \in Memory(mode), Owned(mode, c), NEW ubs \in Seq(Seq(Token)),
           NEW found, NEW n \in Nat, n = Len(ubs), NEW u \in 0 .. n - 1,
           Places(mode, m, ubs, found, n), Written(mode, m, c, ubs, found, u)
    PROVE  LET new == Computed(c, ubs[u + 1], found[u + 1])
           IN new \in Memory(mode) /\ Owned(mode, new) /\ Written(mode, m, new, ubs, found, u + 1)
<1> DEFINE ub == ubs[u + 1]
           idx == found[u + 1]
           new == Computed(c, ub, idx)
<1>1. u \in Nat /\ u + 1 \in 1 .. n /\ u + 1 \in DOMAIN ubs /\ \A v \in 1 .. u : v \in 1 .. n /\ v # u + 1
  OBVIOUS
<1>2. ub \in Seq(Token) /\ \A v \in 1 .. n : ubs[v] \in Seq(Token)
  BY <1>1
<1>3. \A v \in 1 .. u : \A j \in DOMAIN ubs[v], k \in DOMAIN ub :
         ~(StreamIn(mode, ubs[v][j].seq) = StreamIn(mode, ub[k].seq) /\ found[v][j] = idx[k])
  BY <1>1 DEF Places
<1>4. idx \in [DOMAIN ub -> CellsOf(mode)] /\ \A v \in 1 .. u : found[v] \in [DOMAIN ubs[v] -> CellsOf(mode)]
  BY <1>1 DEF Places
<1>5. ASSUME NEW k \in DOMAIN ub PROVE c.cells[StreamIn(mode, ub[k].seq)][idx[k]] = Free
  <2> DEFINE st == StreamIn(mode, ub[k].seq)
  <2>1. st \in KvSeqs /\ idx[k] \in CellsOf(mode)
    <3> HIDE DEF ub
    <3>1. QED
      BY <1>2, <1>4, TokenParts
  <2>2. \A v \in 1 .. u : ~Taking(mode, ubs[v], found[v], st, idx[k])
    BY <1>3 DEF Taking
  <2>3. c.cells[st][idx[k]] = m.cells[st][idx[k]]
    BY <2>1, <2>2 DEF Written, Fills
  <2>4. m.cells[st][idx[k]] = Free
    BY <1>1 DEF Places
  <2>5. QED
    BY <2>3, <2>4
<1>6. \A j, k \in DOMAIN ub : StreamIn(mode, ub[j].seq) = StreamIn(mode, ub[k].seq) /\ idx[j] = idx[k] => j = k
  BY <1>1 DEF Places
<1>7. Placement(mode, c, ub, idx)
  BY <1>4, <1>5, <1>6 DEF Placement
<1>8. Writes(mode, c, new, ub, idx) /\ Owned(mode, new)
  <2> HIDE DEF ub, idx
  <2>1. QED
    BY <1>2, <1>7, ComputedWrites
<1> HIDE DEF new
<1>9. new \in Memory(mode)
  BY <1>8 DEF Writes
<1> DEFINE bare == [new EXCEPT !.rows = c.rows]
<1>10. bare \in Memory(mode) /\ bare.cells = new.cells /\ bare.rows = c.rows
  BY <1>9 DEF Memory
<1> HIDE DEF bare
<1>11. Puts(mode, c, bare, ub, idx)
  BY <1>8, <1>10 DEF Writes, Puts
<1>12. Fills(mode, m, bare, ubs, found, u + 1)
  BY <1>1, <1>3, <1>4, <1>10, <1>11, FillsNext DEF Written
<1>13. Fills(mode, m, new, ubs, found, u + 1)
  BY <1>10, <1>12 DEF Fills
<1>14. \A v \in 1 .. u + 1 : v = u + 1 \/ v \in 1 .. u
  OBVIOUS
<1>15. ASSUME NEW v \in 1 .. u + 1, NEW k \in DOMAIN ubs[v]
       PROVE  new.rows[StreamIn(mode, ubs[v][k].seq)][found[v][k]] = TokenRow(ubs[v][k])
  <2>1. CASE v = u + 1
    BY <1>8, <2>1 DEF Writes
  <2>2. CASE v \in 1 .. u
    <3> DEFINE st == StreamIn(mode, ubs[v][k].seq)
               i == found[v][k]
    <3>1. st \in KvSeqs /\ i \in CellsOf(mode)
      BY <1>1, <1>2, <1>4, <2>2, TokenParts
    <3>2. ~Taking(mode, ub, idx, st, i)
      BY <1>3, <2>2 DEF Taking
    <3>3. new.rows[st][i] = c.rows[st][i]
      BY <1>8, <3>1, <3>2 DEF Writes
    <3>4. c.rows[st][i] = TokenRow(ubs[v][k])
      BY <2>2 DEF Written
    <3>5. QED
      BY <3>3, <3>4
  <2>3. QED
    BY <1>14, <2>1, <2>2
<1>16. ASSUME NEW st \in KvSeqs, NEW i \in CellsOf(mode), \A v \in 1 .. u + 1 : ~Taking(mode, ubs[v], found[v], st, i)
       PROVE  new.rows[st][i] = m.rows[st][i]
  <2>1. u + 1 \in 1 .. u + 1 /\ \A v \in 1 .. u : v \in 1 .. u + 1
    OBVIOUS
  <2>2. new.rows[st][i] = c.rows[st][i]
    BY <1>8, <1>16, <2>1 DEF Writes
  <2>3. c.rows[st][i] = m.rows[st][i]
    BY <1>16, <2>1 DEF Written
  <2>4. QED
    BY <2>2, <2>3
<1>17. QED
  BY <1>8, <1>9, <1>13, <1>15, <1>16 DEF Written, new

-----------------------------------------------------------------------------
\* The positions a sequence has in a batch, and in its first u ubatches.
PosIn(b, s) == {q \in Nat : \E k \in DOMAIN b : b[k].seq = s /\ b[k].pos = q}
PosUpTo(ubs, u, s) == {q \in Nat : \E v \in 1 .. u : \E k \in DOMAIN ubs[v] : ubs[v][k].seq = s /\ ubs[v][k].pos = q}

Same(ubs, v, k, w, x) ==
    /\ v \in DOMAIN ubs /\ w \in DOMAIN ubs /\ k \in DOMAIN ubs[v] /\ x \in DOMAIN ubs[w]
    /\ ubs[v][k].seq = ubs[w][x].seq /\ ubs[v][k].pos = ubs[w][x].pos

\* A split brings no token twice.
LEMMA DividesOnce ==
    ASSUME NEW ubs, NEW b, Divides(ubs, b), NEW v, NEW k, NEW w, NEW x, Same(ubs, v, k, w, x)
    PROVE  v = w /\ k = x
BY DEF Divides, Same

\* Two parts of an interval, one before the other, meet at a cut.
Halves(A, B, n, l) ==
    /\ A \in SUBSET Nat /\ B \in SUBSET Nat /\ n \in Nat /\ l \in Nat /\ n <= l
    /\ A \union B = n .. l - 1 /\ \A p \in A, q \in B : p < q
CutAtOf(A, B, n, l) == \E c \in n .. l : A = n .. c - 1 /\ B = c .. l - 1

\* A range that two sets share, one before the other, is cut in one place.
LEMMA CutExists ==
    ASSUME NEW A, NEW B, NEW n, NEW l, Halves(A, B, n, l)
    PROVE  CutAtOf(A, B, n, l)
<1>1. /\ A \in SUBSET Nat /\ B \in SUBSET Nat /\ n \in Nat /\ l \in Nat /\ n <= l
      /\ A \union B = n .. l - 1 /\ \A p \in A, q \in B : p < q
  BY DEF Halves
<1>2. CASE B = {}
  <2>1. l \in n .. l /\ A = n .. l - 1 /\ B = l .. l - 1
    BY <1>1, <1>2
  <2>2. QED
    BY <1>1, <2>1 DEF CutAtOf
<1>3. CASE B # {}
  <2> DEFINE c == Min(B)
  <2>1. c \in B /\ \A q \in B : c <= q
    BY <1>1, <1>3, SmallestExists
  <2> HIDE DEF c
  <2>2. c \in n .. l - 1
    BY <1>1, <2>1
  <2>3. \A p \in A : p < c
    BY <1>1, <2>1
  <2>4. \A q : q \in A \/ q \in B <=> q \in n .. l - 1
    BY <1>1
  <2>5. ASSUME NEW q PROVE (q \in A <=> q \in n .. c - 1) /\ (q \in B <=> q \in c .. l - 1)
    <3>1. CASE q \in n .. l - 1
      BY <1>1, <2>1, <2>2, <2>3, <2>4, <3>1
    <3>2. CASE q \notin n .. l - 1
      <4>1. q \notin A /\ q \notin B
        BY <2>4, <3>2
      <4>2. QED
        BY <1>1, <2>2, <3>2, <4>1
    <3>3. QED
      BY <3>1, <3>2
  <2>6. A = n .. c - 1 /\ B = c .. l - 1
    BY <2>5
  <2>7. QED
    BY <1>1, <2>2, <2>6 DEF CutAtOf
<1>4. QED
  BY <1>2, <1>3

\* After some of the ubatches a sequence has its positions up to one of them.
LEMMA ReachedAt ==
    ASSUME NEW b \in Seq(Token), NEW ubs, Divides(ubs, b), NEW s, NEW n \in Nat, NEW l \in Nat, n <= l,
           PosIn(b, s) = n .. l - 1, NEW u \in 0 .. Len(ubs)
    PROVE  /\ \E c \in n .. l : PosUpTo(ubs, u, s) = n .. c - 1
           /\ PosUpTo(ubs, Len(ubs), s) = n .. l - 1
<1> DEFINE N == Len(ubs)
           A == PosUpTo(ubs, u, s)
           B == {q \in Nat : \E v \in u + 1 .. N : \E k \in DOMAIN ubs[v] : ubs[v][k].seq = s /\ ubs[v][k].pos = q}
<1>1. N \in Nat /\ DOMAIN ubs = 1 .. N /\ u \in 0 .. N
  BY DEF Divides
<1> HIDE DEF N
<1>2. \A v \in 1 .. N : v \in 1 .. u \/ v \in u + 1 .. N
  BY <1>1
<1>3. \A v : v \in 1 .. u \/ v \in u + 1 .. N => v \in 1 .. N
  BY <1>1
<1>4. /\ \A v \in 1 .. N : \A k \in DOMAIN ubs[v] : \E j \in DOMAIN b : ubs[v][k] = b[j]
      /\ \A j \in DOMAIN b : \E v \in 1 .. N : \E k \in DOMAIN ubs[v] : ubs[v][k] = b[j]
  <2>1. /\ \A v \in DOMAIN ubs : \A k \in DOMAIN ubs[v] : \E j \in DOMAIN b : ubs[v][k] = b[j]
        /\ \A j \in DOMAIN b : \E v \in DOMAIN ubs : \E k \in DOMAIN ubs[v] : ubs[v][k] = b[j]
    BY DEF Divides
  <2> DEFINE D == DOMAIN ubs
  <2>2. D = 1 .. N
    BY <1>1
  <2>3. /\ \A v \in D : \A k \in DOMAIN ubs[v] : \E j \in DOMAIN b : ubs[v][k] = b[j]
        /\ \A j \in DOMAIN b : \E v \in D : \E k \in DOMAIN ubs[v] : ubs[v][k] = b[j]
    BY <2>1
  <2> HIDE DEF D
  <2>4. QED
    BY <2>2, <2>3
<1>5. ASSUME NEW q PROVE q \in PosUpTo(ubs, N, s) <=> q \in PosIn(b, s)
  <2>1. ASSUME q \in PosUpTo(ubs, N, s) PROVE q \in PosIn(b, s)
    <3>1. PICK v \in 1 .. N : \E k \in DOMAIN ubs[v] :  ubs[v][k].seq = s /\ ubs[v][k].pos = q
      BY <2>1 DEF PosUpTo
    <3>2. PICK k \in DOMAIN ubs[v] :  ubs[v][k].seq = s /\ ubs[v][k].pos = q
      BY <3>1
    <3>3. PICK j \in DOMAIN b : ubs[v][k] = b[j]
      BY <1>4, <3>2
    <3>4. QED
      BY <2>1, <3>2, <3>3 DEF PosUpTo, PosIn
  <2>2. ASSUME q \in PosIn(b, s) PROVE q \in PosUpTo(ubs, N, s)
    <3>1. PICK j \in DOMAIN b : b[j].seq = s /\ b[j].pos = q
      BY <2>2 DEF PosIn
    <3>2. PICK v \in 1 .. N : \E k \in DOMAIN ubs[v] :  ubs[v][k] = b[j]
      BY <1>4, <3>1
    <3>3. PICK k \in DOMAIN ubs[v] :  ubs[v][k] = b[j]
      BY <3>2
    <3>4. QED
      BY <2>2, <3>1, <3>3 DEF PosUpTo, PosIn
  <2>3. QED
    BY <2>1, <2>2
<1>6. PosUpTo(ubs, N, s) = n .. l - 1
  BY <1>5
<1>7. A \union B = PosUpTo(ubs, N, s)
  BY <1>2, <1>3 DEF PosUpTo
<1>8. ASSUME NEW p \in A, NEW q \in B PROVE p < q
  <2>1. PICK v \in 1 .. u : \E k \in DOMAIN ubs[v] :  ubs[v][k].seq = s /\ ubs[v][k].pos = p
    BY DEF PosUpTo
  <2>2. PICK k \in DOMAIN ubs[v] :  ubs[v][k].seq = s /\ ubs[v][k].pos = p
    BY <2>1
  <2>3. PICK w \in u + 1 .. N : \E j \in DOMAIN ubs[w] :  ubs[w][j].seq = s /\ ubs[w][j].pos = q
    OBVIOUS
  <2>4. PICK j \in DOMAIN ubs[w] :  ubs[w][j].seq = s /\ ubs[w][j].pos = q
    BY <2>3
  <2>5. v < w /\ v \in DOMAIN ubs /\ w \in DOMAIN ubs
    BY <1>1, <1>3
  <2>6. \A x, y \in DOMAIN ubs : \A e \in DOMAIN ubs[x], f \in DOMAIN ubs[y] :
           ubs[x][e].seq = ubs[y][f].seq /\ x < y => ubs[x][e].pos < ubs[y][f].pos
    BY DEF Divides
  <2>7. ubs[v][k].seq = ubs[w][j].seq
    BY <2>2, <2>4
  <2>8. ubs[v][k].pos < ubs[w][j].pos
    BY <2>5, <2>6, <2>7
  <2>9. QED
    BY <2>2, <2>4, <2>8
<1>9. A \in SUBSET Nat /\ B \in SUBSET Nat
  BY DEF PosUpTo
<1> HIDE DEF A, B
<1>10. \E c \in n .. l : A = n .. c - 1 /\ B = c .. l - 1
  <2>1. A \union B = n .. l - 1
    BY <1>6, <1>7
  <2>2. \A p \in A, q \in B : p < q
    BY <1>8
  <2>3. Halves(A, B, n, l)
    BY <1>9, <2>1, <2>2 DEF Halves
  <2>4. CutAtOf(A, B, n, l)
    BY <2>3, CutExists
  <2>5. QED
    BY <2>4 DEF CutAtOf
<1>11. QED
  BY <1>6, <1>10 DEF A, N

\* The positions from n up to l.
Span(n, l) == n .. l - 1

LEMMA ReachedSpan ==
    ASSUME NEW b \in Seq(Token), NEW ubs, Divides(ubs, b), NEW s, NEW n \in Nat, NEW l \in Nat, n <= l,
           PosIn(b, s) = Span(n, l), NEW u \in 0 .. Len(ubs)
    PROVE  /\ \E c \in n .. l : PosUpTo(ubs, u, s) = Span(n, c)
           /\ PosUpTo(ubs, Len(ubs), s) = Span(n, l)
  BY ReachedAt DEF Span

\* What has been written makes a sequence longer.
LEMMA WrittenHeld ==
    ASSUME Plain, NEW m \in Memory(mode), Owned(mode, m), NEW c \in Memory(mode), Owned(mode, c),
           NEW b \in Seq(Token), NEW ubs \in Seq(Seq(Token)), Divides(ubs, b), NEW found,
           NEW N \in Nat, N = Len(ubs), NEW u \in 0 .. N,
           Places(mode, m, ubs, found, N), Written(mode, m, c, ubs, found, u),
           NEW s \in KvSeqs, NEW prompt, NEW n \in Nat, NEW l \in Nat, n <= l, Held(mode, m, s, prompt, n),
           \A k \in DOMAIN b : b[k].seq = s => b[k].token = prompt[b[k].pos + 1],
           PosUpTo(ubs, u, s) = n .. l - 1
    PROVE  Held(mode, c, s, prompt, l) /\ (Unshifted(mode, m, s) => Unshifted(mode, c, s))
<1> DEFINE st == StreamIn(mode, s)
           Old(i) == \A v \in 1 .. u : ~Taking(mode, ubs[v], found[v], st, i)
<1>1. st \in KvSeqs /\ mode \in Modes
  BY Facts DEF Plain
<1>2. \A v \in 1 .. u : v \in 1 .. N /\ v \in DOMAIN ubs /\ ubs[v] \in Seq(Token)
  OBVIOUS
<1>3. ASSUME NEW i \in CellsOf(mode), Old(i)
      PROVE  c.cells[st][i] = m.cells[st][i] /\ c.rows[st][i] = m.rows[st][i]
  BY <1>1, <1>3 DEF Written, Fills
<1>4. ASSUME NEW i \in HeldBy(mode, c, s), ~Old(i)
      PROVE  \E v \in 1 .. u : \E k \in DOMAIN ubs[v] :
                /\ ubs[v][k].seq = s /\ found[v][k] = i /\ ubs[v][k] \in Token
                /\ c.cells[st][i] = TokenCell(ubs[v][k]) /\ c.rows[st][i] = TokenRow(ubs[v][k])
  <2>1. PICK v \in 1 .. u : \E k \in DOMAIN ubs[v] :  StreamIn(mode, ubs[v][k].seq) = st /\ found[v][k] = i
    BY <1>4 DEF Taking
  <2>2. PICK k \in DOMAIN ubs[v] :  StreamIn(mode, ubs[v][k].seq) = st /\ found[v][k] = i
    BY <2>1
  <2>3. c.cells[st][i] = TokenCell(ubs[v][k]) /\ c.rows[st][i] = TokenRow(ubs[v][k])
    BY <2>2 DEF Written, Fills
  <2>4. ubs[v][k] \in Token
    BY <1>2, TokenParts
  <2>5. s \in TokenCell(ubs[v][k]).seqs
    BY <1>4, <2>3 DEF HeldBy
  <2>6. ubs[v][k].seq = s
    BY <2>4, <2>5, TokenCellType
  <2>7. QED
    BY <2>2, <2>3, <2>4, <2>6
<1>5. ASSUME NEW v \in 1 .. u, NEW k \in DOMAIN ubs[v], ubs[v][k].seq = s
      PROVE  /\ ubs[v][k] \in Token /\ ubs[v][k].pos \in n .. l - 1
             /\ ubs[v][k].token = prompt[ubs[v][k].pos + 1]
             /\ found[v][k] \in HeldBy(mode, c, s) /\ c.cells[st][found[v][k]] = TokenCell(ubs[v][k])
  <2>1. ubs[v][k] \in Token
    BY <1>2, TokenParts
  <2>2. ubs[v][k].pos \in Nat
    BY <2>1 DEF Token
  <2>3. ubs[v][k].pos \in PosUpTo(ubs, u, s)
    BY <1>5, <2>2 DEF PosUpTo
  <2>4. \E j \in DOMAIN b : ubs[v][k] = b[j]
    BY <1>2 DEF Divides
  <2>5. c.cells[st][found[v][k]] = TokenCell(ubs[v][k])
    BY <1>5 DEF Written, Fills
  <2>6. found[v][k] \in CellsOf(mode)
    BY <1>2 DEF Places
  <2>7. found[v][k] \in HeldBy(mode, c, s)
    BY <1>5, <2>1, <2>5, <2>6, TokenCellType DEF HeldBy
  <2>8. QED
    BY <1>5, <2>1, <2>3, <2>4, <2>5, <2>7
<1>6. ASSUME NEW i \in HeldBy(mode, m, s)
      PROVE  i \in HeldBy(mode, c, s) /\ Old(i) /\ i \in CellsOf(mode)
  <2>1. i \in CellsOf(mode) /\ m.cells[st][i] # Free /\ s \in m.cells[st][i].seqs
    BY <1>1, HeldApart DEF HeldBy
  <2>2. Old(i)
    BY <1>2, <2>1 DEF Taking, Places
  <2>3. QED
    BY <1>3, <2>1, <2>2 DEF HeldBy
<1>7. ASSUME NEW i \in HeldBy(mode, c, s), Old(i)
      PROVE  i \in HeldBy(mode, m, s) /\ c.cells[st][i] = m.cells[st][i] /\ c.rows[st][i] = m.rows[st][i]
  BY <1>3, <1>7 DEF HeldBy
<1>8. ASSUME NEW i \in HeldBy(mode, c, s)
      PROVE  /\ c.cells[st][i].pos \in 0 .. l - 1 /\ (c.cells[st][i].pos < n <=> Old(i))
             /\ c.rows[st][i].token = prompt[c.cells[st][i].pos + 1]
             /\ c.rows[st][i].at + c.cells[st][i].shift = c.cells[st][i].pos
             /\ ~Old(i) => c.cells[st][i].shift = 0
  <2>1. CASE Old(i)
    <3>1. i \in HeldBy(mode, m, s) /\ c.cells[st][i] = m.cells[st][i] /\ c.rows[st][i] = m.rows[st][i]
      BY <1>7, <2>1
    <3>2. /\ m.cells[st][i].pos \in 0 .. n - 1 /\ m.rows[st][i].token = prompt[m.cells[st][i].pos + 1]
          /\ m.rows[st][i].at + m.cells[st][i].shift = m.cells[st][i].pos
      BY <3>1 DEF Held
    <3>3. QED
      BY <2>1, <3>1, <3>2
  <2>2. CASE ~Old(i)
    <3>1. PICK v \in 1 .. u : \E k \in DOMAIN ubs[v] : 
                /\ ubs[v][k].seq = s /\ found[v][k] = i /\ ubs[v][k] \in Token
                /\ c.cells[st][i] = TokenCell(ubs[v][k]) /\ c.rows[st][i] = TokenRow(ubs[v][k])
      BY <1>4, <2>2
    <3>2. PICK k \in DOMAIN ubs[v] : 
                /\ ubs[v][k].seq = s /\ found[v][k] = i /\ ubs[v][k] \in Token
                /\ c.cells[st][i] = TokenCell(ubs[v][k]) /\ c.rows[st][i] = TokenRow(ubs[v][k])
      BY <3>1
    <3>3. ubs[v][k].pos \in n .. l - 1 /\ ubs[v][k].token = prompt[ubs[v][k].pos + 1]
      BY <1>5, <3>2
    <3> DEFINE t == ubs[v][k]
    <3>4. t \in Token /\ t.pos \in n .. l - 1 /\ t.token = prompt[t.pos + 1]
          /\ c.cells[st][i] = TokenCell(t) /\ c.rows[st][i] = TokenRow(t)
      BY <3>2, <3>3
    <3> HIDE DEF t
    <3>5. QED
      BY <2>2, <3>4, TokenCellType
  <2>3. QED
    BY <2>1, <2>2
<1> HIDE DEF Old
<1>9. ASSUME NEW i \in HeldBy(mode, c, s), NEW j \in HeldBy(mode, c, s), c.cells[st][i].pos = c.cells[st][j].pos
      PROVE  i = j
  <2>1. Old(i) <=> Old(j)
    BY <1>8, <1>9
  <2>2. CASE Old(i)
    <3>1. /\ i \in HeldBy(mode, m, s) /\ c.cells[st][i] = m.cells[st][i]
          /\ j \in HeldBy(mode, m, s) /\ c.cells[st][j] = m.cells[st][j]
      BY <1>7, <2>1, <2>2
    <3>2. \A a, e \in HeldBy(mode, m, s) : m.cells[st][a].pos = m.cells[st][e].pos => a = e
      BY DEF Held
    <3>3. QED
      BY <1>9, <3>1, <3>2
  <2>3. CASE ~Old(i)
    <3>1. PICK v \in 1 .. u : \E k \in DOMAIN ubs[v] : 
                /\ ubs[v][k].seq = s /\ found[v][k] = i /\ ubs[v][k] \in Token /\ c.cells[st][i] = TokenCell(ubs[v][k])
      BY <1>4, <2>3
    <3>2. PICK k \in DOMAIN ubs[v] : 
                /\ ubs[v][k].seq = s /\ found[v][k] = i /\ ubs[v][k] \in Token /\ c.cells[st][i] = TokenCell(ubs[v][k])
      BY <3>1
    <3>3. PICK w \in 1 .. u : \E x \in DOMAIN ubs[w] : 
                /\ ubs[w][x].seq = s /\ found[w][x] = j /\ ubs[w][x] \in Token /\ c.cells[st][j] = TokenCell(ubs[w][x])
      BY <1>4, <2>1, <2>3
    <3>4. PICK x \in DOMAIN ubs[w] : 
                /\ ubs[w][x].seq = s /\ found[w][x] = j /\ ubs[w][x] \in Token /\ c.cells[st][j] = TokenCell(ubs[w][x])
      BY <3>3
    <3>5. ubs[v][k].pos = ubs[w][x].pos
      BY <1>9, <3>2, <3>4, TokenCellType
    <3>6. v = w /\ k = x
      <4>1. v \in DOMAIN ubs /\ w \in DOMAIN ubs /\ k \in DOMAIN ubs[v] /\ x \in DOMAIN ubs[w]
        BY <1>2, <3>1, <3>2, <3>3, <3>4
      <4>2. ubs[v][k].seq = ubs[w][x].seq
        BY <3>2, <3>4
      <4> HIDE DEF st
      <4>3. Same(ubs, v, k, w, x)
        BY <3>5, <4>1, <4>2 DEF Same
      <4>4. QED
        BY <4>3, DividesOnce
    <3>7. QED
      BY <3>2, <3>4, <3>6
  <2>4. QED
    BY <2>2, <2>3
<1>10. ASSUME NEW q \in 0 .. l - 1 PROVE \E i \in HeldBy(mode, c, s) : c.cells[st][i].pos = q
  <2>1. CASE q < n
    <3>1. PICK i \in HeldBy(mode, m, s) : m.cells[st][i].pos = q
      BY <2>1 DEF Held
    <3>2. QED
      BY <1>3, <1>6, <3>1 DEF Old
  <2>2. CASE ~(q < n)
    <3>1. q \in PosUpTo(ubs, u, s)
      BY <2>2
    <3>2. PICK v \in 1 .. u : \E k \in DOMAIN ubs[v] :  ubs[v][k].seq = s /\ ubs[v][k].pos = q
      BY <3>1 DEF PosUpTo
    <3>3. PICK k \in DOMAIN ubs[v] :  ubs[v][k].seq = s /\ ubs[v][k].pos = q
      BY <3>2
    <3>4. found[v][k] \in HeldBy(mode, c, s) /\ c.cells[st][found[v][k]] = TokenCell(ubs[v][k]) /\ ubs[v][k] \in Token
      BY <1>5, <3>3
    <3> DEFINE t == ubs[v][k]
               i == found[v][k]
    <3>5. t \in Token /\ t.pos = q /\ i \in HeldBy(mode, c, s) /\ c.cells[st][i] = TokenCell(t)
      BY <3>3, <3>4
    <3> HIDE DEF t, i
    <3>6. c.cells[st][i].pos = q
      BY <3>5, TokenCellType
    <3>7. QED
      BY <3>5, <3>6
  <2>3. QED
    BY <2>1, <2>2
<1>11. Held(mode, c, s, prompt, l)
  BY <1>8, <1>9, <1>10 DEF Held
<1>12. Unshifted(mode, m, s) => Unshifted(mode, c, s)
  <2> SUFFICES ASSUME Unshifted(mode, m, s), NEW i \in HeldBy(mode, c, s) PROVE c.cells[st][i].shift = 0
    BY DEF Unshifted
  <2>1. CASE Old(i)
    <3>1. i \in HeldBy(mode, m, s) /\ c.cells[st][i] = m.cells[st][i]
      BY <1>7, <2>1
    <3>2. QED
      BY <3>1 DEF Unshifted
  <2>2. CASE ~Old(i)
    BY <1>8, <2>2
  <2>3. QED
    BY <2>1, <2>2
<1>13. QED
  BY <1>11, <1>12

\* A token whose sequence is held without a shift attends to its text.
LEMMA SeesText ==
    ASSUME Plain, NEW c \in Memory(mode), NEW t \in Token, NEW prompt, NEW l \in Nat,
           Held(mode, c, t.seq, prompt, l), Unshifted(mode, c, t.seq), t.pos < l
    PROVE  SeesItsText(c, t, prompt)
<1> DEFINE s == t.seq
           st == StreamIn(mode, s)
           seen == {i \in HeldBy(mode, c, s) : c.cells[st][i].pos <= t.pos}
           due == 0 .. t.pos
           row(q) == [token |-> prompt[q + 1], at |-> q]
<1>1. s \in KvSeqs /\ t.pos \in Nat /\ st = StreamOf(s) /\ st \in KvSeqs /\ mode \in Modes
  BY Facts DEF Token, Plain
<1>2. /\ seen = {i \in Holding(c, s) : c.cells[StreamOf(s)][i].pos <= t.pos /\ ~Masked(c.cells[StreamOf(s)][i].pos, t.pos)}
      /\ due = {q \in 0 .. t.pos : ~Masked(q, t.pos)}
  BY <1>1, Facts
<1>3. ASSUME NEW i \in HeldBy(mode, c, s)
      PROVE  c.cells[st][i].pos \in 0 .. l - 1 /\ c.rows[st][i] = row(c.cells[st][i].pos)
  <2>1. /\ c.cells[st][i].pos \in 0 .. l - 1 /\ c.rows[st][i].token = prompt[c.cells[st][i].pos + 1]
        /\ c.rows[st][i].at + c.cells[st][i].shift = c.cells[st][i].pos
    BY DEF Held
  <2>2. c.cells[st][i].shift = 0
    BY DEF Unshifted
  <2>3. i \in CellsOf(mode)
    BY DEF HeldBy
  <2>4. c.rows[st][i] \in Row /\ c.rows[st][i].at \in Int
    BY <1>1, <2>3, MemoryParts
  <2>5. c.rows[st][i].at = c.cells[st][i].pos
    BY <2>1, <2>2, <2>4
  <2> DEFINE r == c.rows[st][i]
  <2>6. r \in Row /\ r.token = prompt[c.cells[st][i].pos + 1] /\ r.at = c.cells[st][i].pos
    BY <2>1, <2>4, <2>5
  <2> HIDE DEF r
  <2>7. r = row(c.cells[st][i].pos)
    BY <2>6 DEF Row
  <2>8. QED
    BY <2>1, <2>7 DEF r
<1>4. \A q \in due : \E i \in seen : c.cells[st][i].pos = q
  <2> TAKE q \in due
  <2>1. q \in 0 .. l - 1 /\ q <= t.pos
    BY <1>1
  <2>2. PICK i \in HeldBy(mode, c, s) : c.cells[st][i].pos = q
    BY <2>1 DEF Held
  <2>3. QED
    BY <2>1, <2>2
<1>5. \A i \in seen : i \in HeldBy(mode, c, s) /\ c.cells[st][i].pos \in due
  <2> TAKE i \in seen
  <2>1. i \in HeldBy(mode, c, s) /\ c.cells[st][i].pos <= t.pos
    OBVIOUS
  <2>2. c.cells[st][i].pos \in 0 .. l - 1
    BY <1>3, <2>1
  <2>3. QED
    BY <1>1, <2>1, <2>2
<1> DEFINE f == [i \in seen |-> c.cells[st][i].pos]
<1> HIDE DEF seen, due
<1>6. f \in [seen -> due]
  BY <1>5
<1>7. \A i, j \in seen : f[i] = f[j] => i = j
  BY <1>5 DEF Held
<1>8. f \in Bijection(seen, due)
  <2>1. IsInjective(f)
    BY <1>6, <1>7 DEF IsInjective
  <2>2. \A q \in due : \E i \in seen : f[i] = q
    BY <1>4
  <2> HIDE DEF f
  <2>3. QED
    BY <1>6, <2>1, <2>2 DEF Bijection, Injection, Surjection
<1>9. Cardinality(seen) = Cardinality(due)
  <2>1. IsFiniteSet(seen)
    <3>1. IsFiniteSet(CellsOf(mode))
      <4>1. mode.cells - 1 \in Int
        BY Facts
      <4> DEFINE e == mode.cells - 1
      <4> HIDE DEF e
      <4>2. IsFiniteSet(0 .. e)
        BY <4>1, FS_Interval DEF e
      <4>3. QED
        BY <4>2 DEF e, CellsOf
    <3>2. seen \in SUBSET CellsOf(mode)
      BY DEF seen, HeldBy
    <3>3. QED
      BY <3>1, <3>2, FS_Subset
  <2>2. ExistsBijection(seen, due)
    <3> HIDE DEF f
    <3>1. QED
      BY <1>8 DEF ExistsBijection
  <2>3. QED
    BY <2>1, <2>2, FS_Bijection
<1>10. {<<c.cells[st][i].pos, c.rows[st][i]>> : i \in seen} = {<<q, row(q)>> : q \in due}
  <2> DEFINE pair(i) == <<c.cells[st][i].pos, c.rows[st][i]>>
  <2>1. \A i \in seen : c.cells[st][i].pos \in due /\ pair(i) = <<c.cells[st][i].pos, row(c.cells[st][i].pos)>>
    BY <1>3, <1>5
  <2>2. \A q \in due : \E i \in seen : pair(i) = <<q, row(q)>>
    BY <1>4, <2>1
  <2> HIDE DEF row
  <2>3. QED
    BY <2>1, <2>2
<1>11. QED
  BY <1>1, <1>2, <1>9, <1>10 DEF SeesItsText

-----------------------------------------------------------------------------
\* Whatever it is placed in, a ubatch leaves a memory.
LEMMA ComputedType ==
    ASSUME Plain, NEW m \in Memory(mode), NEW ub \in Seq(Token), NEW idx \in [DOMAIN ub -> CellsOf(mode)]
    PROVE  Computed(m, ub, idx) \in Memory(mode)
<1> DEFINE new(st, i) == {k \in DOMAIN ub : At(ub, k) = st /\ idx[k] = i}
           taken == [s \in KvSeqs |-> Max({-1} \union {m.cells[At(ub, k)][idx[k]].pos :
                               k \in {j \in DOMAIN ub : m.cells[At(ub, j)][idx[j]].seqs = {s}}})]
           left(c) == {s \in c.seqs : c.pos > taken[s]}
           cells == [st \in KvSeqs |-> [i \in KvCells |->
                      IF new(st, i) # {}
                      THEN LET k == Min(new(st, i)) IN [pos |-> ub[k].pos, seqs |-> {ub[k].seq}, shift |-> 0]
                      ELSE IF left(m.cells[st][i]) = {} THEN Free ELSE [m.cells[st][i] EXCEPT !.seqs = left(m.cells[st][i])]]]
           last(st) == Max({k \in DOMAIN ub : At(ub, k) = st})
           head == [st \in KvSeqs |-> IF st \in StreamsOf(ub) THEN 1 + idx[last(st)] ELSE m.head[st]]
           put == [m EXCEPT !.cells = cells, !.head = head]
           rows == [st \in KvSeqs |-> [i \in KvCells |->
                       IF new(st, i) = {} THEN put.rows[st][i]
                       ELSE LET k == Min(new(st, i)) IN [token |-> ub[k].token, at |-> ub[k].pos]]]
           result == [put EXCEPT !.rows = rows]
<1>1. ApplyUbatch(m, ub, idx) = put
  BY DEF ApplyUbatch
<1>2. Computed(m, ub, idx) = result
  <2> HIDE DEF put
  <2>1. QED
    BY <1>1 DEF Computed
<1>3. mode \in Modes /\ KvCells = CellsOf(mode) /\ CellsOf(mode) \subseteq Nat
  BY Facts DEF Plain, CellsOf
<1>4. \A k \in DOMAIN ub : At(ub, k) \in KvSeqs /\ ub[k] \in Token /\ k \in Nat /\ idx[k] \in CellsOf(mode)
  BY TokenParts
<1>5. \A st, i : new(st, i) # {} => Min(new(st, i)) \in DOMAIN ub
  <2> TAKE st, i
  <2>1. new(st, i) \in SUBSET Nat
    BY <1>4
  <2>2. new(st, i) # {} => Min(new(st, i)) \in new(st, i)
    BY <2>1, SmallestExists
  <2>3. QED
    BY <2>2
<1> HIDE DEF taken, put
<1>6. ASSUME NEW st \in KvSeqs, NEW i \in CellsOf(mode) PROVE cells[st][i] \in Cell
  <2> DEFINE c == m.cells[st][i]
             k == Min(new(st, i))
  <2>1. c \in Cell /\ c.seqs \in SUBSET KvSeqs
    BY <1>3, MemoryParts
  <2>2. cells[st][i] = IF new(st, i) # {} THEN TokenCell(ub[k])
                       ELSE IF left(c) = {} THEN Free ELSE [c EXCEPT !.seqs = left(c)]
    BY <1>3 DEF TokenCell
  <2> HIDE DEF cells
  <2>3. left(c) \in SUBSET KvSeqs
    BY <2>1
  <2>4. [c EXCEPT !.seqs = left(c)] \in Cell
    <3> DEFINE e == left(c)
    <3>1. e \in SUBSET KvSeqs
      BY <2>3
    <3> HIDE DEF e, c
    <3>2. [c EXCEPT !.seqs = e] \in Cell
      BY <2>1, <3>1 DEF Cell
    <3>3. QED
      BY <3>2 DEF e
  <2>5. new(st, i) # {} => TokenCell(ub[k]) \in Cell
    <3>1. new(st, i) # {} => k \in DOMAIN ub
      BY <1>5
    <3> HIDE DEF k, new
    <3>2. QED
      BY <1>4, <3>1, TokenCellType
  <2> HIDE DEF left, c, k, new
  <2>6. QED
    BY <2>2, <2>4, <2>5, FreeCell
<1>7. cells \in [KvSeqs -> [CellsOf(mode) -> Cell]]
  <2>1. cells = [st \in KvSeqs |-> [i \in CellsOf(mode) |-> cells[st][i]]]
    BY <1>3
  <2> HIDE DEF cells
  <2>2. QED
    BY <1>6, <2>1
<1>8. head \in [KvSeqs -> Nat]
  <2>1. ASSUME NEW st \in StreamsOf(ub) PROVE 1 + idx[last(st)] \in Nat
    <3> DEFINE K == {k \in DOMAIN ub : At(ub, k) = st}
    <3>1. PICK k \in DOMAIN ub : st = At(ub, k)
      BY DEF StreamsOf
    <3>2. K \in SUBSET (0 .. Len(ub)) /\ Len(ub) \in Nat /\ K # {} /\ K \subseteq DOMAIN ub
      BY <1>4, <3>1
    <3> HIDE DEF K
    <3>3. Max(K) \in DOMAIN ub
      BY <3>2, LargestExists
    <3>4. last(st) \in DOMAIN ub
      BY <3>3 DEF K
    <3> HIDE DEF last
    <3>5. QED
      BY <1>3, <1>4, <3>4
  <2>2. \A st \in KvSeqs : m.head[st] \in Nat
    BY <1>3, MemoryParts
  <2> HIDE DEF last
  <2>3. QED
    BY <2>1, <2>2
<1>9. put \in Memory(mode)
  <2> HIDE DEF cells, head
  <2>1. QED
    BY <1>7, <1>8 DEF Memory, put
<1> HIDE DEF cells, head
<1>10. ASSUME NEW st \in KvSeqs, NEW i \in CellsOf(mode) PROVE rows[st][i] \in Row
  <2> DEFINE k == Min(new(st, i))
  <2>1. put.rows[st][i] \in Row
    BY <1>3, <1>9, MemoryParts
  <2>2. rows[st][i] = IF new(st, i) = {} THEN put.rows[st][i] ELSE TokenRow(ub[k])
    BY <1>3 DEF TokenRow
  <2>3. new(st, i) # {} => TokenRow(ub[k]) \in Row
    <3>1. new(st, i) # {} => k \in DOMAIN ub
      BY <1>5
    <3> HIDE DEF k, new
    <3>2. QED
      BY <1>4, <3>1, TokenCellType
  <2> HIDE DEF rows, k, new
  <2>4. QED
    BY <2>1, <2>2, <2>3
<1>11. rows \in [KvSeqs -> [CellsOf(mode) -> Row]]
  <2>1. rows = [st \in KvSeqs |-> [i \in CellsOf(mode) |-> rows[st][i]]]
    BY <1>3
  <2> HIDE DEF rows
  <2>2. QED
    BY <1>10, <2>1
<1> HIDE DEF rows
<1>12. QED
  BY <1>2, <1>9, <1>11 DEF Memory

\* What is given to the decoding: ubatches that have places.
Placed(t) ==
    /\ t.m \in Memory(mode) /\ Owned(mode, t.m)
    /\ t.ubs \in Seq(Seq(Token)) /\ Places(mode, t.m, t.ubs, t.found, Len(t.ubs))

Outcome == [m : Memory(mode), blind : BOOLEAN]
Decoding(t, d, u) ==
    LET m == Computed(d.m, t.ubs[u], t.found[u])
    IN [m |-> m, blind |-> \/ d.blind
                           \/ \E k \in DOMAIN t.ubs[u] : LET tok == t.ubs[u][k]
                                                         IN ~SeesItsText(m, tok, kvSlot[tok.seq].prompt)]

\* The decoding of a ubatch leaves a memory.
LEMMA DecodingType ==
    ASSUME Plain, NEW t, Placed(t), NEW d \in Outcome, NEW u \in 1 .. Len(t.ubs)
    PROVE  Decoding(t, d, u) \in Outcome
<1>1. t.ubs[u] \in Seq(Token) /\ t.found[u] \in [DOMAIN t.ubs[u] -> CellsOf(mode)]
  <2>1. t.ubs \in Seq(Seq(Token)) /\ Places(mode, t.m, t.ubs, t.found, Len(t.ubs))
    BY DEF Placed
  <2> DEFINE T == Seq(Token)
             ubs == t.ubs
  <2>2. ubs \in Seq(T) /\ u \in 1 .. Len(ubs)
    BY <2>1
  <2> HIDE DEF T, ubs
  <2>3. ubs[u] \in T
    BY <2>2
  <2>4. \A v \in 1 .. Len(t.ubs) : t.found[v] \in [DOMAIN t.ubs[v] -> CellsOf(mode)]
    BY <2>1 DEF Places
  <2>5. QED
    BY <2>3, <2>4 DEF T, ubs
<1>2. d.m \in Memory(mode) /\ d.blind \in BOOLEAN
  BY DEF Outcome
<1> DEFINE m == Computed(d.m, t.ubs[u], t.found[u])
           missed == \E k \in DOMAIN t.ubs[u] : LET tok == t.ubs[u][k] IN ~SeesItsText(m, tok, kvSlot[tok.seq].prompt)
<1>3. m \in Memory(mode)
  BY <1>1, <1>2, ComputedType
<1> HIDE DEF m
<1>4. (d.blind \/ missed) \in BOOLEAN
  OBVIOUS
<1>5. Decoding(t, d, u) = [m |-> m, blind |-> d.blind \/ missed]
  BY DEF Decoding, m
<1> HIDE DEF missed
<1>6. QED
  BY <1>3, <1>4, <1>5 DEF Outcome

\* One ubatch after the other is computed.
LEMMA DecodedRuns ==
    ASSUME Plain, NEW t, Placed(t), blind \in BOOLEAN, NEW u \in 0 .. Len(t.ubs)
    PROVE  \E g \in [0 .. u -> Outcome] :
              /\ g[0] = [m |-> t.m, blind |-> blind] /\ Decoded(t, u) = g[u]
              /\ \A i \in 1 .. u : g[i] = Decoding(t, g[i - 1], i)
<1> DEFINE n == u
           ss == [i \in 1 .. n |-> i]
           base == [m |-> t.m, blind |-> blind]
           S == Outcome
           step == [i \in 1 .. n |-> [acc \in S |-> Decoding(t, acc, ss[i])]]
           Is(h) == h = [s \in SUBSET DOMAIN ss |->
                            IF s = {} THEN base ELSE Decoding(t, h[s \ {Max(s)}], ss[Max(s)])]
           h == CHOOSE f : Is(f)
<1>1. n \in Nat /\ DOMAIN ss = 1 .. n /\ \A i \in 1 .. n : ss[i] \in 1 .. Len(t.ubs) /\ ss[i] = i
  <2>1. Len(t.ubs) \in Nat
    BY DEF Placed
  <2>2. QED
    BY <2>1
<1>2. Decoded(t, u) = h[DOMAIN ss]
  BY DEF Decoded, Decoding, FoldLeft, MapThenFoldSet
<1>3. base \in S /\ \A i \in 1 .. n : \A acc \in S : Decoding(t, acc, ss[i]) \in S
  <2>1. base \in S
    BY DEF Outcome, Placed
  <2>2. QED
    BY <1>1, <2>1, DecodingType
<1> HIDE DEF n, S, ss, base
<1>4. Steps(step, n, S)
  BY <1>3 DEF Steps
<1>5. PICK f \in [SUBSET (1 .. n) -> S] : IsFold(f, step, n, base)
  <2> HIDE DEF step
  <2>1. QED
    BY <1>1, <1>3, <1>4, FoldExists DEF HasFold
<1>6. Is(f)
  <2>1. ASSUME NEW s \in SUBSET (1 .. n)
        PROVE  f[s] = IF s = {} THEN base ELSE Decoding(t, f[s \ {Max(s)}], ss[Max(s)])
    <3>1. CASE s = {}
      BY <1>5, <3>1 DEF IsFold
    <3>2. CASE s # {}
      <4>1. Max(s) \in 1 .. n /\ f[s] = step[Max(s)][f[s \ {Max(s)}]] /\ f[s \ {Max(s)}] \in S
        BY <1>5, <3>2 DEF IsFold
      <4>2. QED
        BY <3>2, <4>1
    <3>3. QED
      BY <3>1, <3>2
  <2>2. f = [s \in SUBSET (1 .. n) |-> f[s]]
    BY <1>5
  <2>3. QED
    BY <1>1, <2>1, <2>2
<1>7. \A s \in SUBSET (1 .. n) : h[s] = IF s = {} THEN base ELSE Decoding(t, h[s \ {Max(s)}], ss[Max(s)])
  <2>1. Is(h)
    <3> HIDE DEF Is
    <3>1. QED
      BY <1>6
  <2>2. h = [s \in SUBSET DOMAIN ss |-> IF s = {} THEN base ELSE Decoding(t, h[s \ {Max(s)}], ss[Max(s)])]
    BY <2>1
  <2> HIDE DEF h
  <2>3. QED
    BY <1>1, <2>2
<1> HIDE DEF h
<1>8. \A s \in SUBSET (1 .. n) : s # {} => Max(s) \in 1 .. n
  BY <1>5 DEF IsFold
<1>9. \A s \in SUBSET (1 .. n) : s # {} /\ h[s \ {Max(s)}] \in S => h[s] = step[Max(s)][h[s \ {Max(s)}]]
  BY <1>7, <1>8
<1>10. Folds(h, step, n, S, base)
  <2>1. h[{}] = base
    BY <1>7
  <2> HIDE DEF step
  <2>2. QED
    BY <1>9, <2>1 DEF Folds
<1>11. PICK g \in [0 .. n -> S] : IsRun(g, step, n, base) /\ g[n] = h[1 .. n]
  <2> HIDE DEF step
  <2>1. QED
    BY <1>1, <1>3, <1>4, <1>10, FoldIsRun
<1>12. \A i \in 1 .. n : g[i] = Decoding(t, g[i - 1], i)
  <2> TAKE i \in 1 .. n
  <2>1. i - 1 \in 0 .. n /\ g[i] = step[i][g[i - 1]]
    BY <1>1, <1>11 DEF IsRun
  <2>2. g[i - 1] \in S
    BY <2>1
  <2>3. step[i][g[i - 1]] = Decoding(t, g[i - 1], ss[i])
    BY <2>2
  <2>4. QED
    BY <1>1, <2>1, <2>3
<1>13. g[0] = base /\ Decoded(t, u) = g[n]
  BY <1>1, <1>2, <1>11 DEF IsRun
<1>14. QED
  BY <1>12, <1>13 DEF n, S, base

-----------------------------------------------------------------------------
\* A sequence holds its prompt up to where the batch goes on, without a shift.
Ready(x, m, s, prompt, b) ==
    /\ Unshifted(x, m, s)
    /\ \E n, l \in Nat : n <= l /\ Held(x, m, s, prompt, n) /\ PosIn(b, s) = n .. l - 1
    /\ \A k \in DOMAIN b : b[k].seq = s => b[k].token = prompt[b[k].pos + 1]

\* What one more ubatch leaves of a sequence: a longer part of its prompt.
LEMMA ReadyHeld ==
    ASSUME Plain, NEW m \in Memory(mode), Owned(mode, m), NEW c \in Memory(mode), Owned(mode, c),
           NEW b \in Seq(Token), NEW ubs \in Seq(Seq(Token)), Divides(ubs, b), NEW found,
           NEW u \in 0 .. Len(ubs), Places(mode, m, ubs, found, Len(ubs)), Written(mode, m, c, ubs, found, u),
           NEW s \in KvSeqs, NEW prompt, Ready(mode, m, s, prompt, b)
    PROVE  /\ Unshifted(mode, c, s)
           /\ \E l \in Nat : /\ Held(mode, c, s, prompt, l)
                             /\ \A q \in PosUpTo(ubs, u, s) : q < l
<1>1. PICK n \in Nat : \E l \in Nat : n <= l /\ Held(mode, m, s, prompt, n) /\ PosIn(b, s) = n .. l - 1
  BY DEF Ready
<1>2. PICK l \in Nat : n <= l /\ Held(mode, m, s, prompt, n) /\ PosIn(b, s) = n .. l - 1
  BY <1>1
<1>3. PICK e \in n .. l : PosUpTo(ubs, u, s) = n .. e - 1
  BY <1>2, ReachedAt
<1>4. e \in Nat /\ n <= e
  BY <1>3
<1>5. Unshifted(mode, m, s) /\ \A k \in DOMAIN b : b[k].seq = s => b[k].token = prompt[b[k].pos + 1]
  BY DEF Ready
<1>6. Len(ubs) \in Nat
  OBVIOUS
<1>7. Held(mode, c, s, prompt, e) /\ Unshifted(mode, c, s)
  BY <1>2, <1>3, <1>4, <1>5, <1>6, WrittenHeld
<1>8. \A q \in PosUpTo(ubs, u, s) : q < e
  BY <1>3, <1>4
<1>9. QED
  BY <1>4, <1>7, <1>8

\* The tokens of a ubatch, written, attend to their texts.
LEMMA UbatchSees ==
    ASSUME Plain, NEW m \in Memory(mode), Owned(mode, m), NEW c \in Memory(mode), Owned(mode, c),
           NEW b \in Seq(Token), NEW ubs \in Seq(Seq(Token)), Divides(ubs, b), NEW found,
           NEW u \in 1 .. Len(ubs), Places(mode, m, ubs, found, Len(ubs)), Written(mode, m, c, ubs, found, u),
           NEW prompt, \A s \in KvSeqs : Ready(mode, m, s, prompt[s], b), NEW k \in DOMAIN ubs[u]
    PROVE  SeesItsText(c, ubs[u][k], prompt[ubs[u][k].seq])
<1> DEFINE t == ubs[u][k]
           s == t.seq
<1>1. u \in DOMAIN ubs /\ u \in 0 .. Len(ubs) /\ ubs[u] \in Seq(Token) /\ u \in 1 .. u
  OBVIOUS
<1>2. t \in Token /\ s \in KvSeqs /\ t.pos \in Nat
  BY <1>1, TokenParts
<1>3. t.pos \in PosUpTo(ubs, u, s)
  BY <1>1, <1>2 DEF PosUpTo
<1>4. Ready(mode, m, s, prompt[s], b)
  BY <1>2
<1> HIDE DEF t, s
<1>5. Unshifted(mode, c, s) /\ \E l \in Nat : Held(mode, c, s, prompt[s], l) /\ \A q \in PosUpTo(ubs, u, s) : q < l
  BY <1>1, <1>2, <1>4, ReadyHeld
<1>6. PICK l \in Nat : Held(mode, c, s, prompt[s], l) /\ \A q \in PosUpTo(ubs, u, s) : q < l
  BY <1>5
<1>7. t.pos < l
  BY <1>3, <1>6
<1>8. SeesItsText(c, t, prompt[s])
  BY <1>2, <1>5, <1>6, <1>7, SeesText DEF s
<1>9. QED
  BY <1>8 DEF s, t

\* The ubatches of a view are written one after the other, and none of their
\* tokens attends to another text.
LEMMA DecodedIs ==
    ASSUME Plain, NEW t, Placed(t), NEW b \in Seq(Token), Divides(t.ubs, b), blind = FALSE,
           \A s \in KvSeqs : Ready(mode, t.m, s, kvSlot[s].prompt, b), NEW u \in 0 .. Len(t.ubs)
    PROVE  LET d == Decoded(t, u)
           IN /\ d.m \in Memory(mode) /\ Owned(mode, d.m) /\ Written(mode, t.m, d.m, t.ubs, t.found, u)
              /\ d.blind = FALSE
<1> DEFINE N == Len(t.ubs)
           prompt == [s \in KvSeqs |-> kvSlot[s].prompt]
<1>1. /\ N \in Nat /\ u \in 0 .. N /\ t.ubs \in Seq(Seq(Token)) /\ t.m \in Memory(mode) /\ Owned(mode, t.m)
      /\ Places(mode, t.m, t.ubs, t.found, N) /\ DOMAIN t.ubs = 1 .. N
  BY DEF Placed
<1>2. PICK g \in [0 .. u -> Outcome] :
         /\ g[0] = [m |-> t.m, blind |-> blind] /\ Decoded(t, u) = g[u]
         /\ \A i \in 1 .. u : g[i] = Decoding(t, g[i - 1], i)
  BY DecodedRuns
<1>3. \A s \in KvSeqs : Ready(mode, t.m, s, prompt[s], b)
  OBVIOUS
<1> HIDE DEF N, prompt
<1> DEFINE Fine(i) == /\ g[i].m \in Memory(mode) /\ Owned(mode, g[i].m)
                      /\ Written(mode, t.m, g[i].m, t.ubs, t.found, i) /\ g[i].blind = FALSE
           S == {i \in 0 .. u : Fine(i)}
<1>4. 0 \in S
  <2>1. g[0].m = t.m /\ g[0].blind = FALSE
    BY <1>2
  <2>2. \A v : v \notin 1 .. 0
    OBVIOUS
  <2>3. Written(mode, t.m, t.m, t.ubs, t.found, 0)
    BY <2>2 DEF Written, Fills
  <2>4. QED
    BY <1>1, <2>1, <2>3
<1>5. ASSUME NEW i \in S, i + 1 <= u PROVE i + 1 \in S
  <2>1. /\ i \in Nat /\ i + 1 \in 1 .. u /\ i + 1 \in 0 .. u /\ i + 1 - 1 = i /\ i \in 0 .. u /\ i \in 0 .. N - 1
        /\ i + 1 \in 1 .. N
    BY <1>1, <1>5
  <2> DEFINE c == g[i].m
             new == Computed(c, t.ubs[i + 1], t.found[i + 1])
  <2>2. c \in Memory(mode) /\ Owned(mode, c) /\ Written(mode, t.m, c, t.ubs, t.found, i) /\ g[i].blind = FALSE
    BY <1>5
  <2>3. g[i + 1] = Decoding(t, g[i], i + 1)
    BY <1>2, <2>1
  <2> DEFINE missed == \E k \in DOMAIN t.ubs[i + 1] :
                          LET tok == t.ubs[i + 1][k] IN ~SeesItsText(new, tok, kvSlot[tok.seq].prompt)
  <2>4. g[i + 1] = [m |-> new, blind |-> g[i].blind \/ missed]
    BY <2>3 DEF Decoding
  <2>5. /\ g[i + 1].m = new
        /\ g[i + 1].blind = (g[i].blind \/ missed)
    <3> HIDE DEF new, missed
    <3>1. QED
      BY <2>4
  <2> HIDE DEF c
  <2>6. new \in Memory(mode) /\ Owned(mode, new) /\ Written(mode, t.m, new, t.ubs, t.found, i + 1)
    BY <1>1, <2>1, <2>2, WrittenNext DEF N
  <2> HIDE DEF new
  <2>7. ASSUME NEW k \in DOMAIN t.ubs[i + 1]
        PROVE  SeesItsText(new, t.ubs[i + 1][k], kvSlot[t.ubs[i + 1][k].seq].prompt)
    <3>1. SeesItsText(new, t.ubs[i + 1][k], prompt[t.ubs[i + 1][k].seq])
      BY <1>1, <1>3, <2>1, <2>6, UbatchSees DEF N
    <3>2. t.ubs[i + 1] \in Seq(Token)
      BY <1>1, <2>1
    <3>3. t.ubs[i + 1][k].seq \in KvSeqs
      BY <3>2, TokenParts
    <3>4. QED
      BY <3>1, <3>3 DEF prompt
  <2>8. g[i + 1].blind = FALSE
    BY <2>2, <2>5, <2>7
  <2>9. QED
    BY <2>1, <2>5, <2>6, <2>8
<1>6. S \in SUBSET Nat /\ u \in Nat
  BY <1>1
<1> HIDE DEF S
<1>7. \A i \in 0 .. u : i \in S
  BY <1>4, <1>5, <1>6, InductionUpTo
<1>8. u \in S
  BY <1>6, <1>7
<1>9. QED
  BY <1>2, <1>8 DEF S

-----------------------------------------------------------------------------
\* Without copies an update only rotates the rows of the cells that moved.
LEMMA NothingCopied ==
    ASSUME NEW m, m.copies = <<>>
    PROVE  Copied(m) = m
<1> DEFINE ss == m.copies
           op(n, c) == [n EXCEPT !.rows[c.to] = n.rows[c.from]]
           Is(h) == h = [s \in SUBSET DOMAIN ss |->
                            IF s = {} THEN m ELSE op(h[s \ {Max(s)}], ss[Max(s)])]
           h == CHOOSE f : Is(f)
           f == [s \in SUBSET DOMAIN ss |-> m]
<1>1. DOMAIN ss = {}
  OBVIOUS
<1>2. Copied(m) = h[DOMAIN ss]
  BY DEF Copied, FoldLeft, MapThenFoldSet
<1> HIDE DEF op, ss
<1>3. Is(f)
  <2>1. \A s \in SUBSET DOMAIN ss : s = {}
    BY <1>1
  <2>2. \A s \in SUBSET DOMAIN ss : (IF s = {} THEN m ELSE op(f[s \ {Max(s)}], ss[Max(s)])) = m
    BY <2>1
  <2>3. QED
    BY <2>2
<1>4. Is(h)
  <2> HIDE DEF Is, f
  <2>1. QED
    BY <1>3
<1>5. h = [s \in SUBSET DOMAIN ss |-> IF s = {} THEN m ELSE op(h[s \ {Max(s)}], ss[Max(s)])]
  BY <1>4
<1> HIDE DEF h
<1>6. h[DOMAIN ss] = m
  BY <1>1, <1>5
<1>7. QED
  BY <1>2, <1>6

\* An update leaves every prompt where it was, with its keys rotated.
LEMMA UpdatedIs ==
    ASSUME Plain, NEW m \in Memory(mode), Owned(mode, m)
    PROVE  LET new == Updated(m)
           IN /\ new \in Memory(mode) /\ Owned(mode, new)
              /\ \A s \in KvSeqs : Unshifted(mode, new, s)
              /\ \A s \in KvSeqs, n \in Nat : \A prompt :
                    Held(mode, m, s, prompt, n) => Held(mode, new, s, prompt, n)
<1> DEFINE rows == [st \in KvSeqs |-> [i \in KvCells |-> Rotated(m.rows[st][i], m.cells[st][i].shift)]]
           cells == [st \in KvSeqs |-> [i \in KvCells |-> [m.cells[st][i] EXCEPT !.shift = 0]]]
           new == Updated(m)
<1>1. mode \in Modes /\ KvCells = CellsOf(mode)
  BY Facts DEF Plain
<1>2. m.copies = <<>> /\ m.head \in [KvSeqs -> Nat] /\ m = [cells |-> m.cells, rows |-> m.rows, head |-> m.head, copies |-> m.copies]
  BY DEF Memory
<1>3. new = [[[m EXCEPT !.copies = <<>>] EXCEPT !.rows = rows] EXCEPT !.cells = cells]
  BY <1>2, NothingCopied DEF Updated
<1> HIDE DEF rows, cells
<1>4. new = [cells |-> cells, rows |-> rows, head |-> m.head, copies |-> <<>>]
  BY <1>2, <1>3
<1>5. ASSUME NEW st \in KvSeqs, NEW i \in CellsOf(mode)
      PROVE  /\ cells[st][i] \in Cell /\ rows[st][i] \in Row
             /\ cells[st][i].pos = m.cells[st][i].pos /\ cells[st][i].seqs = m.cells[st][i].seqs
             /\ cells[st][i].shift = 0
             /\ rows[st][i].token = m.rows[st][i].token
             /\ rows[st][i].at = m.rows[st][i].at + m.cells[st][i].shift
  <2> DEFINE c == m.cells[st][i]
             r == m.rows[st][i]
  <2>1. c \in Cell /\ r \in Row /\ c.shift \in Int
    BY <1>1, MemoryParts
  <2>2. cells[st][i] = [c EXCEPT !.shift = 0] /\ rows[st][i] = Rotated(r, c.shift)
    BY <1>1 DEF cells, rows
  <2> HIDE DEF c, r
  <2>3. QED
    BY <2>1, <2>2 DEF Cell, Row, Rotated, c, r
<1>6. cells \in [KvSeqs -> [CellsOf(mode) -> Cell]] /\ rows \in [KvSeqs -> [CellsOf(mode) -> Row]]
  <2>1. /\ cells = [st \in KvSeqs |-> [i \in CellsOf(mode) |-> cells[st][i]]]
        /\ rows = [st \in KvSeqs |-> [i \in CellsOf(mode) |-> rows[st][i]]]
    BY <1>1 DEF cells, rows
  <2>2. QED
    BY <1>5, <2>1
<1>7. new \in Memory(mode) /\ new.cells = cells /\ new.rows = rows
  BY <1>2, <1>4, <1>6 DEF Memory
<1> HIDE DEF new
<1>8. ASSUME NEW st \in KvSeqs, NEW i \in CellsOf(mode)
      PROVE  m.cells[st][i] = Free => new.cells[st][i] = Free
  <2>1. ASSUME m.cells[st][i] = Free PROVE new.cells[st][i] = Free
    <3> DEFINE c == cells[st][i]
    <3>1. c \in Cell /\ c.pos = Free.pos /\ c.seqs = Free.seqs /\ c.shift = 0
      BY <1>5, <2>1
    <3> HIDE DEF c
    <3>2. c = Free
      BY <3>1, FreeCell DEF Cell, Free
    <3>3. QED
      BY <1>7, <3>2 DEF c
  <2>2. QED
    BY <2>1
<1>9. Owned(mode, new)
  BY <1>5, <1>7, <1>8 DEF Owned
<1>10. ASSUME NEW s \in KvSeqs
       PROVE  /\ StreamIn(mode, s) \in KvSeqs /\ HeldBy(mode, new, s) = HeldBy(mode, m, s)
              /\ \A i \in HeldBy(mode, m, s) : i \in CellsOf(mode)
  <2>1. StreamIn(mode, s) \in KvSeqs
    BY Facts
  <2>2. \A i \in CellsOf(mode) : new.cells[StreamIn(mode, s)][i].seqs = m.cells[StreamIn(mode, s)][i].seqs
    BY <1>5, <1>7, <2>1
  <2>3. QED
    BY <2>1, <2>2 DEF HeldBy
<1>11. ASSUME NEW s \in KvSeqs PROVE Unshifted(mode, new, s)
  BY <1>5, <1>7, <1>10 DEF Unshifted
<1>12. ASSUME NEW s \in KvSeqs, NEW n \in Nat, NEW prompt, Held(mode, m, s, prompt, n)
       PROVE  Held(mode, new, s, prompt, n)
  <2> DEFINE st == StreamIn(mode, s)
             H == HeldBy(mode, m, s)
  <2>1. ASSUME NEW i \in H
        PROVE  /\ new.cells[st][i].pos = m.cells[st][i].pos /\ new.rows[st][i].token = m.rows[st][i].token
               /\ new.rows[st][i].at + new.cells[st][i].shift = m.rows[st][i].at + m.cells[st][i].shift
    <3>1. i \in CellsOf(mode) /\ st \in KvSeqs
      BY <1>10
    <3>2. m.rows[st][i].at \in Int /\ m.cells[st][i].shift \in Int
      BY <1>1, <3>1, MemoryParts
    <3>3. QED
      BY <1>5, <1>7, <3>1, <3>2
  <2>2. HeldBy(mode, new, s) = H
    BY <1>10
  <2> HIDE DEF H, st
  <2>3. Held(mode, m, s, prompt, n)
    BY <1>12
  <2>4. QED
    BY <2>1, <2>2, <2>3 DEF Held, H, st
<1>13. QED
  BY <1>7, <1>9, <1>11, <1>12 DEF new

-----------------------------------------------------------------------------
\* A view is the first tokens of a batch, and the rest the others.
LEMMA TwoParts ==
    ASSUME NEW b \in Seq(Token), NEW v \in 0 .. Len(b)
    PROVE  LET a == SubSeq(b, 1, v)
               r == SubSeq(b, v + 1, Len(b))
           IN /\ a \in Seq(Token) /\ r \in Seq(Token)
              /\ DOMAIN a = 1 .. v /\ DOMAIN r = 1 .. Len(b) - v
              /\ \A k \in DOMAIN a : k \in DOMAIN b /\ a[k] = b[k]
              /\ \A k \in DOMAIN r : v + k \in DOMAIN b /\ r[k] = b[v + k]
              /\ \A j \in DOMAIN b : j \in DOMAIN a \/ j - v \in DOMAIN r
<1> DEFINE l == Len(b)
           a == SubSeq(b, 1, v)
           r == SubSeq(b, v + 1, l)
<1>1. l \in Nat /\ v \in Nat /\ v <= l /\ DOMAIN b = 1 .. l /\ \A k \in 1 .. l : b[k] \in Token
  OBVIOUS
<1>2. a = [k \in 1 .. v |-> b[k]]
  <2>1. a = [k \in 1 .. (v - 1) + 1 |-> b[1 + k - 1]]
    BY <1>1
  <2>2. QED
    BY <1>1, <2>1
<1>3. r = [k \in 1 .. l - v |-> b[v + k]]
  <2>1. r = [k \in 1 .. (l - (v + 1)) + 1 |-> b[(v + 1) + k - 1]]
    BY <1>1
  <2>2. (l - (v + 1)) + 1 = l - v
    BY <1>1
  <2>3. \A k \in 1 .. l - v : (v + 1) + k - 1 = v + k
    BY <1>1
  <2>4. QED
    BY <2>1, <2>2, <2>3
<1>4. a \in Seq(Token) /\ r \in Seq(Token)
  BY <1>1
<1> HIDE DEF a, r
<1>5. DOMAIN a = 1 .. v /\ DOMAIN r = 1 .. l - v
  BY <1>2, <1>3
<1>6. \A k \in DOMAIN a : k \in DOMAIN b /\ a[k] = b[k]
  BY <1>1, <1>2
<1>7. \A k \in DOMAIN r : v + k \in DOMAIN b /\ r[k] = b[v + k]
  BY <1>1, <1>3
<1>8. \A j \in DOMAIN b : j \in DOMAIN a \/ j - v \in DOMAIN r
  BY <1>1, <1>5
<1>9. QED
  BY <1>4, <1>5, <1>6, <1>7, <1>8 DEF a, r

\* Each part of a batch brings its part of the prompt.
LEMMA ViewSplits ==
    ASSUME NEW b \in Seq(Token), NEW v \in 0 .. Len(b), NEW s, NEW prompt \in Seq(Int),
           NEW n \in 0 .. Len(prompt), Batched(b, s, prompt, n)
    PROVE  LET a == SubSeq(b, 1, v)
               r == SubSeq(b, v + 1, Len(b))
           IN /\ \E c \in n .. Len(prompt) : PosIn(a, s) = n .. c - 1 /\ Batched(r, s, prompt, c)
              /\ \A k \in DOMAIN a : a[k].seq = s => a[k].token = prompt[a[k].pos + 1]
              /\ InBatch(a, s) \/ InBatch(r, s) => InBatch(b, s)
<1> DEFINE a == SubSeq(b, 1, v)
           r == SubSeq(b, v + 1, Len(b))
           L == Len(prompt)
           A == PosIn(a, s)
           B == PosIn(r, s)
<1>1. /\ a \in Seq(Token) /\ r \in Seq(Token)
      /\ DOMAIN a = 1 .. v /\ DOMAIN r = 1 .. Len(b) - v
      /\ \A k \in DOMAIN a : k \in DOMAIN b /\ a[k] = b[k]
      /\ \A k \in DOMAIN r : v + k \in DOMAIN b /\ r[k] = b[v + k]
      /\ \A j \in DOMAIN b : j \in DOMAIN a \/ j - v \in DOMAIN r
  BY TwoParts
<1>2. L \in Nat /\ n \in Nat /\ n <= L /\ v \in Nat /\ Len(b) \in Nat /\ DOMAIN b = 1 .. Len(b)
  OBVIOUS
<1> HIDE DEF a, r, L
<1>3. /\ \A k \in DOMAIN b : b[k].seq = s =>
            n <= b[k].pos /\ b[k].pos < L /\ b[k].token = prompt[b[k].pos + 1]
      /\ \A q \in n .. L - 1 : \E k \in DOMAIN b : b[k].seq = s /\ b[k].pos = q
      /\ \A j, k \in DOMAIN b : j < k /\ b[j].seq = s /\ b[k].seq = s => b[j].pos < b[k].pos
  BY DEF Batched, L
<1>4. \A k \in DOMAIN b : b[k].pos \in Nat
  <2> TAKE k \in DOMAIN b
  <2>1. b[k] \in Token
    OBVIOUS
  <2>2. QED
    BY <2>1 DEF Token
<1>5. ASSUME NEW q PROVE q \in A \union B <=> q \in n .. L - 1
  <2>1. ASSUME q \in A PROVE q \in n .. L - 1
    <3>1. PICK k \in DOMAIN a : a[k].seq = s /\ a[k].pos = q
      BY <2>1 DEF PosIn
    <3>2. QED
      BY <1>1, <1>2, <1>3, <1>4, <3>1
  <2>2. ASSUME q \in B PROVE q \in n .. L - 1
    <3>1. PICK k \in DOMAIN r : r[k].seq = s /\ r[k].pos = q
      BY <2>2 DEF PosIn
    <3>2. v + k \in DOMAIN b /\ b[v + k].seq = s /\ b[v + k].pos = q
      BY <1>1, <3>1
    <3>3. QED
      BY <1>2, <1>3, <1>4, <3>2
  <2>3. ASSUME q \in n .. L - 1 PROVE q \in A \union B
    <3>1. PICK j \in DOMAIN b : b[j].seq = s /\ b[j].pos = q
      BY <1>3, <2>3
    <3>2. CASE j \in DOMAIN a
      <4>1. a[j].seq = s /\ a[j].pos = q /\ q \in Nat
        BY <1>1, <1>4, <3>1, <3>2
      <4>2. QED
        BY <3>2, <4>1 DEF PosIn
    <3>3. CASE j - v \in DOMAIN r
      <4>1. v + (j - v) = j
        BY <1>2
      <4>2. r[j - v].seq = s /\ r[j - v].pos = q /\ q \in Nat
        BY <1>1, <1>4, <3>1, <3>3, <4>1
      <4>3. QED
        BY <3>3, <4>2 DEF PosIn
    <3>4. QED
      BY <1>1, <3>2, <3>3
  <2>4. QED
    BY <2>1, <2>2, <2>3
<1>6. ASSUME NEW p \in A, NEW q \in B PROVE p < q
  <2>1. PICK j \in DOMAIN a : a[j].seq = s /\ a[j].pos = p
    BY DEF PosIn
  <2>2. PICK k \in DOMAIN r : r[k].seq = s /\ r[k].pos = q
    BY DEF PosIn
  <2>3. j \in DOMAIN b /\ v + k \in DOMAIN b /\ j < v + k
    BY <1>1, <1>2, <2>1, <2>2
  <2>4. QED
    BY <1>1, <1>3, <2>1, <2>2, <2>3
<1>7. \E c \in n .. L : A = n .. c - 1 /\ B = c .. L - 1
  <2>1. A \in SUBSET Nat /\ B \in SUBSET Nat
    BY DEF PosIn
  <2> HIDE DEF A, B
  <2>2. A \union B = n .. L - 1
    BY <1>5
  <2>3. Halves(A, B, n, L)
    BY <1>2, <1>6, <2>1, <2>2 DEF Halves
  <2>4. QED
    BY <2>3, CutExists DEF CutAtOf
<1>8. PICK c \in n .. L : A = n .. c - 1 /\ B = c .. L - 1
  BY <1>7
<1>9. Batched(r, s, prompt, c)
  <2>1. ASSUME NEW k \in DOMAIN r, r[k].seq = s
        PROVE  c <= r[k].pos /\ r[k].pos < L /\ r[k].token = prompt[r[k].pos + 1]
    <3>1. v + k \in DOMAIN b /\ r[k] = b[v + k]
      BY <1>1
    <3>2. r[k].pos < L /\ r[k].token = prompt[r[k].pos + 1] /\ r[k].pos \in Nat
      BY <1>3, <1>4, <2>1, <3>1
    <3>3. r[k].pos \in B
      BY <2>1, <3>2 DEF PosIn
    <3>4. QED
      BY <1>8, <3>2, <3>3
  <2>2. ASSUME NEW q \in c .. L - 1 PROVE \E k \in DOMAIN r : r[k].seq = s /\ r[k].pos = q
    BY <1>8 DEF PosIn
  <2>3. ASSUME NEW j \in DOMAIN r, NEW k \in DOMAIN r, j < k, r[j].seq = s, r[k].seq = s
        PROVE  r[j].pos < r[k].pos
    <3>1. v + j \in DOMAIN b /\ v + k \in DOMAIN b /\ v + j < v + k
      BY <1>1, <1>2, <2>3
    <3>2. QED
      BY <1>1, <1>3, <2>3, <3>1
  <2>4. QED
    BY <2>1, <2>2, <2>3 DEF Batched, L
<1>10. \A k \in DOMAIN a : a[k].seq = s => a[k].token = prompt[a[k].pos + 1]
  BY <1>1, <1>3
<1>11. InBatch(a, s) \/ InBatch(r, s) => InBatch(b, s)
  BY <1>1 DEF InBatch
<1>12. QED
  BY <1>8, <1>9, <1>10, <1>11 DEF a, r, L

\* A batch without tokens brings nothing, which is the rest of a prompt that is held.
LEMMA EmptyBatch ==
    /\ \A s : ~InBatch(<<>>, s)
    /\ \A s : \A prompt \in Seq(Int) : Batched(<<>>, s, prompt, Len(prompt))
<1>1. \A s : ~InBatch(<<>>, s)
  BY DEF InBatch
<1>2. ASSUME NEW s, NEW prompt \in Seq(Int) PROVE Batched(<<>>, s, prompt, Len(prompt))
  <2> DEFINE b == <<>>
  <2>1. DOMAIN b = {} /\ Len(prompt) .. Len(prompt) - 1 = {}
    OBVIOUS
  <2> HIDE DEF b
  <2>2. Batched(b, s, prompt, Len(prompt))
    BY <2>1 DEF Batched
  <2>3. QED
    BY <2>2 DEF b
<1>3. QED
  BY <1>1, <1>2

\* What the memory holds of a prompt of which the batch has nothing is all of it.
LEMMA AllHeld ==
    ASSUME NEW x, NEW m, NEW s, NEW prompt \in Seq(Int), NEW b, Whole(x, m, s, prompt, b), ~InBatch(b, s)
    PROVE  Held(x, m, s, prompt, Len(prompt))
<1>1. PICK n \in 0 .. Len(prompt) : Held(x, m, s, prompt, n) /\ Batched(b, s, prompt, n)
  BY DEF Whole
<1>2. n .. Len(prompt) - 1 = {}
  BY <1>1 DEF Batched, InBatch
<1>3. n = Len(prompt)
  <2>1. Len(prompt) \in Nat /\ n \in 0 .. Len(prompt)
    OBVIOUS
  <2>2. n \notin n .. Len(prompt) - 1
    BY <1>2
  <2>3. QED
    BY <2>1, <2>2
<1>4. QED
  BY <1>1, <1>3

-----------------------------------------------------------------------------
\* What the invariant says of the configuration, the memory and the slots.
LEMMA PlainMode ==
    ASSUME FullAttention, mode \in Modes
    PROVE  Plain
BY DEF FullAttention, Plain

\* What a good state is made of.
LEMMA GoodParts ==
    ASSUME NEW x, NEW m, NEW slot, NEW b, NEW n, NEW list, NEW wrong, Good(x, m, slot, b, n, list, wrong)
    PROVE  /\ x \in Modes /\ m \in Memory(x) /\ Owned(x, m)
           /\ slot \in [KvSeqs -> Slot] /\ b \in Seq(Token) /\ n \in Nat \ {0} /\ list \subseteq Entries(x) /\ wrong = FALSE
           /\ \A s \in KvSeqs : /\ slot[s] \in Slot /\ slot[s].prompt \in Seq(Int) /\ slot[s].text \in Seq(Int)
                                /\ slot[s].boss = Unrelated /\ slot[s].state \in {"idle", "start", "done", "gen"}
           /\ \A s \in KvSeqs :
                 /\ Whole(x, m, s, slot[s].prompt, b) /\ Len(slot[s].prompt) <= x.context
                 /\ slot[s].state = "start" => slot[s].text \in Texts
                 /\ slot[s].state \in {"idle", "start"} => ~InBatch(b, s)
                 /\ InBatch(b, s) \/ Unshifted(x, m, s)
<1>1. slot \in [KvSeqs -> Slot]
  BY DEF Good
<1>2. ASSUME NEW s \in KvSeqs
      PROVE  /\ slot[s] \in Slot /\ slot[s].prompt \in Seq(Int) /\ slot[s].text \in Seq(Int)
             /\ slot[s].boss = Unrelated /\ slot[s].state \in {"idle", "start", "done", "gen"}
  BY <1>1 DEF Slot
<1>3. QED
  BY <1>1, <1>2 DEF Good

\* What the invariant says of each variable.
LEMMA InvParts ==
    ASSUME KvInv
    PROVE  /\ mode \in Modes /\ kv \in Memory(mode) /\ Owned(mode, kv) /\ kvSlot \in [KvSeqs -> Slot]
           /\ kvBatch \in Seq(Token) /\ nBatch \in Nat \ {0} /\ kvSaved \in SUBSET Entries(mode) /\ blind = FALSE
           /\ \A s \in KvSeqs : /\ kvSlot[s] \in Slot /\ kvSlot[s].prompt \in Seq(Int) /\ Len(kvSlot[s].prompt) \in Nat
                                /\ kvSlot[s].boss = Unrelated /\ kvSlot[s].state \in {"idle", "start", "done", "gen"}
<1>1. Good(mode, kv, kvSlot, kvBatch, nBatch, kvSaved, blind)
  BY DEF KvInv
<1>2. /\ mode \in Modes /\ kv \in Memory(mode) /\ Owned(mode, kv) /\ kvSlot \in [KvSeqs -> Slot]
      /\ kvBatch \in Seq(Token) /\ nBatch \in Nat \ {0} /\ kvSaved \in SUBSET Entries(mode) /\ blind = FALSE
  BY <1>1 DEF Good
<1>3. \A s \in KvSeqs : /\ kvSlot[s] \in Slot /\ kvSlot[s].prompt \in Seq(Int)
                       /\ kvSlot[s].boss = Unrelated /\ kvSlot[s].state \in {"idle", "start", "done", "gen"}
  BY <1>1, GoodParts
<1>4. \A s \in KvSeqs : Len(kvSlot[s].prompt) \in Nat
  BY <1>3
<1>5. QED
  BY <1>2, <1>3, <1>4

\* The same cells and rows are the same memory to every sequence.
LEMMA SameCells ==
    ASSUME Plain, NEW m \in Memory(mode), Owned(mode, m), NEW new \in Memory(mode), new.cells = m.cells, new.rows = m.rows
    PROVE  Owned(mode, new) /\ \A s \in KvSeqs : SameOf(mode, m, new, s)
<1>1. Owned(mode, new)
  BY DEF Owned
<1>2. \A s \in KvSeqs : SameOf(mode, m, new, s)
  BY DEF SameOf, HeldBy
<1>3. QED
  BY <1>1, <1>2

\* The state in which a batch is decoded, and what the trials leave of it.
Kept(m) ==
    /\ m \in Memory(mode) /\ Owned(mode, m)
    /\ \A s \in KvSeqs : Unshifted(mode, m, s) /\ Whole(mode, m, s, kvSlot[s].prompt, kvBatch)

\* The batch is in order, and so are its view and the rest.
LEMMA BatchParts ==
    ASSUME Plain, KvInv
    PROVE  /\ Ordered(kvBatch) /\ View \in Seq(Token) /\ Ordered(View) /\ Rest \in Seq(Token)
           /\ \E v \in 0 .. Len(kvBatch) : View = SubSeq(kvBatch, 1, v) /\ Rest = SubSeq(kvBatch, v + 1, Len(kvBatch))
<1>1. /\ kvBatch \in Seq(Token) /\ nBatch \in Nat \ {0}
      /\ \A s \in KvSeqs : Whole(mode, kv, s, kvSlot[s].prompt, kvBatch)
  BY GoodParts DEF KvInv
<1>2. Ordered(kvBatch)
  <2>1. ASSUME NEW j \in DOMAIN kvBatch, NEW k \in DOMAIN kvBatch, j < k, kvBatch[j].seq = kvBatch[k].seq
        PROVE  kvBatch[j].pos < kvBatch[k].pos
    <3>1. kvBatch[j].seq \in KvSeqs
      BY <1>1, TokenParts
    <3> DEFINE s == kvBatch[j].seq
    <3>2. PICK n \in 0 .. Len(kvSlot[s].prompt) : Batched(kvBatch, s, kvSlot[s].prompt, n)
      BY <1>1, <3>1 DEF Whole
    <3>3. QED
      BY <2>1, <3>2 DEF Batched
  <2>2. QED
    BY <2>1 DEF Ordered
<1> DEFINE v == Min({nBatch, Len(kvBatch)})
<1>3. v \in 0 .. Len(kvBatch)
  <2>1. {nBatch, Len(kvBatch)} \in SUBSET Nat /\ {nBatch, Len(kvBatch)} # {} /\ Len(kvBatch) \in Nat
    BY <1>1
  <2>2. v \in {nBatch, Len(kvBatch)} /\ v <= Len(kvBatch)
    BY <2>1, SmallestExists
  <2> HIDE DEF v
  <2>3. QED
    BY <2>1, <2>2
<1>4. View = SubSeq(kvBatch, 1, v)
  BY DEF View
<1> HIDE DEF v
<1>5. /\ View \in Seq(Token) /\ DOMAIN View = 1 .. v /\ SubSeq(kvBatch, v + 1, Len(kvBatch)) \in Seq(Token)
      /\ \A k \in DOMAIN View : k \in DOMAIN kvBatch /\ View[k] = kvBatch[k]
  BY <1>1, <1>3, <1>4, TwoParts
<1>6. Len(View) = v
  BY <1>3, <1>5
<1>7. Rest = SubSeq(kvBatch, v + 1, Len(kvBatch))
  BY <1>6 DEF Rest
<1>8. Ordered(View)
  BY <1>2, <1>5 DEF Ordered
<1>9. QED
  BY <1>2, <1>3, <1>4, <1>5, <1>7, <1>8

\* The trials of a view leave the memory as it was, and tell where its tokens go.
LEMMA TrialKeeps ==
    ASSUME Plain, KvInv
    PROVE  LET t == InitBatch(Updated(kv), View)
           IN /\ Kept(t.m) /\ t.ok \in BOOLEAN /\ Divides(t.ubs, View)
              /\ t.ok => Placed(t)
<1> DEFINE m == Updated(kv)
           t == InitBatch(m, View)
<1>1. /\ kv \in Memory(mode) /\ Owned(mode, kv) /\ \A s \in KvSeqs : Whole(mode, kv, s, kvSlot[s].prompt, kvBatch)
  BY GoodParts DEF KvInv
<1>2. \A s \in KvSeqs : kvSlot[s].prompt \in Seq(Int)
  BY GoodParts DEF KvInv
<1>3. /\ m \in Memory(mode) /\ Owned(mode, m) /\ \A s \in KvSeqs : Unshifted(mode, m, s)
      /\ \A s \in KvSeqs, n \in Nat : \A prompt : Held(mode, kv, s, prompt, n) => Held(mode, m, s, prompt, n)
  BY <1>1, UpdatedIs
<1> HIDE DEF m
<1>4. \A s \in KvSeqs : Whole(mode, m, s, kvSlot[s].prompt, kvBatch)
  <2> TAKE s \in KvSeqs
  <2>1. PICK n \in 0 .. Len(kvSlot[s].prompt) : Held(mode, kv, s, kvSlot[s].prompt, n) /\ Batched(kvBatch, s, kvSlot[s].prompt, n)
    BY <1>1 DEF Whole
  <2>2. Held(mode, m, s, kvSlot[s].prompt, n)
    BY <1>3, <2>1
  <2>3. QED
    BY <2>1, <2>2 DEF Whole
<1>5. /\ t.m \in Memory(mode) /\ t.m.cells = m.cells /\ t.m.rows = m.rows /\ t.ok \in BOOLEAN
      /\ t.ubs \in Seq(Seq(Token)) /\ Divides(t.ubs, View)
      /\ t.ok => Places(mode, m, t.ubs, t.found, Len(t.ubs))
  BY <1>3, BatchParts, InitBatchIs
<1> HIDE DEF t
<1>6. Owned(mode, t.m) /\ \A s \in KvSeqs : SameOf(mode, m, t.m, s)
  BY <1>3, <1>5, SameCells
<1>7. \A s \in KvSeqs : Unshifted(mode, t.m, s) /\ Whole(mode, t.m, s, kvSlot[s].prompt, kvBatch)
  BY <1>3, <1>4, <1>6, SameHeld
<1>8. ASSUME t.ok PROVE Placed(t)
  <2> DEFINE ubs == t.ubs
             found == t.found
             new == t.m
  <2>1. Places(mode, m, ubs, found, Len(ubs)) /\ new.cells = m.cells
    BY <1>5, <1>8
  <2> HIDE DEF ubs, found, new
  <2>2. Places(mode, new, ubs, found, Len(ubs))
    BY <2>1 DEF Places
  <2>3. Places(mode, t.m, t.ubs, t.found, Len(t.ubs))
    BY <2>2 DEF ubs, found, new
  <2>4. QED
    BY <1>5, <1>6, <2>3 DEF Placed
<1>9. QED
  BY <1>5, <1>6, <1>7, <1>8 DEF Kept, t, m

\* The view brings the next tokens of the prompts.
LEMMA ViewReady ==
    ASSUME Plain, KvInv, NEW m, Kept(m), NEW s \in KvSeqs
    PROVE  Ready(mode, m, s, kvSlot[s].prompt, View)
<1> DEFINE prompt == kvSlot[s].prompt
<1>1. kvBatch \in Seq(Token) /\ prompt \in Seq(Int)
  BY GoodParts DEF KvInv
<1>2. PICK v \in 0 .. Len(kvBatch) : View = SubSeq(kvBatch, 1, v) /\ Rest = SubSeq(kvBatch, v + 1, Len(kvBatch))
  BY BatchParts
<1>3. Whole(mode, m, s, prompt, kvBatch) /\ Unshifted(mode, m, s)
  BY DEF Kept
<1> HIDE DEF prompt
<1>4. PICK n \in 0 .. Len(prompt) : Held(mode, m, s, prompt, n) /\ Batched(kvBatch, s, prompt, n)
  BY <1>3 DEF Whole
<1>5. /\ \E c \in n .. Len(prompt) : PosIn(View, s) = n .. c - 1 /\ Batched(Rest, s, prompt, c)
      /\ \A k \in DOMAIN View : View[k].seq = s => View[k].token = prompt[View[k].pos + 1]
  BY <1>1, <1>2, <1>4, ViewSplits
<1>6. PICK c \in n .. Len(prompt) : PosIn(View, s) = n .. c - 1
  BY <1>5
<1>7. n \in Nat /\ c \in Nat /\ n <= c
  BY <1>1, <1>4, <1>6
<1>8. QED
  BY <1>3, <1>4, <1>5, <1>6, <1>7 DEF Ready, prompt

\* What the first u ubatches of a view leave.
LEMMA DecodedKeeps ==
    ASSUME Plain, KvInv, NEW t, Placed(t), Kept(t.m), Divides(t.ubs, View), NEW u \in 0 .. Len(t.ubs)
    PROVE  LET d == Decoded(t, u)
           IN /\ d.m \in Memory(mode) /\ Owned(mode, d.m) /\ d.blind = FALSE
              /\ \A s \in KvSeqs : /\ Unshifted(mode, d.m, s)
                                   /\ \E l \in Nat : Held(mode, d.m, s, kvSlot[s].prompt, l)
                                   /\ ~InBatch(kvBatch, s) => Held(mode, d.m, s, kvSlot[s].prompt, Len(kvSlot[s].prompt))
                                   /\ u = Len(t.ubs) => Whole(mode, d.m, s, kvSlot[s].prompt, Rest)
<1> DEFINE d == Decoded(t, u)
           m == t.m
           c == d.m
<1>1. View \in Seq(Token) /\ blind = FALSE /\ \A s \in KvSeqs : Ready(mode, m, s, kvSlot[s].prompt, View)
  <2>1. View \in Seq(Token)
    BY BatchParts
  <2>2. blind = FALSE
    BY DEF KvInv, Good
  <2>3. \A s \in KvSeqs : Ready(mode, m, s, kvSlot[s].prompt, View)
    BY ViewReady
  <2>4. QED
    BY <2>1, <2>2, <2>3
<1>2. /\ m \in Memory(mode) /\ Owned(mode, m) /\ t.ubs \in Seq(Seq(Token)) /\ Len(t.ubs) \in Nat
      /\ Places(mode, m, t.ubs, t.found, Len(t.ubs))
  BY DEF Placed
<1>3. c \in Memory(mode) /\ Owned(mode, c) /\ Written(mode, m, c, t.ubs, t.found, u) /\ d.blind = FALSE
  BY <1>1, DecodedIs
<1> HIDE DEF d, c, m
<1>4. ASSUME NEW s \in KvSeqs
      PROVE  /\ Unshifted(mode, c, s) /\ \E l \in Nat : Held(mode, c, s, kvSlot[s].prompt, l)
             /\ ~InBatch(kvBatch, s) => Held(mode, c, s, kvSlot[s].prompt, Len(kvSlot[s].prompt))
             /\ u = Len(t.ubs) => Whole(mode, c, s, kvSlot[s].prompt, Rest)
  <2> DEFINE prompt == kvSlot[s].prompt
  <2>1. Ready(mode, m, s, prompt, View)
    BY <1>1
  <2>2. kvBatch \in Seq(Token) /\ prompt \in Seq(Int) /\ Whole(mode, m, s, prompt, kvBatch)
    BY GoodParts DEF KvInv, Kept, m
  <2>3. PICK v \in 0 .. Len(kvBatch) : View = SubSeq(kvBatch, 1, v) /\ Rest = SubSeq(kvBatch, v + 1, Len(kvBatch))
    BY BatchParts
  <2> HIDE DEF prompt
  <2>4. Unshifted(mode, c, s) /\ \E l \in Nat : Held(mode, c, s, prompt, l)
    BY <1>1, <1>2, <1>3, <2>1, ReadyHeld
  <2>5. PICK n \in 0 .. Len(prompt) : Held(mode, m, s, prompt, n) /\ Batched(kvBatch, s, prompt, n)
    BY <2>2 DEF Whole
  <2>6. /\ \E e \in n .. Len(prompt) : PosIn(View, s) = n .. e - 1 /\ Batched(Rest, s, prompt, e)
        /\ \A k \in DOMAIN View : View[k].seq = s => View[k].token = prompt[View[k].pos + 1]
        /\ InBatch(View, s) => InBatch(kvBatch, s)
    BY <2>2, <2>3, <2>5, ViewSplits
  <2>7. PICK e \in n .. Len(prompt) : PosIn(View, s) = n .. e - 1 /\ Batched(Rest, s, prompt, e)
    BY <2>6
  <2>8. n \in Nat /\ e \in Nat /\ n <= e /\ e \in 0 .. Len(prompt) /\ Len(prompt) \in Nat
    BY <2>2, <2>5, <2>7
  <2>9. /\ \E l \in n .. e : PosUpTo(t.ubs, u, s) = n .. l - 1
        /\ PosUpTo(t.ubs, Len(t.ubs), s) = n .. e - 1
    <3>1. View \in Seq(Token) /\ PosIn(View, s) = n .. e - 1 /\ n \in Nat /\ e \in Nat /\ n <= e
      BY <1>1, <2>7, <2>8
    <3> DEFINE ubs == t.ubs
               w == View
    <3>2. w \in Seq(Token) /\ PosIn(w, s) = Span(n, e) /\ Divides(ubs, w) /\ u \in 0 .. Len(ubs)
      BY <3>1 DEF Span
    <3> HIDE DEF ubs, w
    <3>3. /\ \E l \in n .. e : PosUpTo(ubs, u, s) = Span(n, l)
          /\ PosUpTo(ubs, Len(ubs), s) = Span(n, e)
      BY <3>1, <3>2, ReachedSpan
    <3>4. QED
      BY <3>3 DEF ubs, Span
  <2>10. PICK l \in n .. e : PosUpTo(t.ubs, u, s) = n .. l - 1
    BY <2>9
  <2>11. l \in Nat /\ n <= l
    BY <2>8, <2>10
  <2>12. Held(mode, c, s, prompt, l)
    BY <1>1, <1>2, <1>3, <2>5, <2>6, <2>8, <2>10, <2>11, WrittenHeld
  <2>13. ASSUME ~InBatch(kvBatch, s) PROVE Held(mode, c, s, prompt, Len(prompt))
    <3>1. Held(mode, m, s, prompt, Len(prompt))
      BY <2>2, <2>13, AllHeld
    <3>2. PosUpTo(t.ubs, u, s) = {}
      <4>1. \A k \in DOMAIN View : View[k].seq # s
        BY <2>6, <2>13 DEF InBatch
      <4>2. PosIn(View, s) = {}
        BY <4>1 DEF PosIn
      <4>3. e = n /\ l = n
        <5>1. n \notin n .. e - 1
          BY <2>7, <4>2
        <5>2. QED
          BY <2>8, <2>10, <5>1
      <4>4. QED
        BY <2>8, <2>10, <4>3
    <3> DEFINE L == Len(prompt)
    <3>3. L \in Nat /\ L <= L /\ PosUpTo(t.ubs, u, s) = L .. L - 1 /\ Held(mode, m, s, prompt, L)
      BY <2>8, <3>1, <3>2
    <3> HIDE DEF L
    <3>4. Held(mode, c, s, prompt, L)
      BY <1>1, <1>2, <1>3, <2>6, <3>3, WrittenHeld
    <3>5. QED
      BY <3>4 DEF L
  <2>14. ASSUME u = Len(t.ubs) PROVE Whole(mode, c, s, prompt, Rest)
    <3>1. PosUpTo(t.ubs, u, s) = n .. e - 1
      BY <2>9, <2>14
    <3>2. Held(mode, c, s, prompt, e)
      BY <1>1, <1>2, <1>3, <2>5, <2>6, <2>8, <3>1, WrittenHeld
    <3>3. QED
      BY <2>7, <2>8, <3>2 DEF Whole
  <2>15. QED
    BY <2>4, <2>13, <2>14 DEF prompt
<1>5. QED
  BY <1>3, <1>4 DEF d, c

-----------------------------------------------------------------------------
\* A sequence that holds none of its prompt holds nothing.
LEMMA NothingHeld ==
    ASSUME NEW x, NEW m, NEW s, NEW prompt, Held(x, m, s, prompt, 0)
    PROVE  HeldBy(x, m, s) = {} /\ Unshifted(x, m, s) /\ \A other : Held(x, m, s, other, 0)
<1>1. HeldBy(x, m, s) = {}
  BY DEF Held
<1>2. \A other : Held(x, m, s, other, 0)
  BY <1>1 DEF Held
<1>3. QED
  BY <1>1, <1>2 DEF Unshifted

\* Cleared sequences hold nothing, the others what they held.
LEMMA ClearedIs ==
    ASSUME Plain, NEW m \in Memory(mode), Owned(mode, m), NEW gone
    PROVE  LET new == ClearedSeqs(m, gone)
           IN /\ new \in Memory(mode) /\ Owned(mode, new)
              /\ \A s \in KvSeqs : Unshifted(mode, m, s) => Unshifted(mode, new, s)
              /\ \A s \in KvSeqs, n \in Nat : \A prompt : Held(mode, m, s, prompt, n) =>
                    /\ s \in gone => \A other : Held(mode, new, s, other, 0)
                    /\ s \notin gone /\ n <= mode.context => SameOf(mode, m, new, s)
<1> DEFINE from == [s \in KvSeqs |-> IF s \in gone THEN 0 ELSE All]
           new == ClearedSeqs(m, gone)
<1>1. from \in [KvSeqs -> Nat] /\ All = mode.context + 1 /\ mode.context \in Nat
  <2>1. All = mode.context + 1 /\ mode.context \in Nat
    BY Facts
  <2>2. All \in Nat
    BY <2>1
  <2>3. QED
    BY <2>1, <2>2
<1>2. new = SeqRmFrom(m, from)
  BY DEF ClearedSeqs
<1>3. \A s \in KvSeqs : from[s] = IF s \in gone THEN 0 ELSE All
  OBVIOUS
<1> HIDE DEF from
<1>4. /\ new \in Memory(mode) /\ Owned(mode, new)
      /\ \A s \in KvSeqs : Unshifted(mode, m, s) => Unshifted(mode, new, s)
      /\ \A s \in KvSeqs, n \in Nat : \A prompt : Held(mode, m, s, prompt, n) =>
            /\ Held(mode, new, s, prompt, IF from[s] < n THEN from[s] ELSE n)
            /\ from[s] >= n => SameOf(mode, m, new, s)
  BY <1>1, <1>2, SeqRmFromSpares
<1> HIDE DEF new
<1>5. ASSUME NEW s \in KvSeqs, NEW n \in Nat, NEW prompt, Held(mode, m, s, prompt, n)
      PROVE  /\ s \in gone => \A other : Held(mode, new, s, other, 0)
             /\ s \notin gone /\ n <= mode.context => SameOf(mode, m, new, s)
  <2>1. CASE s \in gone
    <3>1. from[s] = 0
      BY <1>3, <2>1
    <3>2. (IF from[s] < n THEN from[s] ELSE n) = 0
      BY <3>1
    <3>3. Held(mode, new, s, prompt, 0)
      BY <1>4, <1>5, <3>2
    <3>4. QED
      BY <2>1, <3>3, NothingHeld
  <2>2. CASE s \notin gone
    <3>1. from[s] = mode.context + 1
      BY <1>1, <1>3, <2>2
    <3>2. n <= mode.context => from[s] >= n
      BY <1>1, <3>1
    <3>3. QED
      BY <1>4, <1>5, <2>2, <3>2
  <2>3. QED
    BY <2>1, <2>2
<1>6. QED
  BY <1>4, <1>5 DEF new

\* The slots that a step makes of others.
LEMMA SlotKinds ==
    /\ IdleSlot \in Slot /\ IdleSlot.prompt = <<>> /\ IdleSlot.state = "idle" /\ Len(IdleSlot.prompt) = 0
    /\ \A prompt \in Seq(Int) : LET sl == [IdleSlot EXCEPT !.prompt = prompt]
                                IN sl \in Slot /\ sl.state = "idle" /\ sl.prompt = prompt
    /\ \A sl \in Slot : LET new == [sl EXCEPT !.state = "gen"]
                        IN new \in Slot /\ new.state = "gen" /\ new.prompt = sl.prompt
<1>1. <<>> \in Seq(Int) /\ Len(<<>>) = 0
  OBVIOUS
<1>2. IdleSlot \in Slot /\ IdleSlot.prompt = <<>> /\ IdleSlot.state = "idle" /\ Len(IdleSlot.prompt) = 0
  BY <1>1 DEF IdleSlot, Slot
<1>3. ASSUME NEW sl \in Slot, NEW prompt \in Seq(Int)
      PROVE  LET new == [sl EXCEPT !.prompt = prompt]
             IN new \in Slot /\ new.state = sl.state /\ new.prompt = prompt
  BY DEF Slot
<1>4. ASSUME NEW sl \in Slot
      PROVE  LET new == [sl EXCEPT !.state = "gen"]
             IN new \in Slot /\ new.state = "gen" /\ new.prompt = sl.prompt
  BY DEF Slot
<1>5. QED
  BY <1>2, <1>3, <1>4

\* The slots' side of the invariant, one at a time.
SlotGood(x, m, sl, s, b) ==
    /\ Whole(x, m, s, sl.prompt, b) /\ Len(sl.prompt) <= x.context
    /\ sl.state = "start" => sl.text \in Texts
    /\ sl.state \in {"idle", "start"} => ~InBatch(b, s)
    /\ InBatch(b, s) \/ Unshifted(x, m, s)

\* A state is good when its slots are.
LEMMA GoodOf ==
    ASSUME NEW x \in Modes, NEW m \in Memory(x), Owned(x, m), NEW slot \in [KvSeqs -> Slot],
           NEW b \in Seq(Token), NEW n \in Nat \ {0}, NEW list \in SUBSET Entries(x), NEW wrong, wrong = FALSE,
           \A s \in KvSeqs : SlotGood(x, m, slot[s], s, b)
    PROVE  Good(x, m, slot, b, n, list, wrong)
BY DEF Good, SlotGood

\* The invariant, for one slot.
LEMMA SlotsGood ==
    ASSUME KvInv
    PROVE  \A s \in KvSeqs : SlotGood(mode, kv, kvSlot[s], s, kvBatch)
BY DEF KvInv, Good, SlotGood

\* A slot without tokens of a batch that holds its prompt is good for any
\* batch that brings none.
LEMMA RestGood ==
    ASSUME NEW x, NEW m, NEW sl \in Slot, NEW s, Held(x, m, s, sl.prompt, Len(sl.prompt)), Unshifted(x, m, s),
           Len(sl.prompt) <= x.context, sl.state = "start" => sl.text \in Texts
    PROVE  SlotGood(x, m, sl, s, <<>>)
<1>1. sl.prompt \in Seq(Int)
  BY DEF Slot
<1>2. Len(sl.prompt) \in 0 .. Len(sl.prompt)
  BY <1>1
<1>3. Whole(x, m, s, sl.prompt, <<>>)
  BY <1>1, <1>2, EmptyBatch DEF Whole
<1>4. QED
  BY <1>3, EmptyBatch DEF SlotGood

\* An empty slot whose sequence holds nothing is good.
LEMMA IdleGood ==
    ASSUME NEW x \in Modes, x.context \in Nat, NEW m, NEW s, \A other : Held(x, m, s, other, 0), NEW b, ~InBatch(b, s)
    PROVE  SlotGood(x, m, IdleSlot, s, b)
<1>1. Unshifted(x, m, s)
  BY NothingHeld
<1>2. IdleSlot.prompt = <<>> /\ IdleSlot.state = "idle" /\ Len(<<>>) = 0 /\ 0 .. 0 - 1 = {} /\ 0 \in 0 .. 0
  BY SlotKinds
<1>3. Batched(b, s, <<>>, 0)
  BY <1>2 DEF Batched, InBatch
<1>4. Whole(x, m, s, IdleSlot.prompt, b)
  BY <1>2, <1>3 DEF Whole
<1>5. QED
  BY <1>1, <1>2, <1>4 DEF SlotGood

\* After an error the slots that had a task are empty, and the others as before.
LEMMA FailedGood ==
    ASSUME Plain, KvInv, NEW m \in Memory(mode), Owned(mode, m),
           \A s \in KvSeqs : Unshifted(mode, m, s) \/ s \notin IdleOnes,
           \A s \in KvSeqs : \E l \in Nat : Held(mode, m, s, kvSlot[s].prompt, l),
           \A s \in IdleOnes : Held(mode, m, s, kvSlot[s].prompt, Len(kvSlot[s].prompt)),
           Failed(m), blind' = blind
    PROVE  KvInv'
<1> DEFINE gone == KvSeqs \ IdleOnes
           new == ClearedSeqs(m, gone)
           slot == [s \in KvSeqs |-> IF s \in IdleOnes THEN kvSlot[s] ELSE IdleSlot]
<1>1. kv' = new /\ kvSlot' = slot /\ kvBatch' = <<>> /\ nBatch' = FullBatch /\ mode' = mode /\ kvSaved' = kvSaved
  BY DEF Failed
<1>2. /\ new \in Memory(mode) /\ Owned(mode, new)
      /\ \A s \in KvSeqs : Unshifted(mode, m, s) => Unshifted(mode, new, s)
      /\ \A s \in KvSeqs, n \in Nat : \A prompt : Held(mode, m, s, prompt, n) =>
            /\ s \in gone => \A other : Held(mode, new, s, other, 0)
            /\ s \notin gone /\ n <= mode.context => SameOf(mode, m, new, s)
  BY ClearedIs
<1> HIDE DEF new
<1>3. /\ mode \in Modes /\ kvSaved \in SUBSET Entries(mode) /\ blind = FALSE /\ kvSlot \in [KvSeqs -> Slot]
      /\ \A s \in KvSeqs : kvSlot[s] \in Slot /\ Len(kvSlot[s].prompt) <= mode.context /\ Len(kvSlot[s].prompt) \in Nat
      /\ \A s \in KvSeqs : kvSlot[s].state = "start" => kvSlot[s].text \in Texts
  <2>1. \A s \in KvSeqs : SlotGood(mode, kv, kvSlot[s], s, kvBatch)
    BY SlotsGood
  <2>2. QED
    BY <2>1, InvParts DEF SlotGood
<1>4. slot \in [KvSeqs -> Slot]
  BY <1>3, SlotKinds
<1>5. ASSUME NEW s \in KvSeqs PROVE SlotGood(mode, new, slot[s], s, <<>>)
  <2>1. CASE s \in IdleOnes
    <3>1. slot[s] = kvSlot[s] /\ s \notin gone
      BY <2>1
    <3>2. Held(mode, m, s, kvSlot[s].prompt, Len(kvSlot[s].prompt)) /\ Unshifted(mode, m, s)
      BY <2>1
    <3>3. SameOf(mode, m, new, s)
      BY <1>2, <1>3, <3>1, <3>2
    <3>4. Held(mode, new, s, kvSlot[s].prompt, Len(kvSlot[s].prompt)) /\ Unshifted(mode, new, s)
      BY <3>2, <3>3, SameHeld
    <3> HIDE DEF slot
    <3>5. QED
      BY <1>3, <3>1, <3>4, RestGood
  <2>2. CASE s \notin IdleOnes
    <3>1. slot[s] = IdleSlot /\ s \in gone
      BY <2>2
    <3>2. \A other : Held(mode, new, s, other, 0)
      BY <1>2, <3>1
    <3> HIDE DEF slot
    <3>3. QED
      BY <1>3, <3>1, <3>2, EmptyBatch, IdleGood, Facts
  <2>3. QED
    BY <2>1, <2>2
<1> HIDE DEF slot
<1>6. <<>> \in Seq(Token) /\ FullBatch \in Nat \ {0}
  BY Facts
<1>7. Good(mode, new, slot, <<>>, FullBatch, kvSaved, FALSE)
  BY <1>2, <1>3, <1>4, <1>5, <1>6, GoodOf
<1>8. QED
  BY <1>1, <1>3, <1>7 DEF KvInv

-----------------------------------------------------------------------------
\* The decoding of a view, action by action.
LEMMA IdleHeld ==
    ASSUME Plain, KvInv, NEW m, \A s \in KvSeqs : Whole(mode, m, s, kvSlot[s].prompt, kvBatch)
    PROVE  /\ \A s \in IdleOnes : /\ s \in KvSeqs /\ ~InBatch(kvBatch, s)
                                  /\ Held(mode, m, s, kvSlot[s].prompt, Len(kvSlot[s].prompt))
           /\ \A s \in KvSeqs : \E l \in Nat : Held(mode, m, s, kvSlot[s].prompt, l)
<1>1. ASSUME NEW s \in IdleOnes
      PROVE  /\ s \in KvSeqs /\ ~InBatch(kvBatch, s)
             /\ Held(mode, m, s, kvSlot[s].prompt, Len(kvSlot[s].prompt))
  <2>1. s \in KvSeqs /\ kvSlot[s].state = "idle"
    BY DEF IdleOnes, Busy
  <2>2. ~InBatch(kvBatch, s)
    BY <2>1, SlotsGood DEF SlotGood
  <2>3. kvSlot[s].prompt \in Seq(Int)
    BY <2>1, InvParts
  <2>4. QED
    BY <2>1, <2>2, <2>3, AllHeld
<1>2. ASSUME NEW s \in KvSeqs PROVE \E l \in Nat : Held(mode, m, s, kvSlot[s].prompt, l)
  <2>1. Len(kvSlot[s].prompt) \in Nat
    BY InvParts
  <2>2. QED
    BY <2>1 DEF Whole
<1>3. QED
  BY <1>1, <1>2

\* A batch that is refused.
LEMMA RefusedGood ==
    ASSUME Plain, KvInv, Refused
    PROVE  KvInv'
<1>1. /\ kv \in Memory(mode) /\ Owned(mode, kv)
      /\ \A s \in KvSeqs : Whole(mode, kv, s, kvSlot[s].prompt, kvBatch) /\ (InBatch(kvBatch, s) \/ Unshifted(mode, kv, s))
  BY InvParts, SlotsGood DEF SlotGood
<1>2. \A s \in IdleOnes : ~InBatch(kvBatch, s) /\ Held(mode, kv, s, kvSlot[s].prompt, Len(kvSlot[s].prompt))
  BY <1>1, IdleHeld
<1>3. \A s \in KvSeqs : \E l \in Nat : Held(mode, kv, s, kvSlot[s].prompt, l)
  BY <1>1, IdleHeld
<1>4. \A s \in KvSeqs : Unshifted(mode, kv, s) \/ s \notin IdleOnes
  BY <1>1, <1>2
<1>5. Failed(kv) /\ blind' = blind
  BY DEF Refused
<1>6. QED
  BY <1>1, <1>2, <1>3, <1>4, <1>5, FailedGood

\* A memory that holds what it did leaves the slots as good as they were.
LEMMA KeptGood ==
    ASSUME Plain, KvInv, NEW m, Kept(m), NEW s \in KvSeqs
    PROVE  SlotGood(mode, m, kvSlot[s], s, kvBatch)
BY SlotsGood DEF SlotGood, Kept

\* A view without room: a purge, a halved view, or an error.
LEMMA NoRoomGood ==
    ASSUME Plain, KvInv, NEW t, Kept(t.m), NoRoom(t)
    PROVE  KvInv'
<1> DEFINE m == t.m
           purged == {s \in IdleOnes : kvSlot[s].prompt # <<>>}
           p == Min(purged)
<1>1. /\ m \in Memory(mode) /\ Owned(mode, m)
      /\ \A s \in KvSeqs : Unshifted(mode, m, s) /\ Whole(mode, m, s, kvSlot[s].prompt, kvBatch)
  BY DEF Kept
<1>2. \A s \in IdleOnes : /\ s \in KvSeqs /\ ~InBatch(kvBatch, s)
                          /\ Held(mode, m, s, kvSlot[s].prompt, Len(kvSlot[s].prompt))
  BY <1>1, IdleHeld
<1>3. \A s \in KvSeqs : \E l \in Nat : Held(mode, m, s, kvSlot[s].prompt, l)
  BY <1>1, IdleHeld
<1>4. \A s \in KvSeqs : SlotGood(mode, m, kvSlot[s], s, kvBatch)
  BY KeptGood
<1>5. mode \in Modes /\ mode.context \in Nat /\ KvSeqs \subseteq Nat
  BY Facts DEF Plain
<1>6. blind' = blind /\ (nBatch = 1 => Failed(m))
      /\ (nBatch # 1 /\ mode.unified /\ purged # {} =>
            /\ kv' = SeqRmRange(m, p, 0, All) /\ kvSlot' = [kvSlot EXCEPT ![p] = IdleSlot]
            /\ UNCHANGED <<mode, kvSaved, launched, kvBatch, nBatch>>)
      /\ (nBatch # 1 /\ ~(mode.unified /\ purged # {}) =>
            kv' = m /\ nBatch' = nBatch \div 2 /\ UNCHANGED <<mode, kvSaved, launched, kvBatch, kvSlot>>)
  BY DEF NoRoom
<1> HIDE DEF m
<1>7. CASE nBatch = 1
  BY <1>1, <1>2, <1>3, <1>6, <1>7, FailedGood
<1>8. CASE nBatch # 1 /\ mode.unified /\ purged # {}
  <2> DEFINE new == SeqRmRange(m, p, 0, All)
             slot == [kvSlot EXCEPT ![p] = IdleSlot]
  <2>1. p \in KvSeqs /\ p \in IdleOnes
    <3>1. purged \in SUBSET Nat
      BY <1>2, <1>5
    <3>2. p \in purged
      BY <1>8, <3>1, SmallestExists
    <3> HIDE DEF p
    <3>3. QED
      BY <1>2, <3>2
  <2> HIDE DEF p
  <2>2. Held(mode, m, p, kvSlot[p].prompt, Len(kvSlot[p].prompt)) /\ Len(kvSlot[p].prompt) \in Nat
        /\ Len(kvSlot[p].prompt) <= mode.context /\ ~InBatch(kvBatch, p)
    BY <1>2, <1>4, <2>1, InvParts DEF SlotGood
  <2>3. /\ new \in Memory(mode) /\ Owned(mode, new)
        /\ Held(mode, new, p, kvSlot[p].prompt, IF 0 < Len(kvSlot[p].prompt) THEN 0 ELSE Len(kvSlot[p].prompt))
        /\ \A s \in KvSeqs : s # p => SameOf(mode, m, new, s)
    BY <1>1, <2>1, <2>2, SeqRmSpares
  <2> HIDE DEF new
  <2>4. Held(mode, new, p, kvSlot[p].prompt, 0)
    <3>1. (IF 0 < Len(kvSlot[p].prompt) THEN 0 ELSE Len(kvSlot[p].prompt)) = 0
      BY <2>2
    <3>2. QED
      BY <2>3, <3>1
  <2>5. kvSlot \in [KvSeqs -> Slot] /\ slot \in [KvSeqs -> Slot] /\ slot[p] = IdleSlot
        /\ \A s \in KvSeqs : s # p => slot[s] = kvSlot[s]
    BY <2>1, InvParts, SlotKinds
  <2> HIDE DEF slot
  <2>6. ASSUME NEW s \in KvSeqs PROVE SlotGood(mode, new, slot[s], s, kvBatch)
    <3>1. CASE s = p
      BY <1>5, <2>2, <2>4, <2>5, <3>1, NothingHeld, IdleGood
    <3>2. CASE s # p
      <4>1. slot[s] = kvSlot[s] /\ SameOf(mode, m, new, s)
        BY <2>3, <2>5, <3>2
      <4>2. QED
        BY <1>4, <4>1, SameHeld DEF SlotGood
    <3>3. QED
      BY <3>1, <3>2
  <2>7. Good(mode, new, slot, kvBatch, nBatch, kvSaved, blind)
    BY <1>5, <2>3, <2>5, <2>6, InvParts, GoodOf
  <2>8. QED
    BY <1>6, <1>8, <2>7 DEF KvInv, new, slot
<1>9. CASE nBatch # 1 /\ ~(mode.unified /\ purged # {})
  <2>1. nBatch \div 2 \in Nat \ {0}
    BY <1>9, InvParts
  <2>2. Good(mode, m, kvSlot, kvBatch, nBatch \div 2, kvSaved, blind)
    BY <1>1, <1>4, <2>1, InvParts, GoodOf
  <2> HIDE DEF purged
  <2>3. QED
    BY <1>6, <1>9, <2>2 DEF KvInv
<1>10. QED
  BY <1>7, <1>8, <1>9

-----------------------------------------------------------------------------
\* What is not in the batch is in neither part of it.
LEMMA NotInView ==
    ASSUME Plain, KvInv, NEW s, ~InBatch(kvBatch, s)
    PROVE  ~InBatch(View, s) /\ ~InBatch(Rest, s)
<1>1. PICK v \in 0 .. Len(kvBatch) : View = SubSeq(kvBatch, 1, v) /\ Rest = SubSeq(kvBatch, v + 1, Len(kvBatch))
  BY BatchParts
<1>2. kvBatch \in Seq(Token)
  BY InvParts
<1>3. /\ \A k \in DOMAIN View : k \in DOMAIN kvBatch /\ View[k] = kvBatch[k]
      /\ \A k \in DOMAIN Rest : v + k \in DOMAIN kvBatch /\ Rest[k] = kvBatch[v + k]
  BY <1>1, <1>2, TwoParts
<1>4. QED
  BY <1>3 DEF InBatch

\* A ubatch that cannot be computed: its positions go, and all tasks end.
LEMMA DecodeFailsGood ==
    ASSUME Plain, KvInv, NEW t, Kept(t.m), Divides(t.ubs, View), t.ok => Placed(t), DecodeFails(t)
    PROVE  KvInv'
<1>1. Placed(t) /\ blind' = blind
  BY DEF DecodeFails
<1> DEFINE from(n) == [s \in KvSeqs |-> IF Of(t.ubs[n], s) = <<>> THEN All ELSE Of(t.ubs[n], s)[1].pos]
<1>2. PICK n \in DOMAIN t.ubs : Failed(SeqRmFrom(Decoded(t, n).m, from(n)))
  BY DEF DecodeFails
<1>3. t.ubs \in Seq(Seq(Token)) /\ n \in 0 .. Len(t.ubs) /\ t.ubs[n] \in Seq(Token)
  <2>1. t.ubs \in Seq(Seq(Token))
    BY <1>1 DEF Placed
  <2>2. QED
    BY <1>2, <2>1
<1> DEFINE c == Decoded(t, n).m
           ub == t.ubs[n]
           f == from(n)
           m == SeqRmFrom(c, f)
<1>4. /\ c \in Memory(mode) /\ Owned(mode, c)
      /\ \A s \in KvSeqs : /\ Unshifted(mode, c, s)
                           /\ \E l \in Nat : Held(mode, c, s, kvSlot[s].prompt, l)
                           /\ ~InBatch(kvBatch, s) => Held(mode, c, s, kvSlot[s].prompt, Len(kvSlot[s].prompt))
  BY <1>1, <1>3, DecodedKeeps
<1>5. mode.context \in Nat /\ All = mode.context + 1
  BY Facts
<1> HIDE DEF c
<1>6. f \in [KvSeqs -> Nat]
  <2>1. ASSUME NEW s \in KvSeqs, Of(ub, s) # <<>> PROVE Of(ub, s)[1].pos \in Nat
    <3>1. Of(ub, s) \in Seq(Token)
      BY <1>3, OfIs
    <3>2. 1 \in DOMAIN Of(ub, s)
      BY <2>1, <3>1
    <3>3. QED
      BY <3>1, <3>2, TokenParts
  <2>2. All \in Nat
    BY <1>5
  <2>3. QED
    BY <2>1, <2>2
<1>7. ASSUME NEW s \in KvSeqs, ~InBatch(kvBatch, s) PROVE f[s] = All
  <2>1. ~InBatch(View, s)
    BY <1>7, NotInView
  <2>2. ~InBatch(ub, s)
    <3>1. \A k \in DOMAIN ub : \E j \in DOMAIN View : ub[k] = View[j]
      BY <1>2 DEF Divides
    <3>2. QED
      BY <2>1, <3>1 DEF InBatch
  <2>3. Of(ub, s) = <<>>
    <3> DEFINE o == Of(ub, s)
    <3>1. o \in Seq(Token) /\ \A i \in DOMAIN o : o[i].seq = s /\ \E k \in DOMAIN ub : o[i] = ub[k]
      BY <1>3, OfIs
    <3> HIDE DEF o
    <3>2. o # <<>> => 1 \in DOMAIN o
      BY <3>1
    <3>3. o = <<>>
      BY <2>2, <3>1, <3>2 DEF InBatch
    <3>4. QED
      BY <3>3 DEF o
  <2>4. QED
    BY <2>3
<1> HIDE DEF f, from
<1>8. /\ m \in Memory(mode) /\ Owned(mode, m)
      /\ \A s \in KvSeqs : Unshifted(mode, c, s) => Unshifted(mode, m, s)
      /\ \A s \in KvSeqs, l \in Nat : \A prompt : Held(mode, c, s, prompt, l) =>
            /\ Held(mode, m, s, prompt, IF f[s] < l THEN f[s] ELSE l)
            /\ f[s] >= l => SameOf(mode, c, m, s)
  BY <1>4, <1>6, SeqRmFromSpares
<1>9. Failed(m)
  BY <1>2 DEF c, f
<1> HIDE DEF m
<1>10. \A s \in KvSeqs : Unshifted(mode, m, s)
  BY <1>4, <1>8
<1>11. ASSUME NEW s \in KvSeqs PROVE \E l \in Nat : Held(mode, m, s, kvSlot[s].prompt, l)
  <2>1. PICK l \in Nat : Held(mode, c, s, kvSlot[s].prompt, l)
    BY <1>4
  <2>2. (IF f[s] < l THEN f[s] ELSE l) \in Nat
    BY <1>6
  <2>3. QED
    BY <1>8, <2>1, <2>2
<1>12. ASSUME NEW s \in IdleOnes PROVE Held(mode, m, s, kvSlot[s].prompt, Len(kvSlot[s].prompt))
  <2>1. s \in KvSeqs /\ ~InBatch(kvBatch, s)
    BY IdleHeld DEF Kept
  <2>2. f[s] = mode.context + 1
    BY <1>5, <1>7, <2>1
  <2>3. Len(kvSlot[s].prompt) \in Nat /\ Len(kvSlot[s].prompt) <= mode.context
    BY <2>1, InvParts, SlotsGood DEF SlotGood
  <2>4. f[s] >= Len(kvSlot[s].prompt)
    BY <1>5, <2>2, <2>3
  <2>5. Held(mode, c, s, kvSlot[s].prompt, Len(kvSlot[s].prompt))
    BY <1>4, <2>1
  <2>6. SameOf(mode, c, m, s)
    BY <1>8, <2>1, <2>3, <2>4, <2>5
  <2>7. QED
    BY <2>5, <2>6, SameHeld
<1>13. QED
  BY <1>1, <1>8, <1>9, <1>10, <1>11, <1>12, FailedGood

\* No slot waits for a parent, and none has a boss.
LEMMA NoneActivated ==
    ASSUME Plain, KvInv, NEW m
    PROVE  ActivatedChildren(m, kvSlot) = [m |-> m, slot |-> kvSlot]
<1> DEFINE waits(t) == kvSlot[t].state = "wait" /\ kvSlot[kvSlot[t].boss].state = "done"
           K == {k \in DOMAIN InOrder : waits(InOrder[k])}
           ss == SubseqAt(InOrder, K)
           base == [m |-> m, slot |-> kvSlot]
           Is(h) == h = [s \in SUBSET DOMAIN ss |->
                            IF s = {} THEN base ELSE CopyState(h[s \ {Max(s)}], ss[Max(s)])]
           h == CHOOSE f : Is(f)
           f == [s \in SUBSET DOMAIN ss |-> base]
<1>1. ActivatedChildren(m, kvSlot) = h[DOMAIN ss]
  BY DEF ActivatedChildren, FoldLeft, MapThenFoldSet
<1>2. InOrder \in Seq(KvSeqs) /\ \A k \in DOMAIN InOrder : InOrder[k] \in KvSeqs
  <2> DEFINE N == Cardinality(KvSeqs)
  <2>1. N \in Nat /\ KvSeqs = 0 .. N - 1 /\ InOrder = [k \in 1 .. N |-> k - 1]
    <3>1. IsFiniteSet(KvSeqs) /\ KvSeqs = 0 .. Cardinality(KvSeqs) - 1
      BY KvAssumption DEF Plain
    <3>2. QED
      BY <3>1, FS_CardinalityType DEF InOrder
  <2> HIDE DEF N
  <2>2. \A k \in 1 .. N : k - 1 \in KvSeqs
    BY <2>1
  <2>3. QED
    BY <2>1, <2>2
<1>3. K = {}
  BY <1>2, InvParts
<1>4. DOMAIN ss = {}
  <2>1. K \in SUBSET DOMAIN InOrder
    OBVIOUS
  <2>2. ss \in Seq(KvSeqs) /\ Thinned(ss, InOrder, K)
    BY <1>2, <2>1, SubseqThins
  <2> HIDE DEF ss
  <2>3. \A v : ~(\E i \in DOMAIN ss : ss[i] = v)
    BY <1>2, <1>3, <2>1, <2>2, ThinnedElements
  <2>4. QED
    BY <2>3
<1> HIDE DEF base, ss
<1>5. Is(f)
  <2>1. \A s \in SUBSET DOMAIN ss : s = {}
    BY <1>4
  <2>2. \A s \in SUBSET DOMAIN ss : (IF s = {} THEN base ELSE CopyState(f[s \ {Max(s)}], ss[Max(s)])) = base
    BY <2>1
  <2>3. QED
    BY <2>2
<1>6. Is(h)
  <2> HIDE DEF Is, f
  <2>1. QED
    BY <1>5
<1>7. h = [s \in SUBSET DOMAIN ss |-> IF s = {} THEN base ELSE CopyState(h[s \ {Max(s)}], ss[Max(s)])]
  BY <1>6
<1> HIDE DEF h
<1>8. h[DOMAIN ss] = base
  BY <1>4, <1>7
<1>9. QED
  BY <1>1, <1>8 DEF base

\* A view that is decoded: its tokens are held, and those of the slots that are
\* released stay held.
LEMMA DecodeViewGood ==
    ASSUME Plain, KvInv, NEW t, Kept(t.m), Divides(t.ubs, View), t.ok => Placed(t), DecodeView(t)
    PROVE  KvInv'
<1> DEFINE d == Decoded(t, Len(t.ubs))
           f == ActivatedChildren(d.m, kvSlot)
           last == {s \in KvSeqs : Of(View, s) # <<>> /\ Of(Rest, s) = <<>>}
           ibatch(s) == IF f.slot[s].state = "done" /\ f.slot[s].boss # Unrelated THEN f.slot[s].boss ELSE s
           sampled == {s \in KvSeqs : f.slot[s].state \in {"done", "gen"} /\ ibatch(s) \in last}
<1>1. f = [m |-> d.m, slot |-> kvSlot]
  BY NoneActivated
<1>2. f.m = d.m /\ f.slot = kvSlot
  BY <1>1
<1>3. sampled = {s \in KvSeqs : kvSlot[s].state \in {"done", "gen"} /\ s \in last}
  <2>1. \A s \in KvSeqs : ibatch(s) = s
    BY <1>2, InvParts
  <2>2. QED
    BY <1>2, <2>1
<1>4. PICK ended \in SUBSET sampled :
         /\ kv' = Release(f, ended).m
         /\ kvSlot' = [s \in KvSeqs |-> IF s \in sampled \ ended THEN [Release(f, ended).slot[s] EXCEPT !.state = "gen"]
                                        ELSE Release(f, ended).slot[s]]
  BY DEF DecodeView
<1>5. /\ Placed(t) /\ kvBatch' = Rest /\ nBatch' = FullBatch /\ blind' = d.blind
      /\ mode' = mode /\ kvSaved' = kvSaved
  BY DEF DecodeView
<1> DEFINE c == d.m
           new == ClearedSeqs(c, {})
           slot == [s \in KvSeqs |-> IF s \in ended THEN [IdleSlot EXCEPT !.prompt = kvSlot[s].prompt] ELSE kvSlot[s]]
<1>6. Release(f, ended) = [m |-> new, slot |-> slot]
  <2> DEFINE children == {s \in ended : f.slot[s].boss \notin {Unrelated, s}}
  <2>1. children = {}
    BY <1>2, <1>3, InvParts
  <2>2. Release(f, ended) = [m |-> ClearedSeqs(f.m, children),
                             slot |-> [s \in KvSeqs |-> IF s \in children THEN IdleSlot
                                                        ELSE IF s \in ended THEN [IdleSlot EXCEPT !.prompt = f.slot[s].prompt]
                                                        ELSE f.slot[s]]]
    BY DEF Release
  <2> HIDE DEF children
  <2>3. QED
    BY <1>2, <2>1, <2>2
<1> DEFINE final == [s \in KvSeqs |-> IF s \in sampled \ ended THEN [slot[s] EXCEPT !.state = "gen"] ELSE slot[s]]
<1>7. kv' = new /\ kvSlot' = final
  <2> HIDE DEF sampled, new, slot
  <2>1. Release(f, ended).m = new /\ Release(f, ended).slot = slot
    BY <1>6
  <2>2. QED
    BY <1>4, <2>1
<1>8. Len(t.ubs) \in 0 .. Len(t.ubs)
  BY <1>5 DEF Placed
<1>9. /\ c \in Memory(mode) /\ Owned(mode, c) /\ d.blind = FALSE
      /\ \A s \in KvSeqs : Unshifted(mode, c, s) /\ Whole(mode, c, s, kvSlot[s].prompt, Rest)
  BY <1>5, <1>8, DecodedKeeps
<1> HIDE DEF d, c, f
<1>10. ASSUME NEW s \in sampled PROVE s \in KvSeqs /\ kvSlot[s].state \in {"done", "gen"} /\ ~InBatch(Rest, s)
  <2>1. s \in KvSeqs /\ kvSlot[s].state \in {"done", "gen"} /\ Of(Rest, s) = <<>>
    BY <1>3
  <2> DEFINE o == Of(Rest, s)
  <2>2. \A k \in DOMAIN Rest : Rest[k].seq = s => \E i \in DOMAIN o : o[i] = Rest[k]
    BY BatchParts, OfIs
  <2>3. DOMAIN o = {}
    BY <2>1
  <2> HIDE DEF o
  <2>4. QED
    BY <2>1, <2>2, <2>3 DEF InBatch
<1> HIDE DEF sampled
<1>11. /\ new \in Memory(mode) /\ Owned(mode, new)
       /\ \A s \in KvSeqs : Unshifted(mode, c, s) => Unshifted(mode, new, s)
       /\ \A s \in KvSeqs, n \in Nat : \A prompt : Held(mode, c, s, prompt, n) /\ n <= mode.context =>
             SameOf(mode, c, new, s)
  BY <1>9, ClearedIs
<1> HIDE DEF new
<1>12. ASSUME NEW s \in KvSeqs PROVE /\ slot[s] \in Slot /\ slot[s].prompt = kvSlot[s].prompt
                                     /\ slot[s].state = "start" => s \notin ended /\ slot[s] = kvSlot[s]
                                     /\ slot[s].state = "idle" => s \in ended \/ slot[s] = kvSlot[s]
  <2>1. CASE s \in ended
    <3>1. slot[s] = [IdleSlot EXCEPT !.prompt = kvSlot[s].prompt] /\ kvSlot[s].prompt \in Seq(Int)
      BY <2>1, InvParts
    <3>2. slot[s].state = "idle" /\ slot[s].prompt = kvSlot[s].prompt /\ slot[s] \in Slot
      BY <3>1, SlotKinds
    <3>3. QED
      BY <2>1, <3>2
  <2>2. CASE s \notin ended
    BY <2>2, InvParts
  <2>3. QED
    BY <2>1, <2>2
<1>13. ASSUME NEW s \in KvSeqs PROVE /\ final[s] \in Slot /\ final[s].prompt = kvSlot[s].prompt
                                     /\ final[s].state = "start" => final[s] = kvSlot[s]
                                     /\ final[s].state = "idle" => s \in ended \/ final[s] = kvSlot[s]
  <2>1. CASE s \in sampled \ ended
    <3>1. final[s] = [slot[s] EXCEPT !.state = "gen"]
      BY <2>1
    <3> DEFINE sl == slot[s]
    <3> HIDE DEF slot
    <3>2. sl \in Slot /\ sl.prompt = kvSlot[s].prompt /\ final[s] = [sl EXCEPT !.state = "gen"]
      BY <1>12, <3>1
    <3> HIDE DEF sl, final
    <3>3. QED
      BY <3>2, SlotKinds
  <2>2. CASE s \notin sampled \ ended
    <3>1. final[s] = slot[s]
      BY <2>2
    <3> HIDE DEF final, slot
    <3>2. QED
      BY <1>12, <3>1
  <2>3. QED
    BY <2>1, <2>2
<1>14. final \in [KvSeqs -> Slot]
  <2>1. final = [s \in KvSeqs |-> final[s]]
    OBVIOUS
  <2> HIDE DEF final
  <2>2. QED
    BY <1>13, <2>1
<1> HIDE DEF slot, final
<1>15. ASSUME NEW s \in KvSeqs PROVE SlotGood(mode, new, final[s], s, Rest)
  <2>1. SlotGood(mode, kv, kvSlot[s], s, kvBatch) /\ Len(kvSlot[s].prompt) <= mode.context
    BY SlotsGood DEF SlotGood
  <2>2. Whole(mode, c, s, kvSlot[s].prompt, Rest) /\ Unshifted(mode, c, s)
    BY <1>9
  <2>3. PICK n \in 0 .. Len(kvSlot[s].prompt) : Held(mode, c, s, kvSlot[s].prompt, n)
    BY <2>2 DEF Whole
  <2>4. n \in Nat /\ n <= mode.context
    <3>1. Len(kvSlot[s].prompt) \in Nat /\ mode.context \in Nat
      BY InvParts, Facts
    <3>2. QED
      BY <2>1, <2>3, <3>1
  <2>5. SameOf(mode, c, new, s)
    BY <1>11, <2>3, <2>4
  <2>6. Whole(mode, new, s, final[s].prompt, Rest) /\ Unshifted(mode, new, s)
    BY <1>13, <2>2, <2>5, SameHeld
  <2>7. final[s].state \in {"idle", "start"} => ~InBatch(Rest, s)
    <3>1. s \in ended => ~InBatch(Rest, s)
      BY <1>10
    <3>2. kvSlot[s].state \in {"idle", "start"} => ~InBatch(Rest, s)
      BY <2>1, NotInView DEF SlotGood
    <3>3. QED
      BY <1>13, <3>1, <3>2
  <2>8. final[s].state = "start" => final[s].text \in Texts
    BY <1>13, <2>1 DEF SlotGood
  <2>9. QED
    BY <1>13, <2>1, <2>6, <2>7, <2>8 DEF SlotGood
<1>16. mode \in Modes /\ kvSaved \in SUBSET Entries(mode) /\ FullBatch \in Nat \ {0} /\ Rest \in Seq(Token)
  BY InvParts, Facts, BatchParts
<1>17. Good(mode, new, final, Rest, FullBatch, kvSaved, FALSE)
  BY <1>11, <1>14, <1>15, <1>16, GoodOf
<1>18. QED
  BY <1>5, <1>7, <1>9, <1>17 DEF KvInv

\* The decoding of a view in all its outcomes.
LEMMA DecodeGood ==
    ASSUME Plain, KvInv, DecodeBatch
    PROVE  KvInv'
<1> DEFINE t == InitBatch(Updated(kv), View)
<1>1. Kept(t.m) /\ Divides(t.ubs, View) /\ (t.ok => Placed(t))
  BY TrialKeeps
<1>2. NoRoom(t) \/ DecodeView(t) \/ DecodeFails(t)
  BY DEF DecodeBatch
<1> HIDE DEF t
<1>3. QED
  BY <1>1, <1>2, NoRoomGood, DecodeViewGood, DecodeFailsGood

-----------------------------------------------------------------------------
\* seq_add moves the cells of one sequence that have a position from p0 on.
Sliding(x, m, s, p0, st, i) == st = StreamIn(x, s) /\ i \in HeldBy(x, m, s) /\ m.cells[st][i].pos >= p0

\* seq_add moves the cells of its sequence from a position on.
Slid(m, s, p0, d, new) ==
    /\ new \in Memory(mode) /\ Owned(mode, new) /\ new.rows = m.rows
    /\ \A st \in KvSeqs, i \in CellsOf(mode) :
          new.cells[st][i] = IF Sliding(mode, m, s, p0, st, i) THEN Moved(m.cells[st][i], d) ELSE m.cells[st][i]

LEMMA SeqAddSlides ==
    ASSUME Plain, NEW m \in Memory(mode), Owned(mode, m), NEW s \in KvSeqs, NEW p0 \in Nat, NEW d \in Int, p0 + d >= 0
    PROVE  Slid(m, s, p0, d, SeqAdd(m, s, p0, d))
<1> DEFINE z == StreamOf(s)
           row == [i \in KvCells |-> IF s \in m.cells[z][i].seqs /\ m.cells[z][i].pos >= p0
                                     THEN Moved(m.cells[z][i], d) ELSE m.cells[z][i]]
           cells == [m.cells EXCEPT ![z] = row]
           head == [m.head EXCEPT ![z] = 0]
           new == SeqAdd(m, s, p0, d)
<1>1. mode \in Modes /\ KvCells = CellsOf(mode) /\ z = StreamIn(mode, s) /\ z \in KvSeqs
  BY Facts DEF Plain
<1>2. new = [m EXCEPT !.cells = cells, !.head = head]
  BY DEF SeqAdd
<1>3. /\ m.cells \in [KvSeqs -> [CellsOf(mode) -> Cell]] /\ m.rows \in [KvSeqs -> [CellsOf(mode) -> Row]]
      /\ m.head \in [KvSeqs -> Nat] /\ m.copies = <<>>
  BY <1>1, MemoryParts
<1>4. \A c \in Cell : Moved(c, d) \in Cell /\ Moved(c, d).pos = c.pos + d /\ Moved(c, d).seqs = c.seqs
  <2> TAKE c \in Cell
  <2>1. c.pos \in Int /\ c.shift \in Int /\ c.seqs \in SUBSET KvSeqs
    BY DEF Cell
  <2>2. Moved(c, d) = [pos |-> c.pos + d, seqs |-> c.seqs, shift |-> c.shift + d]
    <3>1. c = [pos |-> c.pos, seqs |-> c.seqs, shift |-> c.shift]
      BY DEF Cell
    <3>2. Moved(c, d) = [[c EXCEPT !.pos = c.pos + d] EXCEPT !.shift = c.shift + d]
      BY <3>1 DEF Moved
    <3>3. QED
      BY <3>1, <3>2
  <2>3. c.pos + d \in Int /\ c.shift + d \in Int
    BY <2>1
  <2>4. QED
    BY <2>1, <2>2, <2>3 DEF Cell
<1>5. ASSUME NEW i \in CellsOf(mode)
      PROVE  /\ row[i] \in Cell
             /\ row[i] = IF Sliding(mode, m, s, p0, z, i) THEN Moved(m.cells[z][i], d) ELSE m.cells[z][i]
  <2>1. m.cells[z][i] \in Cell
    BY <1>1, <1>3
  <2>2. row[i] = IF Sliding(mode, m, s, p0, z, i) THEN Moved(m.cells[z][i], d) ELSE m.cells[z][i]
    BY <1>1 DEF Sliding, HeldBy
  <2> HIDE DEF row
  <2>3. QED
    BY <1>4, <2>1, <2>2
<1>6. row \in [CellsOf(mode) -> Cell]
  <2>1. row = [i \in CellsOf(mode) |-> row[i]]
    BY <1>1
  <2> HIDE DEF row
  <2>2. QED
    BY <1>5, <2>1
<1>7. cells \in [KvSeqs -> [CellsOf(mode) -> Cell]] /\ head \in [KvSeqs -> Nat]
  <2> HIDE DEF row
  <2>1. QED
    BY <1>1, <1>3, <1>6
<1>8. new \in Memory(mode) /\ new.rows = m.rows /\ new.cells = cells
  <2> HIDE DEF cells, head
  <2>1. QED
    BY <1>2, <1>3, <1>7 DEF Memory
<1> HIDE DEF row, new
<1>9. ASSUME NEW st \in KvSeqs, NEW i \in CellsOf(mode)
      PROVE  new.cells[st][i] = IF Sliding(mode, m, s, p0, st, i) THEN Moved(m.cells[st][i], d) ELSE m.cells[st][i]
  <2>1. CASE st = z
    BY <1>1, <1>3, <1>5, <1>8, <2>1
  <2>2. CASE st # z
    <3>1. new.cells[st] = m.cells[st] /\ ~Sliding(mode, m, s, p0, st, i)
      BY <1>1, <1>3, <1>8, <2>2 DEF Sliding
    <3>2. QED
      BY <3>1
  <2>3. QED
    BY <2>1, <2>2
<1>10. Owned(mode, new)
  <2>1. ASSUME NEW st \in KvSeqs, NEW i \in CellsOf(mode)
        PROVE  \/ new.cells[st][i] = Free
               \/ new.cells[st][i].pos >= 0 /\ \E t \in KvSeqs : new.cells[st][i].seqs = {t} /\ StreamIn(mode, t) = st
    <3>1. CASE Sliding(mode, m, s, p0, st, i)
      <4>1. st = StreamIn(mode, s) /\ i \in HeldBy(mode, m, s) /\ m.cells[st][i].pos >= p0
        BY <3>1 DEF Sliding
      <4>2. m.cells[st][i].seqs = {s}
        BY <1>1, <4>1, HeldApart
      <4>3. new.cells[st][i] = Moved(m.cells[st][i], d) /\ m.cells[st][i] \in Cell /\ m.cells[st][i].pos \in Int
        BY <1>1, <1>9, <3>1, MemoryParts
      <4>4. new.cells[st][i].pos = m.cells[st][i].pos + d /\ new.cells[st][i].seqs = {s}
        BY <1>4, <4>2, <4>3
      <4>5. new.cells[st][i].pos >= 0
        BY <4>1, <4>3, <4>4
      <4>6. QED
        BY <4>1, <4>4, <4>5
    <3>2. CASE ~Sliding(mode, m, s, p0, st, i)
      BY <1>9, <3>2 DEF Owned
    <3>3. QED
      BY <3>1, <3>2
  <2>2. QED
    BY <2>1 DEF Owned
<1>11. Slid(m, s, p0, d, new)
  BY <1>8, <1>9, <1>10 DEF Slid
<1>12. QED
  BY <1>11 DEF new

\* A context shift drops the tokens from k to k + d and moves the others.
Shift(m, s, n, new, left) ==
    /\ new \in Memory(mode) /\ Owned(mode, new)
    /\ left \in Seq(Int) /\ Len(left) = n
    /\ Held(mode, new, s, left, n)
    /\ \A t \in KvSeqs : t # s => SameOf(mode, m, new, t)

LEMMA ShiftedHeld ==
    ASSUME Plain, NEW m \in Memory(mode), Owned(mode, m), NEW s \in KvSeqs,
           NEW prompt \in Seq(Int), NEW n \in Nat, n = Len(prompt), Held(mode, m, s, prompt, n),
           NEW k \in Nat, NEW d \in Nat, k + d <= n
    PROVE  LET new == SeqAdd(SeqRmRange(m, s, k, k + d), s, k + d, -d)
               left == SubSeq(prompt, 1, k) \o SubSeq(prompt, k + d + 1, n)
           IN Shift(m, s, n - d, new, left)
<1> DEFINE m1 == SeqRmRange(m, s, k, k + d)
           new == SeqAdd(m1, s, k + d, -d)
           a == SubSeq(prompt, 1, k)
           b == SubSeq(prompt, k + d + 1, n)
           left == a \o b
           st == StreamIn(mode, s)
<1>1. mode \in Modes /\ st \in KvSeqs
  BY Facts DEF Plain
<1>2. Drops(mode, m, m1, RangeOf(mode, m, s, k, k + d))
  BY SeqRmDrops
<1>3. m1 \in Memory(mode) /\ Owned(mode, m1) /\ m1.rows = m.rows
  <2>1. m1 \in Memory(mode) /\ m1.rows = m.rows
    BY <1>2 DEF Drops
  <2>2. Owned(mode, m1)
    <3> HIDE DEF m1
    <3>1. QED
      BY <1>2, DropOwned
  <2>3. QED
    BY <2>1, <2>2
<1> HIDE DEF m1
<1>4. /\ new \in Memory(mode) /\ Owned(mode, new) /\ new.rows = m1.rows
      /\ \A z \in KvSeqs, i \in CellsOf(mode) :
            new.cells[z][i] = IF Sliding(mode, m1, s, k + d, z, i) THEN Moved(m1.cells[z][i], -d) ELSE m1.cells[z][i]
  <2>1. k + d \in Nat /\ -d \in Int /\ (k + d) + (-d) >= 0
    OBVIOUS
  <2> DEFINE e == -d
             p == k + d
  <2>2. e \in Int /\ p \in Nat /\ p + e >= 0
    BY <2>1
  <2>3. new = SeqAdd(m1, s, p, e)
    OBVIOUS
  <2> HIDE DEF e, p, new
  <2>4. Slid(m1, s, p, e, new)
    BY <1>3, <2>2, <2>3, SeqAddSlides
  <2>5. QED
    BY <2>4 DEF Slid, e, p
<1> HIDE DEF new
<1>5. /\ left \in Seq(Int) /\ Len(left) = n - d
      /\ \A i \in 1 .. k : left[i] = prompt[i]
      /\ \A i \in k + 1 .. n - d : left[i] = prompt[i + d]
  <2>1. a \in Seq(Int) /\ Len(a) = k /\ \A i \in 1 .. k : a[i] = prompt[i]
    OBVIOUS
  <2>2. b \in Seq(Int) /\ Len(b) = n - (k + d) /\ \A i \in 1 .. n - (k + d) : b[i] = prompt[k + d + i]
    <3>1. b \in Seq(Int)
      OBVIOUS
    <3>2. b = [i \in 1 .. (n - (k + d + 1)) + 1 |-> prompt[(k + d + 1) + i - 1]]
      OBVIOUS
    <3>3. (n - (k + d + 1)) + 1 = n - (k + d) /\ n - (k + d) \in Nat
      OBVIOUS
    <3>4. \A i \in 1 .. n - (k + d) : (k + d + 1) + i - 1 = k + d + i
      OBVIOUS
    <3>5. b = [i \in 1 .. n - (k + d) |-> prompt[k + d + i]]
      BY <3>2, <3>3, <3>4
    <3> HIDE DEF b
    <3>6. QED
      BY <3>1, <3>3, <3>5
  <2> HIDE DEF a, b
  <2>3. /\ left \in Seq(Int) /\ Len(left) = k + (n - (k + d))
        /\ \A i \in 1 .. k + (n - (k + d)) : left[i] = IF i <= k THEN a[i] ELSE b[i - k]
    <3>1. a \in Seq(Int) /\ b \in Seq(Int)
      BY <2>1, <2>2
    <3>2. /\ a \o b \in Seq(Int) /\ Len(a \o b) = Len(a) + Len(b) /\ DOMAIN (a \o b) = 1 .. Len(a) + Len(b)
          /\ \A i \in DOMAIN (a \o b) : (a \o b)[i] = IF i <= Len(a) THEN a[i] ELSE b[i - Len(a)]
      BY <3>1, Concat
    <3>3. QED
      BY <2>1, <2>2, <3>2
  <2>4. k + (n - (k + d)) = n - d
    OBVIOUS
  <2> HIDE DEF left
  <2>5. ASSUME NEW i \in k + 1 .. n - d PROVE left[i] = prompt[i + d]
    <3>1. i \in 1 .. n - d /\ ~(i <= k) /\ i - k \in 1 .. n - (k + d) /\ k + d + (i - k) = i + d
      OBVIOUS
    <3>2. QED
      BY <2>2, <2>3, <2>4, <3>1
  <2>6. ASSUME NEW i \in 1 .. k PROVE left[i] = prompt[i]
    <3>1. i \in 1 .. n - d /\ i <= k
      OBVIOUS
    <3>2. QED
      BY <2>1, <2>3, <2>4, <3>1
  <2>7. QED
    BY <2>3, <2>4, <2>5, <2>6
<1> HIDE DEF left
<1>6. ASSUME NEW i \in HeldBy(mode, m, s)
      PROVE  /\ i \in CellsOf(mode) /\ m.cells[st][i] \in Cell /\ m.cells[st][i].pos \in 0 .. n - 1
             /\ m.cells[st][i].shift \in Int /\ m.rows[st][i].at \in Int
             /\ m.rows[st][i].token = prompt[m.cells[st][i].pos + 1]
             /\ m.rows[st][i].at + m.cells[st][i].shift = m.cells[st][i].pos
             /\ <<st, i>> \in RangeOf(mode, m, s, k, k + d) <=> m.cells[st][i].pos \in k .. k + d - 1
  <2>1. i \in CellsOf(mode)
    BY DEF HeldBy
  <2>2. /\ m.cells[st][i] \in Cell /\ m.cells[st][i].shift \in Int /\ m.rows[st][i].at \in Int
        /\ m.cells[st][i].pos \in Int
    BY <1>1, <2>1, MemoryParts
  <2>3. /\ m.cells[st][i].pos \in 0 .. n - 1 /\ m.rows[st][i].token = prompt[m.cells[st][i].pos + 1]
        /\ m.rows[st][i].at + m.cells[st][i].shift = m.cells[st][i].pos
    BY DEF Held
  <2>4. <<st, i>> \in RangeOf(mode, m, s, k, k + d) <=> m.cells[st][i].pos \in k .. k + d - 1
    BY DEF RangeOf
  <2>5. QED
    BY <2>1, <2>2, <2>3, <2>4
<1>7. ASSUME NEW i \in CellsOf(mode), i \notin HeldBy(mode, m, s)
      PROVE  m1.cells[st][i] = m.cells[st][i]
  BY <1>1, <1>2, <1>7 DEF Drops, RangeOf
<1>8. ASSUME NEW i \in HeldBy(mode, m, s)
      PROVE  m1.cells[st][i] = IF m.cells[st][i].pos \in k .. k + d - 1 THEN Free ELSE m.cells[st][i]
  BY <1>1, <1>2, <1>6 DEF Drops
<1>9. ASSUME NEW i
      PROVE  i \in HeldBy(mode, m1, s) <=> i \in HeldBy(mode, m, s) /\ m.cells[st][i].pos \notin k .. k + d - 1
  <2>1. i \in HeldBy(mode, m1, s) <=> i \in CellsOf(mode) /\ s \in m1.cells[st][i].seqs
    BY DEF HeldBy
  <2>2. i \in HeldBy(mode, m, s) <=> i \in CellsOf(mode) /\ s \in m.cells[st][i].seqs
    BY DEF HeldBy
  <2>3. QED
    BY <1>7, <1>8, <2>1, <2>2, FreeCell
<1>10. ASSUME NEW i \in HeldBy(mode, m1, s)
       PROVE  /\ i \in HeldBy(mode, m, s) /\ i \in CellsOf(mode)
              /\ new.rows[st][i] = m.rows[st][i]
              /\ new.cells[st][i].seqs = m.cells[st][i].seqs
              /\ \/ /\ m.cells[st][i].pos < k /\ new.cells[st][i] = m.cells[st][i]
                 \/ /\ m.cells[st][i].pos >= k + d /\ new.cells[st][i].pos = m.cells[st][i].pos - d
                    /\ new.cells[st][i].shift = m.cells[st][i].shift - d
  <2>1. i \in HeldBy(mode, m, s) /\ m.cells[st][i].pos \notin k .. k + d - 1 /\ i \in CellsOf(mode)
    BY <1>6, <1>9
  <2>2. m1.cells[st][i] = m.cells[st][i] /\ m.cells[st][i] \in Cell /\ m.cells[st][i].pos \in 0 .. n - 1
        /\ m.cells[st][i].shift \in Int
    BY <1>6, <1>8, <2>1
  <2>3. Sliding(mode, m1, s, k + d, st, i) <=> m.cells[st][i].pos >= k + d
    BY <2>2 DEF Sliding
  <2>4. new.cells[st][i] = IF m.cells[st][i].pos >= k + d THEN Moved(m.cells[st][i], -d) ELSE m.cells[st][i]
    BY <1>1, <1>4, <2>1, <2>2, <2>3
  <2> DEFINE c == m.cells[st][i]
  <2>5. c \in Cell /\ c.pos \in 0 .. n - 1 /\ c.shift \in Int /\ c.pos \notin k .. k + d - 1
        /\ new.cells[st][i] = IF c.pos >= k + d THEN Moved(c, -d) ELSE c
    BY <2>1, <2>2, <2>4
  <2> HIDE DEF c
  <2>6. Moved(c, -d).pos = c.pos - d /\ Moved(c, -d).shift = c.shift - d /\ Moved(c, -d).seqs = c.seqs
    BY <2>5 DEF Moved, Cell
  <2>7. /\ new.cells[st][i].seqs = c.seqs
        /\ \/ c.pos < k /\ new.cells[st][i] = c
           \/ c.pos >= k + d /\ new.cells[st][i].pos = c.pos - d /\ new.cells[st][i].shift = c.shift - d
    BY <2>5, <2>6
  <2>8. new.rows[st][i] = m.rows[st][i]
    BY <1>3, <1>4
  <2>9. QED
    BY <2>1, <2>7, <2>8 DEF c
<1>11. HeldBy(mode, new, s) = HeldBy(mode, m1, s)
  <2>1. ASSUME NEW i \in CellsOf(mode) PROVE s \in new.cells[st][i].seqs <=> s \in m1.cells[st][i].seqs
    <3>1. CASE i \in HeldBy(mode, m1, s)
      <4>1. new.cells[st][i].seqs = m.cells[st][i].seqs /\ i \in HeldBy(mode, m, s)
        BY <1>10, <3>1
      <4>2. QED
        BY <3>1, <4>1 DEF HeldBy
    <3>2. CASE i \notin HeldBy(mode, m1, s)
      BY <1>1, <1>4, <3>2 DEF Sliding
    <3>3. QED
      BY <3>1, <3>2
  <2>2. QED
    BY <2>1 DEF HeldBy
<1>12. ASSUME NEW i \in HeldBy(mode, new, s)
       PROVE  /\ new.cells[st][i].pos \in 0 .. n - d - 1
              /\ new.rows[st][i].token = left[new.cells[st][i].pos + 1]
              /\ new.rows[st][i].at + new.cells[st][i].shift = new.cells[st][i].pos
              /\ i \in HeldBy(mode, m, s)
              /\ m.cells[st][i].pos = IF new.cells[st][i].pos < k THEN new.cells[st][i].pos ELSE new.cells[st][i].pos + d
  <2>1. i \in HeldBy(mode, m1, s) /\ i \in HeldBy(mode, m, s)
    BY <1>10, <1>11
  <2> DEFINE p == m.cells[st][i].pos
             q == new.cells[st][i].pos
             at == m.rows[st][i].at
             by == m.cells[st][i].shift
  <2>2. p \in 0 .. n - 1 /\ by \in Int /\ at \in Int /\ m.rows[st][i].token = prompt[p + 1] /\ at + by = p
    BY <1>6, <2>1
  <2>3. \/ p < k /\ q = p /\ new.cells[st][i].shift = by
        \/ p >= k + d /\ q = p - d /\ new.cells[st][i].shift = by - d
    BY <1>10, <2>1
  <2>4. new.rows[st][i].at = at /\ new.rows[st][i].token = prompt[p + 1]
    BY <1>10, <2>1, <2>2
  <2> HIDE DEF p, q, at, by
  <2>5. q \in 0 .. n - d - 1 /\ at + new.cells[st][i].shift = q /\ p = IF q < k THEN q ELSE q + d
    <3>1. CASE p < k /\ q = p /\ new.cells[st][i].shift = by
      BY <2>2, <3>1
    <3>2. CASE p >= k + d /\ q = p - d /\ new.cells[st][i].shift = by - d
      <4>1. q \in 0 .. n - d - 1 /\ ~(q < k) /\ p = q + d
        <5>1. p \in 0 .. n - 1 /\ p >= k + d /\ q = p - d
          BY <2>2, <3>2
        <5>2. QED
          BY <5>1
      <4>2. at + (by - d) = q
        <5>1. at \in Int /\ by \in Int /\ at + by = p /\ q = p - d
          BY <2>2, <3>2
        <5>2. QED
          BY <5>1
      <4>3. QED
        BY <3>2, <4>1, <4>2
    <3>3. QED
      BY <2>3, <3>1, <3>2
  <2>6. left[q + 1] = prompt[p + 1]
    <3>1. CASE q < k
      <4> DEFINE e == q + 1
      <4>1. e \in 1 .. k /\ p + 1 = e
        BY <2>5, <3>1
      <4> HIDE DEF e
      <4>2. left[e] = prompt[p + 1]
        BY <1>5, <4>1
      <4>3. QED
        BY <4>2 DEF e
    <3>2. CASE ~(q < k)
      <4> DEFINE e == q + 1
      <4>1. e \in k + 1 .. n - d /\ p + 1 = e + d
        BY <2>5, <3>2
      <4> HIDE DEF e
      <4>2. left[e] = prompt[p + 1]
        BY <1>5, <4>1
      <4>3. QED
        BY <4>2 DEF e
    <3>3. QED
      BY <3>1, <3>2
  <2>7. QED
    BY <2>1, <2>4, <2>5, <2>6 DEF p, q
<1>13. ASSUME NEW i \in HeldBy(mode, new, s), NEW j \in HeldBy(mode, new, s), new.cells[st][i].pos = new.cells[st][j].pos
       PROVE  i = j
  <2>1. m.cells[st][i].pos = m.cells[st][j].pos /\ i \in HeldBy(mode, m, s) /\ j \in HeldBy(mode, m, s)
    BY <1>12, <1>13
  <2>2. QED
    BY <2>1 DEF Held
<1>14. ASSUME NEW q \in 0 .. n - d - 1 PROVE \E i \in HeldBy(mode, new, s) : new.cells[st][i].pos = q
  <2> DEFINE p == IF q < k THEN q ELSE q + d
  <2>1. p \in 0 .. n - 1 /\ p \notin k .. k + d - 1 /\ (p < k => p = q) /\ (p >= k + d => p - d = q)
    OBVIOUS
  <2> HIDE DEF p
  <2>2. PICK i \in HeldBy(mode, m, s) : m.cells[st][i].pos = p
    BY <2>1 DEF Held
  <2>3. i \in HeldBy(mode, m1, s)
    BY <1>9, <2>1, <2>2
  <2>4. new.cells[st][i].pos = q
    BY <1>10, <2>1, <2>2, <2>3
  <2>5. QED
    BY <1>11, <2>3, <2>4
<1>15. Held(mode, new, s, left, n - d)
  <2> DEFINE l == n - d
  <2>1. \A i \in HeldBy(mode, new, s) :
           LET c == new.cells[st][i]
               r == new.rows[st][i]
           IN c.pos \in 0 .. l - 1 /\ r.token = left[c.pos + 1] /\ r.at + c.shift = c.pos
    BY <1>12
  <2>2. \A q \in 0 .. l - 1 : \E i \in HeldBy(mode, new, s) : new.cells[st][i].pos = q
    BY <1>14
  <2> HIDE DEF l
  <2>3. Held(mode, new, s, left, l)
    BY <1>13, <2>1, <2>2 DEF Held
  <2>4. QED
    BY <2>3 DEF l
<1>16. ASSUME NEW t \in KvSeqs, t # s PROVE SameOf(mode, m, new, t)
  <2> DEFINE z == StreamIn(mode, t)
  <2>1. z \in KvSeqs
    BY Facts
  <2>2. ASSUME NEW i \in CellsOf(mode), ~(z = st /\ i \in HeldBy(mode, m, s))
        PROVE  new.cells[z][i] = m.cells[z][i]
    <3>1. m1.cells[z][i] = m.cells[z][i]
      <4>1. <<z, i>> \notin RangeOf(mode, m, s, k, k + d)
        BY <2>2 DEF RangeOf
      <4>2. QED
        BY <1>2, <2>1, <4>1 DEF Drops
    <3>2. ~Sliding(mode, m1, s, k + d, z, i)
      BY <1>9, <2>2 DEF Sliding
    <3>3. QED
      BY <1>4, <2>1, <3>1, <3>2
  <2>3. ASSUME NEW i \in CellsOf(mode), z = st, i \in HeldBy(mode, m, s)
        PROVE  i \notin HeldBy(mode, m, t) /\ i \notin HeldBy(mode, new, t)
    <3>1. m.cells[st][i].seqs = {s}
      BY <1>1, <2>3, HeldApart
    <3>2. new.cells[st][i].seqs = {s} \/ new.cells[st][i] = Free
      <4>1. CASE i \in HeldBy(mode, m1, s)
        BY <1>10, <3>1, <4>1
      <4>2. CASE i \notin HeldBy(mode, m1, s)
        <5>1. m1.cells[st][i] = Free
          BY <1>8, <1>9, <2>3, <4>2
        <5>2. QED
          BY <1>1, <1>4, <4>2, <5>1 DEF Sliding
      <4>3. QED
        BY <4>1, <4>2
    <3>3. QED
      BY <1>16, <2>3, <3>1, <3>2, FreeCell DEF HeldBy
  <2>4. HeldBy(mode, new, t) = HeldBy(mode, m, t)
    <3>1. ASSUME NEW i \in CellsOf(mode) PROVE i \in HeldBy(mode, new, t) <=> i \in HeldBy(mode, m, t)
      <4>1. CASE z = st /\ i \in HeldBy(mode, m, s)
        BY <2>3, <4>1
      <4>2. CASE ~(z = st /\ i \in HeldBy(mode, m, s))
        BY <2>2, <4>2 DEF HeldBy
      <4>3. QED
        BY <4>1, <4>2
    <3>2. \A i : i \in HeldBy(mode, new, t) \/ i \in HeldBy(mode, m, t) => i \in CellsOf(mode)
      BY DEF HeldBy
    <3>3. QED
      BY <3>1, <3>2
  <2>5. \A i \in HeldBy(mode, m, t) : new.cells[z][i] = m.cells[z][i] /\ new.rows[z][i] = m.rows[z][i]
    <3> TAKE i \in HeldBy(mode, m, t)
    <3>1. i \in CellsOf(mode)
      BY DEF HeldBy
    <3>2. new.cells[z][i] = m.cells[z][i]
      BY <2>2, <2>3, <3>1
    <3>3. QED
      BY <1>3, <1>4, <3>2
  <2>6. QED
    BY <2>4, <2>5 DEF SameOf
<1>17. Shift(m, s, n - d, new, left)
  BY <1>4, <1>5, <1>15, <1>16 DEF Shift
<1>18. QED
  BY <1>17 DEF new, left, m1

-----------------------------------------------------------------------------
\* What goes from slot to slot while a batch is filled.
FillState ==
    {f \in [m : Memory(mode), slot : [KvSeqs -> Slot], batch : Seq(Token)] :
        Owned(mode, f.m) /\ \A s \in KvSeqs : f.slot[s].state = "start" => f.slot[s].text \in Texts}

\* A slot before the shifts, after them, and once its tokens are in the batch.
Settled(f, s) ==
    /\ Held(mode, f.m, s, f.slot[s].prompt, Len(f.slot[s].prompt)) /\ ~InBatch(f.batch, s)
    /\ Len(f.slot[s].prompt) <= mode.context /\ Unshifted(mode, f.m, s)
Shifted(f, s) ==
    /\ Held(mode, f.m, s, f.slot[s].prompt, Len(f.slot[s].prompt)) /\ ~InBatch(f.batch, s)
    /\ Len(f.slot[s].prompt) <= mode.context
    /\ f.slot[s].state # "gen" => Unshifted(mode, f.m, s)
    /\ f.slot[s].state = "gen" => Len(f.slot[s].prompt) < mode.context
Filled(f, s) == SlotGood(mode, f.m, f.slot[s], s, f.batch)

\* A step of one slot leaves the others alone.
Longer(b, c, s) ==
    /\ Len(b) <= Len(c) /\ \A k \in DOMAIN b : c[k] = b[k]
    /\ \A k \in DOMAIN c : k \notin DOMAIN b => c[k].seq = s
Apart(f, g, s) ==
    /\ Longer(f.batch, g.batch, s)
    /\ \A t \in KvSeqs : t # s => g.slot[t] = f.slot[t] /\ SameOf(mode, f.m, g.m, t)

\* A state of update_slots and what its parts are.
LEMMA FillParts ==
    ASSUME NEW f \in FillState
    PROVE  /\ f.m \in Memory(mode) /\ Owned(mode, f.m) /\ f.slot \in [KvSeqs -> Slot] /\ f.batch \in Seq(Token)
           /\ f = [m |-> f.m, slot |-> f.slot, batch |-> f.batch]
           /\ \A s \in KvSeqs : /\ f.slot[s] \in Slot /\ f.slot[s].prompt \in Seq(Int) /\ f.slot[s].text \in Seq(Int)
                                /\ f.slot[s].boss = Unrelated /\ f.slot[s].state \in {"idle", "start", "done", "gen"}
                                /\ Len(f.slot[s].prompt) \in Nat
                                /\ f.slot[s].state = "start" => f.slot[s].text \in Texts
<1>1. /\ f.m \in Memory(mode) /\ Owned(mode, f.m) /\ f.slot \in [KvSeqs -> Slot] /\ f.batch \in Seq(Token)
      /\ f = [m |-> f.m, slot |-> f.slot, batch |-> f.batch]
      /\ \A s \in KvSeqs : f.slot[s].state = "start" => f.slot[s].text \in Texts
  BY DEF FillState
<1>2. ASSUME NEW s \in KvSeqs
      PROVE  /\ f.slot[s] \in Slot /\ f.slot[s].prompt \in Seq(Int) /\ f.slot[s].text \in Seq(Int)
             /\ f.slot[s].boss = Unrelated /\ f.slot[s].state \in {"idle", "start", "done", "gen"}
             /\ Len(f.slot[s].prompt) \in Nat
  <2> DEFINE sl == f.slot[s]
  <2>1. sl \in Slot
    BY <1>1
  <2> HIDE DEF sl
  <2>2. sl.prompt \in Seq(Int) /\ sl.text \in Seq(Int) /\ sl.boss = Unrelated /\ sl.state \in {"idle", "start", "done", "gen"}
    BY <2>1 DEF Slot
  <2>3. Len(sl.prompt) \in Nat
    BY <2>2
  <2>4. QED
    BY <2>1, <2>2, <2>3 DEF sl
<1>3. QED
  BY <1>1, <1>2

\* Tokens of one sequence bring nothing of another.
LEMMA LongerSame ==
    ASSUME NEW b \in Seq(Token), NEW c \in Seq(Token), NEW s, Longer(b, c, s), NEW t, t # s
    PROVE  /\ InBatch(c, t) <=> InBatch(b, t)
           /\ \A prompt, n : Batched(b, t, prompt, n) => Batched(c, t, prompt, n)
<1>1. /\ \A k \in DOMAIN b : k \in DOMAIN c /\ c[k] = b[k]
      /\ \A k \in DOMAIN c : c[k].seq = t => k \in DOMAIN b
  BY DEF Longer
<1>2. InBatch(c, t) <=> InBatch(b, t)
  BY <1>1 DEF InBatch
<1>3. ASSUME NEW prompt, NEW n, Batched(b, t, prompt, n) PROVE Batched(c, t, prompt, n)
  <2>1. \A k \in DOMAIN c : c[k].seq = t =>
          n <= c[k].pos /\ c[k].pos < Len(prompt) /\ c[k].token = prompt[c[k].pos + 1]
    BY <1>1, <1>3 DEF Batched
  <2>2. \A q \in n .. Len(prompt) - 1 : \E k \in DOMAIN c : c[k].seq = t /\ c[k].pos = q
    BY <1>1, <1>3 DEF Batched
  <2>3. \A j, k \in DOMAIN c : j < k /\ c[j].seq = t /\ c[k].seq = t => c[j].pos < c[k].pos
    BY <1>1, <1>3 DEF Batched
  <2>4. QED
    BY <2>1, <2>2, <2>3 DEF Batched
<1>4. QED
  BY <1>2, <1>3

\* What concerns one slot leaves the others as good as they were.
LEMMA ApartKeeps ==
    ASSUME NEW f \in FillState, NEW g \in FillState, NEW s \in KvSeqs, Apart(f, g, s), NEW t \in KvSeqs, t # s
    PROVE  /\ Settled(f, t) => Settled(g, t)
           /\ Shifted(f, t) => Shifted(g, t)
           /\ Filled(f, t) => Filled(g, t)
<1>1. f.batch \in Seq(Token) /\ g.batch \in Seq(Token)
  BY FillParts
<1>2. g.slot[t] = f.slot[t] /\ SameOf(mode, f.m, g.m, t) /\ Longer(f.batch, g.batch, s)
  BY DEF Apart
<1>3. /\ InBatch(g.batch, t) <=> InBatch(f.batch, t)
      /\ \A prompt, n : Batched(f.batch, t, prompt, n) => Batched(g.batch, t, prompt, n)
  BY <1>1, <1>2, LongerSame
<1>4. /\ \A prompt, n : Held(mode, f.m, t, prompt, n) => Held(mode, g.m, t, prompt, n)
      /\ Unshifted(mode, f.m, t) => Unshifted(mode, g.m, t)
  BY <1>2, SameHeld
<1>5. \A prompt : Whole(mode, f.m, t, prompt, f.batch) => Whole(mode, g.m, t, prompt, g.batch)
  BY <1>3, <1>4 DEF Whole
<1>6. QED
  BY <1>2, <1>3, <1>4, <1>5 DEF Settled, Shifted, Filled, SlotGood

\* A changed slot, memory and batch are again such a state.
LEMMA FillNext ==
    ASSUME NEW f \in FillState, NEW s \in KvSeqs, NEW m \in Memory(mode), Owned(mode, m), NEW sl \in Slot,
           sl.state = "start" => sl.text \in Texts, NEW b \in Seq(Token)
    PROVE  [m |-> m, slot |-> [f.slot EXCEPT ![s] = sl], batch |-> b] \in FillState
<1> DEFINE slot == [f.slot EXCEPT ![s] = sl]
<1>1. slot \in [KvSeqs -> Slot] /\ \A t \in KvSeqs : slot[t] = IF t = s THEN sl ELSE f.slot[t]
  BY FillParts
<1>2. \A t \in KvSeqs : slot[t].state = "start" => slot[t].text \in Texts
  BY <1>1, FillParts
<1> HIDE DEF slot
<1>3. QED
  BY <1>1, <1>2 DEF FillState, slot

-----------------------------------------------------------------------------
\* Two prompts that agree on the first n tokens are held alike.
LEMMA HeldAgree ==
    ASSUME NEW x, NEW m, NEW s, NEW prompt, NEW n \in Nat, Held(x, m, s, prompt, n), NEW other,
           \A i \in 1 .. n : other[i] = prompt[i]
    PROVE  Held(x, m, s, other, n)
<1>1. ASSUME NEW i \in HeldBy(x, m, s)
      PROVE  LET c == m.cells[StreamIn(x, s)][i]
                 r == m.rows[StreamIn(x, s)][i]
             IN c.pos \in 0 .. n - 1 /\ r.token = other[c.pos + 1] /\ r.at + c.shift = c.pos
  <2> DEFINE p == m.cells[StreamIn(x, s)][i].pos
  <2>1. p \in 0 .. n - 1 /\ m.rows[StreamIn(x, s)][i].token = prompt[p + 1]
        /\ m.rows[StreamIn(x, s)][i].at + m.cells[StreamIn(x, s)][i].shift = p
    BY DEF Held
  <2> HIDE DEF p
  <2>2. p + 1 \in 1 .. n
    BY <2>1
  <2>3. other[p + 1] = prompt[p + 1]
    BY <2>2
  <2>4. QED
    BY <2>1, <2>3 DEF p
<1>2. QED
  BY <1>1 DEF Held

\* A step of the slot s that changes its memory, its slot and its part of the batch.
LEMMA StepOf ==
    ASSUME NEW f \in FillState, NEW s \in KvSeqs, NEW m, NEW sl, NEW b, Longer(f.batch, b, s),
           \A t \in KvSeqs : t # s => SameOf(mode, f.m, m, t)
    PROVE  LET g == [m |-> m, slot |-> [f.slot EXCEPT ![s] = sl], batch |-> b]
           IN Apart(f, g, s) /\ g.slot[s] = sl /\ g.m = m /\ g.batch = b
<1> DEFINE slot == [f.slot EXCEPT ![s] = sl]
           g == [m |-> m, slot |-> slot, batch |-> b]
<1>1. slot[s] = sl /\ \A t \in KvSeqs : t # s => slot[t] = f.slot[t]
  BY FillParts
<1> HIDE DEF slot
<1>2. g.slot = slot /\ g.m = m /\ g.batch = b
  OBVIOUS
<1> HIDE DEF g
<1>3. Apart(f, g, s)
  BY <1>1, <1>2 DEF Apart
<1>4. QED
  BY <1>1, <1>2, <1>3 DEF g, slot

\* A state whose slots are replaced.
LEMMA NewSlots ==
    ASSUME NEW f \in FillState, NEW slot
    PROVE  [f EXCEPT !.slot = slot] = [m |-> f.m, slot |-> slot, batch |-> f.batch]
<1> DEFINE a == f.m
           b == f.slot
           c == f.batch
<1>1. f = [m |-> a, slot |-> b, batch |-> c]
  BY FillParts
<1> HIDE DEF a, b, c
<1>2. [f EXCEPT !.slot = slot] = [m |-> a, slot |-> slot, batch |-> c]
  BY <1>1
<1>3. QED
  BY <1>2 DEF a, c

\* A batch without new tokens.
LEMMA NothingLonger == ASSUME NEW b \in Seq(Token), NEW s PROVE Longer(b, b, s)
<1>1. Len(b) \in Nat
  OBVIOUS
<1>2. QED
  BY <1>1 DEF Longer

\* A slot at the end of its context is shifted or ends.
LEMMA ShiftStep ==
    ASSUME Plain, NEW f \in FillState, NEW s \in KvSeqs
    PROVE  LET g == ShiftContext(f, s)
           IN g \in FillState /\ (Settled(f, s) => Apart(f, g, s) /\ Shifted(g, s))
<1> DEFINE sl == f.slot[s]
           prompt == sl.prompt
           n == Len(prompt)
           g == ShiftContext(f, s)
<1>1. /\ f.m \in Memory(mode) /\ Owned(mode, f.m) /\ f.slot \in [KvSeqs -> Slot] /\ f.batch \in Seq(Token)
      /\ f = [m |-> f.m, slot |-> f.slot, batch |-> f.batch]
      /\ sl \in Slot /\ prompt \in Seq(Int) /\ sl.boss = Unrelated /\ n \in Nat
  BY FillParts
<1>2. mode.context \in Nat /\ NKeep \in Nat /\ mode \in Modes
  BY Facts DEF Plain
<1>3. CASE sl.state # "gen" \/ n + 1 < mode.context
  <2>1. g = f
    BY <1>3 DEF ShiftContext
  <2>2. Apart(f, f, s)
    BY <1>1, NothingLonger DEF Apart, SameOf
  <2>3. Settled(f, s) => Shifted(f, s)
    BY <1>1, <1>2, <1>3 DEF Settled, Shifted
  <2>4. QED
    BY <2>1, <2>2, <2>3
<1>4. CASE ~(sl.state # "gen" \/ n + 1 < mode.context) /\ ~mode.shifts
  <2> DEFINE idle == [IdleSlot EXCEPT !.prompt = prompt]
             new == [m |-> f.m, slot |-> [f.slot EXCEPT ![s] = idle], batch |-> f.batch]
  <2>1. g = new
    <3>1. g = [f EXCEPT !.slot[s] = IF sl.boss \in {Unrelated, s} THEN [IdleSlot EXCEPT !.prompt = sl.prompt] ELSE IdleSlot,
                        !.m = IF sl.boss \in {Unrelated, s} THEN f.m ELSE SeqRmRange(f.m, s, 0, All)]
      BY <1>4 DEF ShiftContext
    <3>2. sl.boss \in {Unrelated, s}
      BY <1>1
    <3> HIDE DEF sl
    <3>3. g = [f EXCEPT !.slot[s] = idle, !.m = f.m]
      BY <3>1, <3>2
    <3> HIDE DEF idle, g
    <3>4. [f EXCEPT !.slot[s] = idle, !.m = f.m] = [[f EXCEPT !.slot = [f.slot EXCEPT ![s] = idle]] EXCEPT !.m = f.m]
      OBVIOUS
    <3> DEFINE slots == [f.slot EXCEPT ![s] = idle]
    <3> HIDE DEF slots
    <3>5. [[f EXCEPT !.slot = slots] EXCEPT !.m = f.m] = [m |-> f.m, slot |-> slots, batch |-> f.batch]
      <4> DEFINE one == [f EXCEPT !.slot = slots]
      <4>1. one = [m |-> f.m, slot |-> slots, batch |-> f.batch]
        BY NewSlots
      <4> HIDE DEF one
      <4>2. [one EXCEPT !.m = f.m] = [m |-> f.m, slot |-> slots, batch |-> f.batch]
        BY <4>1
      <4>3. QED
        BY <4>2 DEF one
    <3>6. QED
      BY <3>3, <3>4, <3>5 DEF slots
  <2>2. idle \in Slot /\ idle.state = "idle" /\ idle.prompt = prompt
    BY <1>1, SlotKinds
  <2> HIDE DEF idle
  <2>3. new \in FillState
    BY <1>1, <2>2, FillNext
  <2>4. Apart(f, new, s) /\ new.slot[s] = idle /\ new.m = f.m /\ new.batch = f.batch
    BY <1>1, NothingLonger, StepOf DEF SameOf
  <2> HIDE DEF new
  <2>5. Settled(f, s) => Shifted(new, s)
    BY <2>2, <2>4 DEF Settled, Shifted
  <2>6. QED
    BY <2>1, <2>3, <2>4, <2>5
<1>5. CASE ~(sl.state # "gen" \/ n + 1 < mode.context) /\ mode.shifts
  <2> DEFINE d == (n - NKeep) \div 2
             m == SeqAdd(SeqRmRange(f.m, s, NKeep, NKeep + d), s, NKeep + d, -d)
             left == SubSeq(prompt, 1, NKeep) \o SubSeq(prompt, NKeep + d + 1, n)
             slot == [sl EXCEPT !.prompt = left]
             new == [m |-> m, slot |-> [f.slot EXCEPT ![s] = slot], batch |-> f.batch]
  <2>1. g = new
    <3>1. g = [f EXCEPT !.slot[s].prompt = left, !.m = m]
      BY <1>1, <1>5 DEF ShiftContext
    <3> HIDE DEF left, m, g
    <3>2. [f EXCEPT !.slot[s].prompt = left, !.m = m]
            = [[f EXCEPT !.slot = [f.slot EXCEPT ![s] = [f.slot[s] EXCEPT !.prompt = left]]] EXCEPT !.m = m]
      OBVIOUS
    <3> DEFINE slots == [f.slot EXCEPT ![s] = [f.slot[s] EXCEPT !.prompt = left]]
    <3> HIDE DEF slots
    <3>3. [[f EXCEPT !.slot = slots] EXCEPT !.m = m] = [m |-> m, slot |-> slots, batch |-> f.batch]
      <4> DEFINE one == [f EXCEPT !.slot = slots]
      <4>1. one = [m |-> f.m, slot |-> slots, batch |-> f.batch]
        BY NewSlots
      <4> HIDE DEF one
      <4>2. [one EXCEPT !.m = m] = [m |-> m, slot |-> slots, batch |-> f.batch]
        BY <4>1
      <4>3. QED
        BY <4>2 DEF one
    <3>4. QED
      BY <3>1, <3>2, <3>3 DEF slots
  <2>2. NKeep + 3 <= mode.context
    BY <1>2, <1>5, KvAssumption DEF Plain
  <2>3. n + 1 >= mode.context
    BY <1>1, <1>2, <1>5
  <2>4. d \in Nat /\ d >= 1 /\ NKeep + d <= n
    <3>1. n \in Nat /\ NKeep \in Nat /\ mode.context \in Nat
      BY <1>1, <1>2
    <3> HIDE DEF n
    <3>2. n - NKeep \in Nat /\ n - NKeep >= 2
      BY <2>2, <2>3, <3>1
    <3> DEFINE k == n - NKeep
    <3> HIDE DEF k
    <3>3. k \div 2 \in Nat /\ k \div 2 >= 1 /\ k \div 2 <= k
      BY <3>2 DEF k
    <3>4. QED
      BY <3>1, <3>3 DEF k
  <2> HIDE DEF d, n
  <2>5. SeqRmRange(f.m, s, NKeep, NKeep + d) \in Memory(mode) /\ Owned(mode, SeqRmRange(f.m, s, NKeep, NKeep + d))
    <3>1. NKeep \in Int /\ NKeep + d \in Int
      BY <1>2, <2>4
    <3> DEFINE p == NKeep + d
               m1 == SeqRmRange(f.m, s, NKeep, p)
    <3> HIDE DEF p
    <3>2. Drops(mode, f.m, m1, RangeOf(mode, f.m, s, NKeep, p))
      BY <1>1, <3>1, SeqRmDrops DEF p
    <3> HIDE DEF m1
    <3>3. m1 \in Memory(mode)
      BY <3>2 DEF Drops
    <3>4. Owned(mode, m1)
      BY <1>1, <3>2, DropOwned
    <3>5. QED
      BY <3>3, <3>4 DEF m1, p
  <2>6. m \in Memory(mode) /\ Owned(mode, m)
    <3> DEFINE p == NKeep + d
               e == -d
               m1 == SeqRmRange(f.m, s, NKeep, NKeep + d)
    <3>1. p \in Nat /\ e \in Int /\ p + e >= 0
      BY <1>2, <2>4
    <3>2. m = SeqAdd(m1, s, p, e)
      OBVIOUS
    <3>3. m1 \in Memory(mode) /\ Owned(mode, m1)
      BY <2>5
    <3> HIDE DEF p, e, m1, m
    <3>4. Slid(m1, s, p, e, m)
      BY <3>1, <3>2, <3>3, SeqAddSlides
    <3>5. QED
      BY <3>4 DEF Slid
  <2>7. left \in Seq(Int)
    <3>1. prompt \in Seq(Int) /\ n = Len(prompt)
      BY <1>1 DEF n
    <3> HIDE DEF prompt
    <3>2. SubSeq(prompt, 1, NKeep) \in Seq(Int) /\ SubSeq(prompt, NKeep + d + 1, n) \in Seq(Int)
      BY <1>2, <2>4, <3>1
    <3>3. QED
      BY <3>2, Concat
  <2>8. slot \in Slot /\ slot.state = "gen" /\ slot.prompt = left
    <3> HIDE DEF left
    <3>1. sl.state = "gen" /\ sl = [state |-> sl.state, prompt |-> sl.prompt, text |-> sl.text, boss |-> sl.boss]
      BY <1>1, <1>5 DEF Slot
    <3>2. slot = [state |-> sl.state, prompt |-> left, text |-> sl.text, boss |-> sl.boss]
      BY <3>1
    <3>3. QED
      BY <1>1, <2>7, <3>1, <3>2 DEF Slot
  <2>9. new \in FillState
    <3> HIDE DEF m, slot
    <3>1. slot.state = "start" => slot.text \in Texts
      BY <2>8
    <3>2. QED
      BY <1>1, <2>6, <2>8, <3>1, FillNext
  <2>10. ASSUME Settled(f, s) PROVE Apart(f, new, s) /\ Shifted(new, s)
    <3>1. /\ Held(mode, f.m, s, prompt, n) /\ ~InBatch(f.batch, s) /\ n <= mode.context
      BY <2>10 DEF Settled, n
    <3>2. /\ Len(left) = n - d /\ Held(mode, m, s, left, n - d)
          /\ \A t \in KvSeqs : t # s => SameOf(mode, f.m, m, t)
      <4> HIDE DEF prompt, n
      <4>1. n = Len(prompt)
        BY DEF n
      <4>2. QED
        <5>1. f.m \in Memory(mode) /\ Owned(mode, f.m) /\ prompt \in Seq(Int) /\ n \in Nat
          BY <1>1, <2>4, <4>1
        <5>2. NKeep \in Nat /\ d \in Nat /\ NKeep + d <= n
          BY <1>2, <2>4
        <5> DEFINE mm == SeqAdd(SeqRmRange(f.m, s, NKeep, NKeep + d), s, NKeep + d, -d)
                   ll == SubSeq(prompt, 1, NKeep) \o SubSeq(prompt, NKeep + d + 1, n)
        <5>3. Shift(f.m, s, n - d, mm, ll)
          BY <3>1, <4>1, <5>1, <5>2, ShiftedHeld
        <5>4. mm = m /\ ll = left
          BY DEF prompt, n
        <5> HIDE DEF mm, ll, m, left
        <5>5. QED
          BY <5>3, <5>4 DEF Shift
    <3> HIDE DEF left, m, slot
    <3>3. Apart(f, new, s) /\ new.slot[s] = slot /\ new.m = m /\ new.batch = f.batch
      BY <1>1, <3>2, NothingLonger, StepOf
    <3>4. n - d < mode.context
      BY <1>1, <1>2, <2>4, <3>1
    <3> HIDE DEF new, sl, prompt, n
    <3>5. Shifted(new, s)
      <4>1. new.slot[s].prompt = left /\ new.slot[s].state = "gen" /\ Len(left) = n - d
        BY <2>8, <3>2, <3>3
      <4>2. Len(left) < mode.context /\ Len(left) <= mode.context
        BY <1>1, <1>2, <2>4, <3>2, <3>4
      <4>3. Held(mode, new.m, s, left, Len(left)) /\ ~InBatch(new.batch, s)
        BY <3>1, <3>2, <3>3
      <4>4. QED
        BY <4>1, <4>2, <4>3 DEF Shifted
    <3>6. QED
      BY <3>3, <3>5
  <2> HIDE DEF new, g, sl, prompt, n
  <2>11. QED
    BY <2>1, <2>9, <2>10 DEF g
<1> HIDE DEF g, sl, n, prompt
<1>6. QED
  BY <1>3, <1>4, <1>5 DEF g

\* A prompt of which the batch has nothing, and that is held to its end.
LEMMA RestWhole ==
    ASSUME NEW x, NEW m, NEW s, NEW prompt \in Seq(Int), NEW b, ~InBatch(b, s), Held(x, m, s, prompt, Len(prompt))
    PROVE  Whole(x, m, s, prompt, b)
<1>1. Len(prompt) \in 0 .. Len(prompt) /\ Len(prompt) .. Len(prompt) - 1 = {}
  <2>1. Len(prompt) \in Nat
    OBVIOUS
  <2>2. QED
    BY <2>1
<1>2. Batched(b, s, prompt, Len(prompt))
  BY <1>1 DEF Batched, InBatch
<1>3. QED
  BY <1>1, <1>2 DEF Whole

\* A batch whose last tokens are those of s, from n on.
LEMMA LastBatched ==
    ASSUME NEW b \in Seq(Token), NEW r \in Seq(Token), NEW s \in KvSeqs, ~InBatch(b, s),
           NEW prompt \in Seq(Int), NEW n \in Nat, n <= Len(prompt), Len(r) = Len(prompt) - n,
           \A k \in 1 .. Len(prompt) - n : r[k].seq = s /\ r[k].pos = n + k - 1 /\ r[k].token = prompt[n + k]
    PROVE  /\ b \o r \in Seq(Token) /\ Longer(b, b \o r, s) /\ Batched(b \o r, s, prompt, n)
           /\ n < Len(prompt) => InBatch(b \o r, s)
<1> DEFINE c == b \o r
           L == Len(b)
           R == Len(prompt) - n
<1>1. /\ c \in Seq(Token) /\ Len(c) = L + R /\ DOMAIN c = 1 .. L + R /\ L \in Nat /\ R \in Nat
      /\ DOMAIN b = 1 .. L /\ DOMAIN r = 1 .. R
      /\ \A k \in 1 .. L + R : c[k] = IF k <= L THEN b[k] ELSE r[k - L]
  <2>1. L \in Nat /\ R \in Nat /\ DOMAIN b = 1 .. L /\ DOMAIN r = 1 .. R /\ L = Len(b) /\ R = Len(r)
    OBVIOUS
  <2> HIDE DEF L, R
  <2>2. /\ b \o r \in Seq(Token) /\ Len(b \o r) = L + R /\ DOMAIN (b \o r) = 1 .. L + R
        /\ \A k \in 1 .. L + R : (b \o r)[k] = IF k <= L THEN b[k] ELSE r[k - L]
    BY <2>1, Concat
  <2>3. QED
    BY <2>1, <2>2 DEF c
<1>2. \A k \in 1 .. R : r[k].seq = s /\ r[k].pos = n + k - 1 /\ r[k].token = prompt[n + k]
  OBVIOUS
<1>3. Len(prompt) = n + R /\ Len(prompt) \in Nat
  OBVIOUS
<1> HIDE DEF c, L, R
<1>4. \A k \in 1 .. L : b[k].seq # s
  BY <1>1 DEF InBatch
<1>5. ASSUME NEW k \in 1 .. L + R, c[k].seq = s
      PROVE  k - L \in 1 .. R /\ c[k] = r[k - L] /\ c[k].pos = n + (k - L) - 1 /\ c[k].token = prompt[n + (k - L)]
  <2> DEFINE j == k - L
  <2>1. ~(k <= L)
    <3>1. ASSUME k <= L PROVE FALSE
      <4>1. k \in 1 .. L /\ c[k] = b[k]
        BY <1>1, <3>1
      <4>2. QED
        BY <1>4, <1>5, <4>1
    <3>2. QED
      BY <3>1
  <2>2. j \in 1 .. R
    BY <1>1, <2>1
  <2>3. c[k] = r[j]
    BY <1>1, <2>1
  <2> HIDE DEF j
  <2>4. c[k].pos = n + j - 1 /\ c[k].token = prompt[n + j]
    BY <1>2, <2>2, <2>3
  <2>5. QED
    BY <2>2, <2>3, <2>4 DEF j
<1>6. ASSUME NEW j \in 1 .. R PROVE L + j \in 1 .. L + R /\ c[L + j].seq = s /\ c[L + j].pos = n + j - 1
  <2> DEFINE k == L + j
  <2>1. k \in 1 .. L + R /\ ~(k <= L) /\ k - L = j
    BY <1>1
  <2> HIDE DEF k
  <2>2. c[k] = r[j]
    BY <1>1, <2>1
  <2>3. QED
    BY <1>2, <2>1, <2>2 DEF k
<1>7. Batched(c, s, prompt, n)
  <2>1. ASSUME NEW k \in DOMAIN c, c[k].seq = s
        PROVE  n <= c[k].pos /\ c[k].pos < Len(prompt) /\ c[k].token = prompt[c[k].pos + 1]
    <3> DEFINE j == k - L
    <3>1. j \in 1 .. R /\ c[k].pos = n + j - 1 /\ c[k].token = prompt[n + j]
      BY <1>1, <1>5, <2>1
    <3> HIDE DEF j
    <3>2. c[k].pos + 1 = n + j /\ n <= c[k].pos /\ c[k].pos < Len(prompt)
      <4>1. R \in Nat /\ Len(prompt) = n + R /\ j \in 1 .. R /\ c[k].pos = n + j - 1
        BY <1>1, <1>3, <3>1
      <4>2. QED
        BY <4>1
    <3>3. QED
      BY <3>1, <3>2
  <2>2. ASSUME NEW q \in n .. Len(prompt) - 1 PROVE \E k \in DOMAIN c : c[k].seq = s /\ c[k].pos = q
    <3> DEFINE j == q - n + 1
    <3>1. j \in 1 .. R /\ n + j - 1 = q
      BY <1>1, <1>3
    <3> HIDE DEF j
    <3>2. QED
      BY <1>1, <1>6, <3>1
  <2>3. ASSUME NEW i \in DOMAIN c, NEW k \in DOMAIN c, i < k, c[i].seq = s, c[k].seq = s
        PROVE  c[i].pos < c[k].pos
    <3>1. c[i].pos = n + (i - L) - 1 /\ c[k].pos = n + (k - L) - 1
      BY <1>1, <1>5, <2>3
    <3>2. i \in Int /\ k \in Int
      BY <1>1
    <3>3. QED
      BY <1>1, <2>3, <3>1, <3>2
  <2>4. QED
    BY <2>1, <2>2, <2>3 DEF Batched
<1>8. Longer(b, c, s)
  <2>1. \A k \in DOMAIN b : c[k] = b[k]
    BY <1>1
  <2>2. ASSUME NEW k \in DOMAIN c, k \notin DOMAIN b PROVE c[k].seq = s
    <3>1. ~(k <= L) /\ k - L \in 1 .. R
      <4>1. L \in Nat /\ R \in Nat /\ k \in 1 .. L + R /\ k \notin 1 .. L
        BY <1>1, <2>2
      <4>2. QED
        BY <4>1
    <3>2. QED
      BY <1>1, <1>2, <3>1
  <2>3. Len(b) <= Len(c)
    BY <1>1 DEF L
  <2>4. QED
    BY <2>1, <2>2, <2>3 DEF Longer
<1>9. n < Len(prompt) => InBatch(c, s)
  <2>1. ASSUME n < Len(prompt) PROVE InBatch(c, s)
    <3>1. 1 \in 1 .. R
      BY <1>1, <1>3, <2>1
    <3>2. QED
      BY <1>1, <1>6, <3>1 DEF InBatch
  <2>2. QED
    BY <2>1
<1>10. QED
  BY <1>1, <1>7, <1>8, <1>9 DEF c

\* A slot that generates brings the token it sampled.
LEMMA SampledStep ==
    ASSUME Plain, NEW f \in FillState, NEW s \in KvSeqs
    PROVE  LET g == SampledToken(f, s)
           IN g \in FillState /\ (Shifted(f, s) => Apart(f, g, s) /\ Filled(g, s))
<1> DEFINE sl == f.slot[s]
           prompt == sl.prompt
           n == Len(prompt)
           g == SampledToken(f, s)
<1>1. /\ f.m \in Memory(mode) /\ Owned(mode, f.m) /\ f.slot \in [KvSeqs -> Slot] /\ f.batch \in Seq(Token)
      /\ sl \in Slot /\ prompt \in Seq(Int) /\ sl.boss = Unrelated /\ n \in Nat
      /\ sl.state = "start" => sl.text \in Texts
  BY FillParts
<1>2. mode.context \in Nat /\ mode \in Modes /\ s \in Int
  BY Facts DEF Plain
<1>3. CASE sl.state # "gen"
  <2>1. g = f
    BY <1>3 DEF SampledToken
  <2>2. Apart(f, f, s)
    BY <1>1, NothingLonger DEF Apart, SameOf
  <2>3. ASSUME Shifted(f, s) PROVE Filled(f, s)
    <3>1. Held(mode, f.m, s, prompt, Len(prompt)) /\ ~InBatch(f.batch, s) /\ Len(prompt) <= mode.context /\ Unshifted(mode, f.m, s)
      BY <1>3, <2>3 DEF Shifted
    <3> HIDE DEF prompt
    <3>2. Whole(mode, f.m, s, prompt, f.batch)
      BY <1>1, <3>1, RestWhole
    <3>3. QED
      BY <1>1, <3>1, <3>2 DEF Filled, SlotGood, prompt
  <2>4. QED
    BY <2>1, <2>2, <2>3
<1>4. CASE sl.state = "gen"
  <2> DEFINE token == [seq |-> s, pos |-> n, token |-> s]
             b == Append(f.batch, token)
             left == Append(prompt, s)
             slot == [sl EXCEPT !.prompt = left]
             new == [m |-> f.m, slot |-> [f.slot EXCEPT ![s] = slot], batch |-> b]
  <2>1. g = new
    <3>1. g = [f EXCEPT !.slot[s].prompt = left, !.batch = b]
      BY <1>1, <1>4 DEF SampledToken
    <3> HIDE DEF left, b, g
    <3>2. [f EXCEPT !.slot[s].prompt = left, !.batch = b]
            = [[f EXCEPT !.slot = [f.slot EXCEPT ![s] = [f.slot[s] EXCEPT !.prompt = left]]] EXCEPT !.batch = b]
      OBVIOUS
    <3> DEFINE slots == [f.slot EXCEPT ![s] = [f.slot[s] EXCEPT !.prompt = left]]
    <3> HIDE DEF slots
    <3>3. [[f EXCEPT !.slot = slots] EXCEPT !.batch = b] = [m |-> f.m, slot |-> slots, batch |-> b]
      <4> DEFINE one == [f EXCEPT !.slot = slots]
      <4>1. one = [m |-> f.m, slot |-> slots, batch |-> f.batch]
        BY NewSlots
      <4> HIDE DEF one
      <4>2. [one EXCEPT !.batch = b] = [m |-> f.m, slot |-> slots, batch |-> b]
        BY <4>1
      <4>3. QED
        BY <4>2 DEF one
    <3>4. QED
      BY <3>1, <3>2, <3>3 DEF slots
  <2>2. token \in Token /\ token.seq = s /\ token.pos = n /\ token.token = s
    BY <1>1, <1>2 DEF Token
  <2> HIDE DEF token
  <2>3. b \in Seq(Token)
    BY <1>1, <2>2
  <2>4. /\ left \in Seq(Int) /\ Len(left) = n + 1 /\ left[n + 1] = s
        /\ \A i \in 1 .. n : left[i] = prompt[i]
    <3> HIDE DEF prompt
    <3>1. QED
      BY <1>1, <1>2 DEF n
  <2>5. slot \in Slot /\ slot.state = "gen" /\ slot.prompt = left
    <3> HIDE DEF left
    <3>1. sl = [state |-> sl.state, prompt |-> sl.prompt, text |-> sl.text, boss |-> sl.boss]
      BY <1>1 DEF Slot
    <3>2. slot = [state |-> sl.state, prompt |-> left, text |-> sl.text, boss |-> sl.boss]
      BY <3>1
    <3>3. QED
      BY <1>1, <1>4, <2>4, <3>2 DEF Slot
  <2> HIDE DEF slot, left, prompt, n
  <2>6. new \in FillState
    <3> HIDE DEF b
    <3>1. slot.state = "start" => slot.text \in Texts
      BY <2>5
    <3>2. QED
      BY <1>1, <2>3, <2>5, <3>1, FillNext
  <2>7. ASSUME Shifted(f, s) PROVE Apart(f, new, s) /\ Filled(new, s)
    <3>1. Held(mode, f.m, s, prompt, n) /\ ~InBatch(f.batch, s) /\ n < mode.context
      BY <1>4, <2>7 DEF Shifted, prompt, n
    <3> DEFINE r == <<token>>
    <3>2. r \in Seq(Token) /\ Len(r) = 1 /\ r[1] = token /\ b = f.batch \o r
      BY <1>1, <2>2
    <3> HIDE DEF r, b
    <3>3. Longer(f.batch, b, s) /\ Batched(b, s, left, n) /\ InBatch(b, s)
      <4>1. n <= Len(left) /\ n < Len(left) /\ Len(left) - n = 1
        BY <1>1, <2>4
      <4>2. \A k \in 1 .. Len(left) - n : r[k].seq = s /\ r[k].pos = n + k - 1 /\ r[k].token = left[n + k]
        <5> TAKE k \in 1 .. Len(left) - n
        <5>1. k = 1 /\ n + k - 1 = n /\ n + k = n + 1
          BY <1>1, <4>1
        <5>2. QED
          BY <2>2, <2>4, <3>2, <5>1
      <4>3. Len(r) = Len(left) - n
        BY <3>2, <4>1
      <4>4. f.batch \in Seq(Token) /\ left \in Seq(Int) /\ n \in Nat /\ n <= Len(left)
        BY <1>1, <2>4, <4>1
      <4>5. /\ Longer(f.batch, f.batch \o r, s) /\ Batched(f.batch \o r, s, left, n)
            /\ n < Len(left) => InBatch(f.batch \o r, s)
        BY <3>1, <3>2, <4>2, <4>3, <4>4, LastBatched
      <4>6. QED
        BY <3>2, <4>1, <4>5
    <3>4. Apart(f, new, s) /\ new.slot[s] = slot /\ new.m = f.m /\ new.batch = b
      BY <3>3, StepOf DEF SameOf
    <3>5. Held(mode, f.m, s, left, n)
      BY <1>1, <2>4, <3>1, HeldAgree
    <3>6. n \in 0 .. Len(left) /\ Len(left) <= mode.context
      BY <1>1, <1>2, <2>4, <3>1
    <3>7. Whole(mode, f.m, s, left, b)
      BY <3>3, <3>5, <3>6 DEF Whole
    <3> HIDE DEF new
    <3>8. Filled(new, s)
      BY <2>5, <3>3, <3>4, <3>6, <3>7 DEF Filled, SlotGood
    <3>9. QED
      BY <3>4, <3>8
  <2> HIDE DEF new, g, sl
  <2>8. QED
    BY <2>1, <2>6, <2>7 DEF g
<1> HIDE DEF g, sl
<1>5. QED
  BY <1>3, <1>4 DEF g

\* The rest of a prompt as tokens.
LEMMA Range1Is ==
    ASSUME NEW tokens \in Seq(Int), NEW s \in KvSeqs, NEW from \in Nat, from <= Len(tokens)
    PROVE  LET r == Range1(tokens, s, from)
           IN /\ r \in Seq(Token) /\ Len(r) = Len(tokens) - from
              /\ \A k \in 1 .. Len(tokens) - from :
                    r[k].seq = s /\ r[k].pos = from + k - 1 /\ r[k].token = tokens[from + k]
<1> DEFINE L == Len(tokens)
           N == L - from
           r == [k \in 1 .. N |-> [seq |-> s, pos |-> from + k - 1, token |-> tokens[from + k]]]
<1>1. Range1(tokens, s, from) = r
  BY DEF Range1
<1>2. N \in Nat /\ L \in Nat /\ \A j \in 1 .. L : tokens[j] \in Int
  OBVIOUS
<1> HIDE DEF L
<1>3. ASSUME NEW k \in 1 .. N PROVE [seq |-> s, pos |-> from + k - 1, token |-> tokens[from + k]] \in Token
  <2>1. from + k - 1 \in Nat /\ from + k \in 1 .. L
    BY <1>2
  <2>2. tokens[from + k] \in Int
    BY <1>2, <2>1
  <2>3. QED
    BY <2>1, <2>2 DEF Token
<1> HIDE DEF N
<1>4. r \in Seq(Token) /\ Len(r) = N
  <2>1. r \in [1 .. N -> Token]
    BY <1>3
  <2> HIDE DEF r
  <2>2. QED
    BY <1>2, <2>1
<1>5. \A k \in 1 .. N : r[k].seq = s /\ r[k].pos = from + k - 1 /\ r[k].token = tokens[from + k]
  OBVIOUS
<1> HIDE DEF r
<1>6. QED
  BY <1>1, <1>4, <1>5 DEF N, L

\* A prompt starts within what the slot's tokens have in common with it.
LEMMA NPastIs ==
    ASSUME NEW prompt \in Seq(Int), NEW text \in Seq(Int), text # <<>>, NEW m, NEW s
    PROVE  LET past == NPast(m, s, prompt, text)
           IN /\ past \in Nat /\ past < Len(text) /\ past <= Len(prompt)
              /\ \A i \in 1 .. past : text[i] = prompt[i]
<1> DEFINE common == Lcp(prompt, text)
           past == NPast(m, s, prompt, text)
<1>1. /\ common \in Nat /\ common <= Len(prompt) /\ common <= Len(text)
      /\ \A i \in 1 .. common : prompt[i] = text[i]
  BY CommonPrefixAgrees DEF Lcp, CommonLength
<1>2. Len(text) \in Nat /\ Len(text) >= 1 /\ Len(prompt) \in Nat
  OBVIOUS
<1> DEFINE kept == IF common > 0 /\ common < Len(prompt)
                      /\ KvPosMin(m, s) >= Max({0, common - mode.window - (IF common < Len(text) THEN 0 ELSE 1)})
                   THEN 0 ELSE common
<1>3. past = IF kept = Len(text) THEN kept - 1 ELSE kept
  BY DEF NPast
<1>4. kept \in {0, common}
  OBVIOUS
<1> HIDE DEF kept, past, common
<1>5. past \in Nat /\ past < Len(text) /\ past <= common
  BY <1>1, <1>2, <1>3, <1>4
<1>6. QED
  BY <1>1, <1>2, <1>5 DEF past

\* A prompt leaves room in the context.
LEMMA TextsFit ==
    ASSUME Plain, NEW text \in Texts
    PROVE  text \in Seq(Int) /\ text # <<>> /\ Len(text) < mode.context
<1>1. Texts \subseteq Seq(Int) \ {<<>>}
  BY KvAssumption DEF Plain
<1>2. \A x \in Modes : \A u \in Texts : Len(u) < x.context
  BY KvAssumption DEF Plain
<1>3. mode \in Modes
  BY DEF Plain
<1>4. QED
  BY <1>1, <1>2, <1>3

\* A slot that starts keeps what the prompts have in common and brings the rest.
LEMMA StartStep ==
    ASSUME Plain, NEW f \in FillState, NEW s \in KvSeqs
    PROVE  LET g == StartPrompt(f, s)
           IN g \in FillState /\ (Filled(f, s) => Apart(f, g, s) /\ Filled(g, s))
<1> DEFINE sl == f.slot[s]
           prompt == sl.prompt
           text == sl.text
           n == Len(prompt)
           g == StartPrompt(f, s)
<1>1. /\ f.m \in Memory(mode) /\ Owned(mode, f.m) /\ f.slot \in [KvSeqs -> Slot] /\ f.batch \in Seq(Token)
      /\ sl \in Slot /\ prompt \in Seq(Int) /\ text \in Seq(Int) /\ sl.boss = Unrelated /\ n \in Nat
      /\ sl.state = "start" => text \in Texts
  BY FillParts
<1>2. mode.context \in Nat /\ mode \in Modes /\ All \in Int
  BY Facts DEF Plain
<1>3. CASE sl.state # "start"
  <2>1. g = f
    BY <1>3 DEF StartPrompt
  <2>2. Apart(f, f, s)
    BY <1>1, NothingLonger DEF Apart, SameOf
  <2>3. QED
    BY <2>1, <2>2
<1>4. CASE sl.state = "start"
  <2> DEFINE past == NPast(f.m, s, prompt, text)
             m == SeqRmRange(f.m, s, past, All)
             r == Range1(text, s, past)
             b == f.batch \o r
             slot == [[sl EXCEPT !.state = "done"] EXCEPT !.prompt = text]
             new == [m |-> m, slot |-> [f.slot EXCEPT ![s] = slot], batch |-> b]
  <2>1. g = new
    <3>1. g = [f EXCEPT !.slot[s] = [sl EXCEPT !.state = "done", !.prompt = text], !.m = m, !.batch = b]
      BY <1>4 DEF StartPrompt
    <3> HIDE DEF b, m, g
    <3> DEFINE slots == [f.slot EXCEPT ![s] = [sl EXCEPT !.state = "done", !.prompt = text]]
    <3>2. [f EXCEPT !.slot[s] = [sl EXCEPT !.state = "done", !.prompt = text], !.m = m, !.batch = b]
            = [[[f EXCEPT !.slot = slots] EXCEPT !.m = m] EXCEPT !.batch = b]
      OBVIOUS
    <3> HIDE DEF slots
    <3>3. [[[f EXCEPT !.slot = slots] EXCEPT !.m = m] EXCEPT !.batch = b] = [m |-> m, slot |-> slots, batch |-> b]
      <4> DEFINE one == [f EXCEPT !.slot = slots]
                 two == [one EXCEPT !.m = m]
      <4>1. one = [m |-> f.m, slot |-> slots, batch |-> f.batch]
        BY NewSlots
      <4> HIDE DEF one
      <4>2. two = [m |-> m, slot |-> slots, batch |-> f.batch]
        BY <4>1
      <4> HIDE DEF two
      <4>3. [two EXCEPT !.batch = b] = [m |-> m, slot |-> slots, batch |-> b]
        BY <4>2
      <4>4. QED
        BY <4>3 DEF one, two
    <3>4. [sl EXCEPT !.state = "done", !.prompt = text] = slot
      OBVIOUS
    <3>5. QED
      BY <3>1, <3>2, <3>3, <3>4 DEF slots
  <2>2. text \in Seq(Int) /\ text # <<>> /\ Len(text) < mode.context /\ text \in Texts
    <3>1. text \in Texts
      BY <1>1, <1>4
    <3> HIDE DEF text
    <3>2. QED
      BY <3>1, TextsFit
  <2>3. /\ past \in Nat /\ past < Len(text) /\ past <= n
        /\ \A i \in 1 .. past : text[i] = prompt[i]
    <3> HIDE DEF prompt, text
    <3>1. QED
      BY <1>1, <2>2, NPastIs DEF n
  <2> HIDE DEF past
  <2>4. m \in Memory(mode) /\ Owned(mode, m)
    <3>1. Drops(mode, f.m, m, RangeOf(mode, f.m, s, past, All))
      BY <1>1, <1>2, <2>3, SeqRmDrops
    <3> HIDE DEF m
    <3>2. m \in Memory(mode)
      BY <3>1 DEF Drops
    <3>3. Owned(mode, m)
      BY <1>1, <3>1, DropOwned
    <3>4. QED
      BY <3>2, <3>3
  <2>5. /\ r \in Seq(Token) /\ Len(r) = Len(text) - past
        /\ \A k \in 1 .. Len(text) - past : r[k].seq = s /\ r[k].pos = past + k - 1 /\ r[k].token = text[past + k]
    <3> HIDE DEF text
    <3>1. past <= Len(text)
      BY <2>2, <2>3
    <3>2. QED
      BY <2>2, <2>3, <3>1, Range1Is
  <2> HIDE DEF r
  <2>6. b \in Seq(Token)
    BY <1>1, <2>5, Concat
  <2>7. slot \in Slot /\ slot.state = "done" /\ slot.prompt = text
    <3> DEFINE one == [sl EXCEPT !.state = "done"]
    <3>1. sl = [state |-> sl.state, prompt |-> sl.prompt, text |-> sl.text, boss |-> sl.boss]
      BY <1>1 DEF Slot
    <3>2. one = [state |-> "done", prompt |-> sl.prompt, text |-> sl.text, boss |-> sl.boss]
      BY <3>1
    <3> HIDE DEF one, text
    <3>3. [one EXCEPT !.prompt = text] = [state |-> "done", prompt |-> text, text |-> sl.text, boss |-> sl.boss]
      BY <3>2
    <3>4. slot = [one EXCEPT !.prompt = text]
      BY DEF one
    <3>5. sl.text \in Seq(Int) /\ sl.boss \in {Unrelated}
      BY <1>1 DEF text
    <3>6. QED
      BY <2>2, <3>3, <3>4, <3>5 DEF Slot
  <2> HIDE DEF slot, prompt, n, text, m
  <2>8. new \in FillState
    <3> HIDE DEF b
    <3>1. slot.state = "start" => slot.text \in Texts
      BY <2>7
    <3>2. QED
      BY <1>1, <2>4, <2>6, <2>7, <3>1, FillNext
  <2>9. ASSUME Filled(f, s) PROVE Apart(f, new, s) /\ Filled(new, s)
    <3>1. /\ Whole(mode, f.m, s, prompt, f.batch) /\ ~InBatch(f.batch, s) /\ n <= mode.context
          /\ Unshifted(mode, f.m, s)
      BY <1>4, <2>9 DEF Filled, SlotGood, prompt, n
    <3>2. Held(mode, f.m, s, prompt, n)
      BY <1>1, <3>1, AllHeld DEF n
    <3>3. /\ Held(mode, m, s, prompt, IF past < n THEN past ELSE n) /\ Unshifted(mode, m, s)
          /\ \A t \in KvSeqs : t # s => SameOf(mode, f.m, m, t)
      BY <1>1, <2>3, <3>1, <3>2, SeqRmSpares DEF m
    <3>4. Held(mode, m, s, prompt, past)
      <4>1. (IF past < n THEN past ELSE n) = past
        BY <1>1, <2>3
      <4>2. QED
        BY <3>3, <4>1
    <3>5. Held(mode, m, s, text, past)
      BY <2>3, <3>4, HeldAgree
    <3>6. Longer(f.batch, b, s) /\ Batched(b, s, text, past) /\ InBatch(b, s)
      <4>1. past <= Len(text)
        BY <2>2, <2>3
      <4>2. QED
        BY <1>1, <2>2, <2>3, <2>5, <3>1, <4>1, LastBatched
    <3> HIDE DEF b
    <3>7. Apart(f, new, s) /\ new.slot[s] = slot /\ new.m = m /\ new.batch = b
      BY <3>3, <3>6, StepOf
    <3>8. past \in 0 .. Len(text) /\ Len(text) <= mode.context
      BY <1>1, <1>2, <2>2, <2>3
    <3>9. Whole(mode, m, s, text, b)
      BY <3>5, <3>6, <3>8 DEF Whole
    <3> HIDE DEF new
    <3>10. Filled(new, s)
      BY <2>7, <3>6, <3>7, <3>8, <3>9 DEF Filled, SlotGood
    <3>11. QED
      BY <3>7, <3>10
  <2> HIDE DEF new, g, sl
  <2>10. QED
    BY <2>1, <2>8, <2>9 DEF g
<1> HIDE DEF g, sl
<1>5. QED
  BY <1>3, <1>4 DEF g

\* Each of the three leaves a state of update_slots.
LEMMA FillTypes ==
    ASSUME Plain, NEW f \in FillState, NEW s \in KvSeqs
    PROVE  ShiftContext(f, s) \in FillState /\ SampledToken(f, s) \in FillState /\ StartPrompt(f, s) \in FillState
BY ShiftStep, SampledStep, StartStep

\* The slots are shifted one after the other,
LEMMA ShiftRuns ==
    ASSUME Plain, NEW ss \in Seq(KvSeqs), NEW base \in FillState
    PROVE  \E g \in [0 .. Len(ss) -> FillState] :
              /\ g[0] = base /\ FoldLeft(ShiftContext, base, ss) = g[Len(ss)]
              /\ \A i \in 1 .. Len(ss) : g[i] = ShiftContext(g[i - 1], ss[i])
<1> DEFINE n == Len(ss)
           S == FillState
           step == [i \in 1 .. n |-> [acc \in S |-> ShiftContext(acc, ss[i])]]
           Is(h) == h = [s \in SUBSET DOMAIN ss |->
                            IF s = {} THEN base ELSE ShiftContext(h[s \ {Max(s)}], ss[Max(s)])]
           h == CHOOSE f : Is(f)
<1>1. n \in Nat /\ DOMAIN ss = 1 .. n /\ \A i \in 1 .. n : ss[i] \in KvSeqs
  OBVIOUS
<1>2. FoldLeft(ShiftContext, base, ss) = h[DOMAIN ss]
  BY DEF FoldLeft, MapThenFoldSet
<1>3. base \in S /\ \A i \in 1 .. n : \A acc \in S : ShiftContext(acc, ss[i]) \in S
  BY <1>1, FillTypes
<1> HIDE DEF n, S
<1>4. Steps(step, n, S)
  BY <1>3 DEF Steps
<1>5. PICK f \in [SUBSET (1 .. n) -> S] : IsFold(f, step, n, base)
  <2> HIDE DEF step
  <2>1. QED
    BY <1>1, <1>3, <1>4, FoldExists DEF HasFold
<1>6. Is(f)
  <2>1. ASSUME NEW s \in SUBSET (1 .. n)
        PROVE  f[s] = IF s = {} THEN base ELSE ShiftContext(f[s \ {Max(s)}], ss[Max(s)])
    <3>1. CASE s = {}
      BY <1>5, <3>1 DEF IsFold
    <3>2. CASE s # {}
      <4>1. Max(s) \in 1 .. n /\ f[s] = step[Max(s)][f[s \ {Max(s)}]] /\ f[s \ {Max(s)}] \in S
        BY <1>5, <3>2 DEF IsFold
      <4>2. QED
        BY <3>2, <4>1
    <3>3. QED
      BY <3>1, <3>2
  <2>2. f = [s \in SUBSET (1 .. n) |-> f[s]]
    BY <1>5
  <2>3. QED
    BY <1>1, <2>1, <2>2
<1>7. \A s \in SUBSET (1 .. n) : h[s] = IF s = {} THEN base ELSE ShiftContext(h[s \ {Max(s)}], ss[Max(s)])
  <2>1. Is(h)
    <3> HIDE DEF Is
    <3>1. QED
      BY <1>6
  <2>2. h = [s \in SUBSET DOMAIN ss |-> IF s = {} THEN base ELSE ShiftContext(h[s \ {Max(s)}], ss[Max(s)])]
    BY <2>1
  <2> HIDE DEF h
  <2>3. QED
    BY <1>1, <2>2
<1> HIDE DEF h
<1>8. \A s \in SUBSET (1 .. n) : s # {} => Max(s) \in 1 .. n
  BY <1>5 DEF IsFold
<1>9. \A s \in SUBSET (1 .. n) : s # {} /\ h[s \ {Max(s)}] \in S => h[s] = step[Max(s)][h[s \ {Max(s)}]]
  BY <1>7, <1>8
<1>10. Folds(h, step, n, S, base)
  <2>1. h[{}] = base
    BY <1>7
  <2> HIDE DEF step
  <2>2. QED
    BY <1>9, <2>1 DEF Folds
<1>11. PICK g \in [0 .. n -> S] : IsRun(g, step, n, base) /\ g[n] = h[1 .. n]
  <2> HIDE DEF step
  <2>1. QED
    BY <1>1, <1>3, <1>4, <1>10, FoldIsRun
<1>12. \A i \in 1 .. n : g[i] = ShiftContext(g[i - 1], ss[i])
  <2> TAKE i \in 1 .. n
  <2>1. i - 1 \in 0 .. n /\ g[i] = step[i][g[i - 1]]
    BY <1>1, <1>11 DEF IsRun
  <2>2. g[i - 1] \in S
    BY <2>1
  <2>3. QED
    BY <2>1, <2>2
<1>13. g[0] = base /\ FoldLeft(ShiftContext, base, ss) = g[n]
  BY <1>1, <1>2, <1>11 DEF IsRun
<1>14. QED
  BY <1>12, <1>13 DEF n, S

\* bring what they sampled one after the other,
LEMMA SampledRuns ==
    ASSUME Plain, NEW ss \in Seq(KvSeqs), NEW base \in FillState
    PROVE  \E g \in [0 .. Len(ss) -> FillState] :
              /\ g[0] = base /\ FoldLeft(SampledToken, base, ss) = g[Len(ss)]
              /\ \A i \in 1 .. Len(ss) : g[i] = SampledToken(g[i - 1], ss[i])
<1> DEFINE n == Len(ss)
           S == FillState
           step == [i \in 1 .. n |-> [acc \in S |-> SampledToken(acc, ss[i])]]
           Is(h) == h = [s \in SUBSET DOMAIN ss |->
                            IF s = {} THEN base ELSE SampledToken(h[s \ {Max(s)}], ss[Max(s)])]
           h == CHOOSE f : Is(f)
<1>1. n \in Nat /\ DOMAIN ss = 1 .. n /\ \A i \in 1 .. n : ss[i] \in KvSeqs
  OBVIOUS
<1>2. FoldLeft(SampledToken, base, ss) = h[DOMAIN ss]
  BY DEF FoldLeft, MapThenFoldSet
<1>3. base \in S /\ \A i \in 1 .. n : \A acc \in S : SampledToken(acc, ss[i]) \in S
  BY <1>1, FillTypes
<1> HIDE DEF n, S
<1>4. Steps(step, n, S)
  BY <1>3 DEF Steps
<1>5. PICK f \in [SUBSET (1 .. n) -> S] : IsFold(f, step, n, base)
  <2> HIDE DEF step
  <2>1. QED
    BY <1>1, <1>3, <1>4, FoldExists DEF HasFold
<1>6. Is(f)
  <2>1. ASSUME NEW s \in SUBSET (1 .. n)
        PROVE  f[s] = IF s = {} THEN base ELSE SampledToken(f[s \ {Max(s)}], ss[Max(s)])
    <3>1. CASE s = {}
      BY <1>5, <3>1 DEF IsFold
    <3>2. CASE s # {}
      <4>1. Max(s) \in 1 .. n /\ f[s] = step[Max(s)][f[s \ {Max(s)}]] /\ f[s \ {Max(s)}] \in S
        BY <1>5, <3>2 DEF IsFold
      <4>2. QED
        BY <3>2, <4>1
    <3>3. QED
      BY <3>1, <3>2
  <2>2. f = [s \in SUBSET (1 .. n) |-> f[s]]
    BY <1>5
  <2>3. QED
    BY <1>1, <2>1, <2>2
<1>7. \A s \in SUBSET (1 .. n) : h[s] = IF s = {} THEN base ELSE SampledToken(h[s \ {Max(s)}], ss[Max(s)])
  <2>1. Is(h)
    <3> HIDE DEF Is
    <3>1. QED
      BY <1>6
  <2>2. h = [s \in SUBSET DOMAIN ss |-> IF s = {} THEN base ELSE SampledToken(h[s \ {Max(s)}], ss[Max(s)])]
    BY <2>1
  <2> HIDE DEF h
  <2>3. QED
    BY <1>1, <2>2
<1> HIDE DEF h
<1>8. \A s \in SUBSET (1 .. n) : s # {} => Max(s) \in 1 .. n
  BY <1>5 DEF IsFold
<1>9. \A s \in SUBSET (1 .. n) : s # {} /\ h[s \ {Max(s)}] \in S => h[s] = step[Max(s)][h[s \ {Max(s)}]]
  BY <1>7, <1>8
<1>10. Folds(h, step, n, S, base)
  <2>1. h[{}] = base
    BY <1>7
  <2> HIDE DEF step
  <2>2. QED
    BY <1>9, <2>1 DEF Folds
<1>11. PICK g \in [0 .. n -> S] : IsRun(g, step, n, base) /\ g[n] = h[1 .. n]
  <2> HIDE DEF step
  <2>1. QED
    BY <1>1, <1>3, <1>4, <1>10, FoldIsRun
<1>12. \A i \in 1 .. n : g[i] = SampledToken(g[i - 1], ss[i])
  <2> TAKE i \in 1 .. n
  <2>1. i - 1 \in 0 .. n /\ g[i] = step[i][g[i - 1]]
    BY <1>1, <1>11 DEF IsRun
  <2>2. g[i - 1] \in S
    BY <2>1
  <2>3. QED
    BY <2>1, <2>2
<1>13. g[0] = base /\ FoldLeft(SampledToken, base, ss) = g[n]
  BY <1>1, <1>2, <1>11 DEF IsRun
<1>14. QED
  BY <1>12, <1>13 DEF n, S

\* and start their prompts one after the other.
LEMMA StartRuns ==
    ASSUME Plain, NEW ss \in Seq(KvSeqs), NEW base \in FillState
    PROVE  \E g \in [0 .. Len(ss) -> FillState] :
              /\ g[0] = base /\ FoldLeft(StartPrompt, base, ss) = g[Len(ss)]
              /\ \A i \in 1 .. Len(ss) : g[i] = StartPrompt(g[i - 1], ss[i])
<1> DEFINE n == Len(ss)
           S == FillState
           step == [i \in 1 .. n |-> [acc \in S |-> StartPrompt(acc, ss[i])]]
           Is(h) == h = [s \in SUBSET DOMAIN ss |->
                            IF s = {} THEN base ELSE StartPrompt(h[s \ {Max(s)}], ss[Max(s)])]
           h == CHOOSE f : Is(f)
<1>1. n \in Nat /\ DOMAIN ss = 1 .. n /\ \A i \in 1 .. n : ss[i] \in KvSeqs
  OBVIOUS
<1>2. FoldLeft(StartPrompt, base, ss) = h[DOMAIN ss]
  BY DEF FoldLeft, MapThenFoldSet
<1>3. base \in S /\ \A i \in 1 .. n : \A acc \in S : StartPrompt(acc, ss[i]) \in S
  BY <1>1, FillTypes
<1> HIDE DEF n, S
<1>4. Steps(step, n, S)
  BY <1>3 DEF Steps
<1>5. PICK f \in [SUBSET (1 .. n) -> S] : IsFold(f, step, n, base)
  <2> HIDE DEF step
  <2>1. QED
    BY <1>1, <1>3, <1>4, FoldExists DEF HasFold
<1>6. Is(f)
  <2>1. ASSUME NEW s \in SUBSET (1 .. n)
        PROVE  f[s] = IF s = {} THEN base ELSE StartPrompt(f[s \ {Max(s)}], ss[Max(s)])
    <3>1. CASE s = {}
      BY <1>5, <3>1 DEF IsFold
    <3>2. CASE s # {}
      <4>1. Max(s) \in 1 .. n /\ f[s] = step[Max(s)][f[s \ {Max(s)}]] /\ f[s \ {Max(s)}] \in S
        BY <1>5, <3>2 DEF IsFold
      <4>2. QED
        BY <3>2, <4>1
    <3>3. QED
      BY <3>1, <3>2
  <2>2. f = [s \in SUBSET (1 .. n) |-> f[s]]
    BY <1>5
  <2>3. QED
    BY <1>1, <2>1, <2>2
<1>7. \A s \in SUBSET (1 .. n) : h[s] = IF s = {} THEN base ELSE StartPrompt(h[s \ {Max(s)}], ss[Max(s)])
  <2>1. Is(h)
    <3> HIDE DEF Is
    <3>1. QED
      BY <1>6
  <2>2. h = [s \in SUBSET DOMAIN ss |-> IF s = {} THEN base ELSE StartPrompt(h[s \ {Max(s)}], ss[Max(s)])]
    BY <2>1
  <2> HIDE DEF h
  <2>3. QED
    BY <1>1, <2>2
<1> HIDE DEF h
<1>8. \A s \in SUBSET (1 .. n) : s # {} => Max(s) \in 1 .. n
  BY <1>5 DEF IsFold
<1>9. \A s \in SUBSET (1 .. n) : s # {} /\ h[s \ {Max(s)}] \in S => h[s] = step[Max(s)][h[s \ {Max(s)}]]
  BY <1>7, <1>8
<1>10. Folds(h, step, n, S, base)
  <2>1. h[{}] = base
    BY <1>7
  <2> HIDE DEF step
  <2>2. QED
    BY <1>9, <2>1 DEF Folds
<1>11. PICK g \in [0 .. n -> S] : IsRun(g, step, n, base) /\ g[n] = h[1 .. n]
  <2> HIDE DEF step
  <2>1. QED
    BY <1>1, <1>3, <1>4, <1>10, FoldIsRun
<1>12. \A i \in 1 .. n : g[i] = StartPrompt(g[i - 1], ss[i])
  <2> TAKE i \in 1 .. n
  <2>1. i - 1 \in 0 .. n /\ g[i] = step[i][g[i - 1]]
    BY <1>1, <1>11 DEF IsRun
  <2>2. g[i - 1] \in S
    BY <2>1
  <2>3. QED
    BY <2>1, <2>2
<1>13. g[0] = base /\ FoldLeft(StartPrompt, base, ss) = g[n]
  BY <1>1, <1>2, <1>11 DEF IsRun
<1>14. QED
  BY <1>12, <1>13 DEF n, S

\* The three rounds over the slots.
Stage(k, f, s) == IF k = 0 THEN Settled(f, s) ELSE IF k = 1 THEN Shifted(f, s) ELSE Filled(f, s)

\* The slots in the order of their numbers.
LEMMA InOrderIs ==
    ASSUME Plain
    PROVE  /\ InOrder \in Seq(KvSeqs) /\ Len(InOrder) \in Nat /\ KvSeqs = 0 .. Len(InOrder) - 1
           /\ \A i \in 1 .. Len(InOrder) : InOrder[i] = i - 1
<1> DEFINE N == Cardinality(KvSeqs)
<1>1. N \in Nat /\ KvSeqs = 0 .. N - 1
  <2>1. IsFiniteSet(KvSeqs) /\ KvSeqs = 0 .. N - 1
    BY KvAssumption DEF Plain
  <2>2. QED
    BY <2>1, FS_CardinalityType
<1>2. InOrder = [k \in 1 .. N |-> k - 1]
  BY DEF InOrder
<1> HIDE DEF N
<1>3. \A k \in 1 .. N : k - 1 \in KvSeqs
  BY <1>1
<1>4. InOrder \in Seq(KvSeqs) /\ Len(InOrder) = N /\ \A i \in 1 .. N : InOrder[i] = i - 1
  BY <1>1, <1>2, <1>3
<1>5. QED
  BY <1>1, <1>4

\* A round takes every slot from one stage to the next.
LEMMA StageRun ==
    ASSUME Plain, NEW k \in 0 .. 2, NEW N \in Nat, KvSeqs = 0 .. N - 1, NEW g \in [0 .. N -> FillState],
           \A i \in 1 .. N : Stage(k, g[i - 1], i - 1) => Apart(g[i - 1], g[i], i - 1) /\ Stage(k + 1, g[i], i - 1),
           \A s \in KvSeqs : Stage(k, g[0], s)
    PROVE  \A s \in KvSeqs : Stage(k + 1, g[N], s)
<1> DEFINE J(i) == \A s \in KvSeqs : IF s < i THEN Stage(k + 1, g[i], s) ELSE Stage(k, g[i], s)
           S == {i \in Nat : i <= N => J(i)}
<1>1. S \in SUBSET Nat /\ 0 \in S
  <2>1. \A s \in KvSeqs : ~(s < 0)
    OBVIOUS
  <2>2. J(0)
    BY <2>1
  <2>3. QED
    BY <2>2
<1>2. ASSUME NEW i \in S, i + 1 <= N PROVE i + 1 \in S
  <2> DEFINE j == i + 1
             t == i
  <2>1. i \in Nat /\ j \in 1 .. N /\ j - 1 = i /\ i \in 0 .. N /\ i <= N /\ t \in KvSeqs /\ j \in 0 .. N
    BY <1>2
  <2>2. J(i)
    BY <2>1
  <2>3. g[i] \in FillState /\ g[j] \in FillState
    BY <2>1
  <2>4. Stage(k, g[i], i)
    BY <2>1, <2>2
  <2>5. Apart(g[i], g[j], i) /\ Stage(k + 1, g[j], i)
    BY <2>1, <2>4
  <2>6. ASSUME NEW s \in KvSeqs PROVE IF s < j THEN Stage(k + 1, g[j], s) ELSE Stage(k, g[j], s)
    <3>1. CASE s = i
      BY <2>1, <2>5, <3>1
    <3>2. CASE s # i
      <4>1. /\ Settled(g[i], s) => Settled(g[j], s)
            /\ Shifted(g[i], s) => Shifted(g[j], s)
            /\ Filled(g[i], s) => Filled(g[j], s)
        BY <2>1, <2>3, <2>5, <3>2, ApartKeeps
      <4>2. \A c : Stage(c, g[i], s) => Stage(c, g[j], s)
        BY <4>1 DEF Stage
      <4>3. s < j <=> s < i
        <5>1. s \in Nat /\ i \in Nat
          BY <2>1
        <5>2. QED
          BY <3>2, <5>1
      <4>4. IF s < i THEN Stage(k + 1, g[i], s) ELSE Stage(k, g[i], s)
        BY <2>2
      <4>5. QED
        BY <4>2, <4>3, <4>4
    <3>3. QED
      BY <3>1, <3>2
  <2>7. J(j)
    BY <2>6
  <2> HIDE DEF J
  <2>8. QED
    BY <2>1, <2>7
<1> HIDE DEF J
<1>3. \A i \in 0 .. N : i \in S
  <2> HIDE DEF S
  <2>1. \A i \in S : i + 1 <= N => i + 1 \in S
    BY <1>2
  <2>2. QED
    BY <1>1, <2>1, InductionUpTo
<1>4. J(N)
  BY <1>3
<1>5. \A s \in KvSeqs : s < N
  OBVIOUS
<1>6. QED
  BY <1>4, <1>5 DEF J

\* The batch brings what the memory does not hold yet.
LEMMA FillBatchGood ==
    ASSUME Plain, KvInv, FillBatch
    PROVE  KvInv'
<1> DEFINE N == Len(InOrder)
           base == [m |-> kv, slot |-> kvSlot, batch |-> <<>>]
           one == FoldLeft(ShiftContext, base, InOrder)
           two == FoldLeft(SampledToken, one, InOrder)
           three == FoldLeft(StartPrompt, two, InOrder)
<1>1. /\ kvBatch = <<>> /\ kv' = three.m /\ kvSlot' = three.slot /\ kvBatch' = three.batch
      /\ mode' = mode /\ kvSaved' = kvSaved /\ nBatch' = nBatch /\ blind' = blind
  BY DEF FillBatch
<1>2. InOrder \in Seq(KvSeqs) /\ N \in Nat /\ KvSeqs = 0 .. N - 1 /\ \A i \in 1 .. N : InOrder[i] = i - 1
  BY InOrderIs
<1>3. /\ mode \in Modes /\ kv \in Memory(mode) /\ Owned(mode, kv) /\ kvSlot \in [KvSeqs -> Slot]
      /\ nBatch \in Nat \ {0} /\ kvSaved \in SUBSET Entries(mode) /\ blind = FALSE
      /\ \A s \in KvSeqs : kvSlot[s].prompt \in Seq(Int)
  BY InvParts
<1>4. \A s \in KvSeqs : SlotGood(mode, kv, kvSlot[s], s, <<>>)
  BY <1>1, SlotsGood
<1>5. base \in FillState
  <2>1. \A s \in KvSeqs : kvSlot[s].state = "start" => kvSlot[s].text \in Texts
    BY <1>4 DEF SlotGood
  <2>2. <<>> \in Seq(Token)
    OBVIOUS
  <2>3. QED
    BY <1>3, <2>1, <2>2 DEF FillState
<1>6. base.m = kv /\ base.slot = kvSlot /\ base.batch = <<>>
  OBVIOUS
<1> HIDE DEF base, N
<1>7. \A s \in KvSeqs : Stage(0, base, s)
  <2> TAKE s \in KvSeqs
  <2>1. /\ Whole(mode, kv, s, kvSlot[s].prompt, <<>>) /\ Len(kvSlot[s].prompt) <= mode.context
        /\ Unshifted(mode, kv, s)
    BY <1>4, EmptyBatch DEF SlotGood
  <2>2. Held(mode, kv, s, kvSlot[s].prompt, Len(kvSlot[s].prompt))
    BY <1>3, <2>1, EmptyBatch, AllHeld
  <2>3. Settled(base, s)
    BY <1>6, <2>1, <2>2, EmptyBatch DEF Settled
  <2>4. QED
    BY <2>3 DEF Stage
<1>8. one \in FillState /\ \A s \in KvSeqs : Stage(1, one, s)
  <2>1. PICK g \in [0 .. N -> FillState] : /\ g[0] = base /\ one = g[N]
                                           /\ \A i \in 1 .. N : g[i] = ShiftContext(g[i - 1], InOrder[i])
    BY <1>2, <1>5, ShiftRuns DEF N
  <2>2. ASSUME NEW i \in 1 .. N
        PROVE  Stage(0, g[i - 1], i - 1) => Apart(g[i - 1], g[i], i - 1) /\ Stage(0 + 1, g[i], i - 1)
    <3>1. i - 1 \in 0 .. N /\ i - 1 \in KvSeqs /\ InOrder[i] = i - 1
      BY <1>2
    <3>2. g[i - 1] \in FillState /\ g[i] = ShiftContext(g[i - 1], i - 1)
      BY <2>1, <3>1
    <3>3. Settled(g[i - 1], i - 1) => Apart(g[i - 1], g[i], i - 1) /\ Shifted(g[i], i - 1)
      BY <3>1, <3>2, ShiftStep
    <3>4. QED
      BY <3>3 DEF Stage
  <2>3. \A s \in KvSeqs : Stage(0 + 1, g[N], s)
    <3>1. 0 \in 0 .. 2
      OBVIOUS
    <3>2. QED
      BY <1>2, <1>7, <2>1, <2>2, <3>1, StageRun
  <2>4. N \in 0 .. N /\ 0 + 1 = 1
    BY <1>2
  <2>5. QED
    BY <2>1, <2>3, <2>4
<1> HIDE DEF one
<1>9. two \in FillState /\ \A s \in KvSeqs : Stage(2, two, s)
  <2>1. PICK g \in [0 .. N -> FillState] : /\ g[0] = one /\ two = g[N]
                                           /\ \A i \in 1 .. N : g[i] = SampledToken(g[i - 1], InOrder[i])
    BY <1>2, <1>8, SampledRuns DEF N
  <2>2. ASSUME NEW i \in 1 .. N
        PROVE  Stage(1, g[i - 1], i - 1) => Apart(g[i - 1], g[i], i - 1) /\ Stage(1 + 1, g[i], i - 1)
    <3>1. i - 1 \in 0 .. N /\ i - 1 \in KvSeqs /\ InOrder[i] = i - 1
      BY <1>2
    <3>2. g[i - 1] \in FillState /\ g[i] = SampledToken(g[i - 1], i - 1)
      BY <2>1, <3>1
    <3>3. Shifted(g[i - 1], i - 1) => Apart(g[i - 1], g[i], i - 1) /\ Filled(g[i], i - 1)
      BY <3>1, <3>2, SampledStep
    <3>4. QED
      BY <3>3 DEF Stage
  <2>3. \A s \in KvSeqs : Stage(1 + 1, g[N], s)
    <3>1. 1 \in 0 .. 2
      OBVIOUS
    <3>2. QED
      BY <1>2, <1>8, <2>1, <2>2, <3>1, StageRun
  <2>4. N \in 0 .. N /\ 1 + 1 = 2
    BY <1>2
  <2>5. QED
    BY <2>1, <2>3, <2>4
<1> HIDE DEF two
<1>10. three \in FillState /\ \A s \in KvSeqs : Stage(3, three, s)
  <2>1. PICK g \in [0 .. N -> FillState] : /\ g[0] = two /\ three = g[N]
                                           /\ \A i \in 1 .. N : g[i] = StartPrompt(g[i - 1], InOrder[i])
    BY <1>2, <1>9, StartRuns DEF N
  <2>2. ASSUME NEW i \in 1 .. N
        PROVE  Stage(2, g[i - 1], i - 1) => Apart(g[i - 1], g[i], i - 1) /\ Stage(2 + 1, g[i], i - 1)
    <3>1. i - 1 \in 0 .. N /\ i - 1 \in KvSeqs /\ InOrder[i] = i - 1
      BY <1>2
    <3>2. g[i - 1] \in FillState /\ g[i] = StartPrompt(g[i - 1], i - 1)
      BY <2>1, <3>1
    <3>3. Filled(g[i - 1], i - 1) => Apart(g[i - 1], g[i], i - 1) /\ Filled(g[i], i - 1)
      BY <3>1, <3>2, StartStep
    <3>4. QED
      BY <3>3 DEF Stage
  <2>3. \A s \in KvSeqs : Stage(2 + 1, g[N], s)
    <3>1. 2 \in 0 .. 2
      OBVIOUS
    <3>2. QED
      BY <1>2, <1>9, <2>1, <2>2, <3>1, StageRun
  <2>4. N \in 0 .. N /\ 2 + 1 = 3
    BY <1>2
  <2>5. QED
    BY <2>1, <2>3, <2>4
<1> HIDE DEF three
<1>11. /\ three.m \in Memory(mode) /\ Owned(mode, three.m) /\ three.slot \in [KvSeqs -> Slot] /\ three.batch \in Seq(Token)
       /\ \A s \in KvSeqs : SlotGood(mode, three.m, three.slot[s], s, three.batch)
  <2>1. \A s \in KvSeqs : Filled(three, s)
    BY <1>10 DEF Stage
  <2>2. QED
    BY <1>10, <2>1, FillParts DEF Filled
<1>12. Good(mode, three.m, three.slot, three.batch, nBatch, kvSaved, FALSE)
  BY <1>3, <1>11, GoodOf
<1>13. QED
  BY <1>1, <1>3, <1>12 DEF KvInv

-----------------------------------------------------------------------------
\* The elements of a sequence that are all of a smaller set.
LEMMA Narrowed ==
    ASSUME NEW T, NEW U, NEW c \in Seq(T), \A k \in DOMAIN c : c[k] \in U
    PROVE  c \in Seq(U)
<1>1. c \in [1 .. Len(c) -> U] /\ Len(c) \in Nat
  OBVIOUS
<1>2. QED
  BY <1>1

\* Where the elements of a thinned sequence come from.
Traced(h, new, old, kept) ==
    /\ \A i, j \in DOMAIN new : h[i] = h[j] => i = j
    /\ \A k \in kept : \E i \in DOMAIN new : h[i] = k
    /\ \A i \in DOMAIN new : h[i] \in kept /\ new[i] = old[h[i]]

LEMMA ThinnedTraced ==
    ASSUME NEW T, NEW new \in Seq(T), NEW old \in Seq(T),
           NEW kept \in SUBSET DOMAIN old, Thinned(new, old, kept)
    PROVE  \E h \in [DOMAIN new -> kept] : Traced(h, new, old, kept)
BY ThinnedFrom DEF Traced

\* What is saved of a slot that holds its whole prompt without a shift.
LEMMA EntryIs ==
    ASSUME Plain, NEW m \in Memory(mode), NEW s \in KvSeqs, NEW tokens \in Seq(Int), NEW n \in Nat, n = Len(tokens),
           n <= mode.context, Held(mode, m, s, tokens, n), Unshifted(mode, m, s)
    PROVE  Entry(m, s, tokens) \in Entries(mode)
<1> DEFINE st == StreamOf(s)
           T == [pos : Int, row : Row]
           U == [pos : Nat, row : Row]
           C == mode.cells
           all == [k \in 1 .. C |-> [pos |-> m.cells[st][k - 1].pos, row |-> m.rows[st][k - 1]]]
           kept == {k \in DOMAIN all : k - 1 \in Holding(m, s)}
           c == SubseqAt(all, kept)
<1>1. Entry(m, s, tokens) = [tokens |-> tokens, cells |-> c]
  BY DEF Entry
<1>2. /\ mode \in Modes /\ C \in Nat /\ CellsOf(mode) = 0 .. C - 1 /\ st = StreamIn(mode, s) /\ st \in KvSeqs
      /\ Holding(m, s) = HeldBy(mode, m, s)
  BY Facts DEF Plain, CellsOf
<1> HIDE DEF C, st
<1>3. ASSUME NEW k \in 1 .. C
      PROVE  /\ k - 1 \in CellsOf(mode) /\ all[k] \in T
             /\ all[k].pos = m.cells[st][k - 1].pos /\ all[k].row = m.rows[st][k - 1]
  <2>1. k - 1 \in CellsOf(mode)
    BY <1>2
  <2>2. all[k] = [pos |-> m.cells[st][k - 1].pos, row |-> m.rows[st][k - 1]]
    OBVIOUS
  <2>3. m.cells[st][k - 1].pos \in Int /\ m.rows[st][k - 1] \in Row
    BY <1>2, <2>1, MemoryParts
  <2> HIDE DEF all
  <2>4. QED
    BY <2>1, <2>2, <2>3
<1>4. all \in Seq(T) /\ DOMAIN all = 1 .. C
  <2>1. all = [k \in 1 .. C |-> all[k]]
    OBVIOUS
  <2> HIDE DEF all, T
  <2>2. all \in [1 .. C -> T]
    BY <1>3, <2>1
  <2>3. QED
    BY <1>2, <2>2
<1>5. kept \in SUBSET DOMAIN all /\ \A k : k \in kept <=> k \in 1 .. C /\ k - 1 \in HeldBy(mode, m, s)
  BY <1>2, <1>4
<1> HIDE DEF all, kept, T
<1>6. c \in Seq(T) /\ Thinned(c, all, kept)
  BY <1>4, <1>5, SubseqThins
<1> HIDE DEF c
<1>7. all \in Seq(T) /\ c \in Seq(T) /\ kept \in SUBSET DOMAIN all /\ Thinned(c, all, kept)
  BY <1>4, <1>5, <1>6
<1>8. PICK h \in [DOMAIN c -> kept] :
         /\ \A i, j \in DOMAIN c : h[i] = h[j] => i = j
         /\ \A k \in kept : \E i \in DOMAIN c : h[i] = k
         /\ \A i \in DOMAIN c : h[i] \in kept /\ c[i] = all[h[i]]
  <2>1. \E h \in [DOMAIN c -> kept] : Traced(h, c, all, kept)
    BY <1>7, ThinnedTraced
  <2>2. QED
    BY <2>1 DEF Traced
<1>9. ASSUME NEW i \in HeldBy(mode, m, s)
      PROVE  /\ m.cells[st][i].pos \in 0 .. n - 1
             /\ m.rows[st][i] = [token |-> tokens[m.cells[st][i].pos + 1], at |-> m.cells[st][i].pos]
  <2>1. i \in CellsOf(mode)
    BY DEF HeldBy
  <2>2. m.rows[st][i] \in Row /\ m.rows[st][i].at \in Int
    BY <1>2, <2>1, MemoryParts
  <2>3. /\ m.cells[st][i].pos \in 0 .. n - 1 /\ m.rows[st][i].token = tokens[m.cells[st][i].pos + 1]
        /\ m.rows[st][i].at + m.cells[st][i].shift = m.cells[st][i].pos /\ m.cells[st][i].shift = 0
    BY <1>2 DEF Held, Unshifted
  <2>4. m.rows[st][i].at = m.cells[st][i].pos
    BY <2>2, <2>3
  <2>5. m.rows[st][i] = [token |-> m.rows[st][i].token, at |-> m.rows[st][i].at]
    BY <2>2 DEF Row
  <2>6. QED
    BY <2>3, <2>4, <2>5
<1>10. ASSUME NEW i \in DOMAIN c
      PROVE  /\ h[i] \in kept /\ h[i] - 1 \in HeldBy(mode, m, s) /\ h[i] \in Int
             /\ c[i].pos = m.cells[st][h[i] - 1].pos /\ c[i].pos \in 0 .. n - 1
             /\ c[i].row = [token |-> tokens[c[i].pos + 1], at |-> c[i].pos]
  <2> DEFINE k == h[i]
  <2>1. k \in kept /\ c[i] = all[k]
    BY <1>8
  <2> HIDE DEF k
  <2>2. k \in 1 .. C /\ k - 1 \in HeldBy(mode, m, s)
    BY <1>5, <2>1
  <2>3. c[i].pos = m.cells[st][k - 1].pos /\ c[i].row = m.rows[st][k - 1]
    BY <1>3, <2>1, <2>2
  <2> DEFINE j == k - 1
  <2>4. j \in HeldBy(mode, m, s) /\ c[i].pos = m.cells[st][j].pos /\ c[i].row = m.rows[st][j] /\ k \in Int
    BY <2>2, <2>3
  <2> HIDE DEF j
  <2>5. c[i].pos \in 0 .. n - 1 /\ c[i].row = [token |-> tokens[c[i].pos + 1], at |-> c[i].pos]
    BY <1>9, <2>4
  <2>6. QED
    BY <2>1, <2>2, <2>3, <2>4, <2>5 DEF k
<1>11. c \in Seq(U)
  <2>1. ASSUME NEW i \in DOMAIN c PROVE c[i] \in U
    <3>1. c[i] \in T
      BY <1>6
    <3>2. c[i].pos \in Nat
      <4>1. c[i].pos \in 0 .. n - 1
        BY <1>10
      <4>2. QED
        BY <4>1
    <3>3. QED
      BY <3>1, <3>2 DEF T
  <2> HIDE DEF U
  <2>2. QED
    BY <1>6, <2>1, Narrowed
<1>12. \A i, j \in DOMAIN c : c[i].pos = c[j].pos => i = j
  <2> TAKE i \in DOMAIN c, j \in DOMAIN c
  <2> HAVE c[i].pos = c[j].pos
  <2> DEFINE a == h[i] - 1
             b == h[j] - 1
  <2>1. a \in HeldBy(mode, m, s) /\ b \in HeldBy(mode, m, s) /\ m.cells[st][a].pos = m.cells[st][b].pos
    BY <1>10
  <2> HIDE DEF a, b
  <2>2. a = b
    BY <1>2, <2>1 DEF Held
  <2>3. h[i] \in Int /\ h[j] \in Int /\ h[i] - 1 = h[j] - 1
    BY <1>10, <2>2 DEF a, b
  <2>4. h[i] = h[j]
    BY <2>3
  <2>5. QED
    BY <1>8, <2>4
<1>13. ASSUME NEW q \in 0 .. n - 1 PROVE \E k \in DOMAIN c : c[k].pos = q
  <2>1. PICK i \in HeldBy(mode, m, s) : m.cells[st][i].pos = q
    BY <1>2 DEF Held
  <2> DEFINE k == i + 1
  <2>2. i \in 0 .. C - 1
    BY <1>2 DEF HeldBy
  <2>3. k \in 1 .. C /\ k - 1 = i
    BY <1>2, <2>2
  <2> HIDE DEF k
  <2>4. k \in kept
    BY <1>5, <2>3
  <2>5. PICK j \in DOMAIN c : h[j] = k
    BY <1>8, <2>4
  <2>6. c[j].pos = m.cells[st][k - 1].pos
    BY <1>10, <2>5
  <2>7. QED
    BY <2>1, <2>3, <2>6
<1> DEFINE e == [tokens |-> tokens, cells |-> c]
<1>14. e.tokens = tokens /\ e.cells = c /\ e \in [tokens : Seq(Int), cells : Seq(U)]
  BY <1>11
<1> HIDE DEF e
<1>15. TrueEntry(mode, e)
  <2>1. \A k \in DOMAIN c : c[k].pos < n
    <3> TAKE k \in DOMAIN c
    <3>1. c[k].pos \in 0 .. n - 1
      BY <1>10
    <3>2. QED
      BY <3>1
  <2>2. QED
    BY <1>10, <1>12, <1>13, <1>14, <2>1 DEF TrueEntry
<1>16. QED
  BY <1>1, <1>14, <1>15 DEF Entries, U, e

\* The cache in RAM holds whole prompts after a save too.
LEMMA SavedWithIs ==
    ASSUME Plain, NEW list \in SUBSET Entries(mode), NEW m \in Memory(mode), NEW s \in KvSeqs, NEW tokens \in Seq(Int),
           Len(tokens) <= mode.context, Held(mode, m, s, tokens, Len(tokens)), Unshifted(mode, m, s)
    PROVE  SavedWith(list, m, s, tokens) \in SUBSET SUBSET Entries(mode)
<1>1. Entry(m, s, tokens) \in Entries(mode)
  <2> DEFINE n == Len(tokens)
  <2>1. n \in Nat /\ n = Len(tokens) /\ n <= mode.context /\ Held(mode, m, s, tokens, n)
    OBVIOUS
  <2> HIDE DEF n
  <2>2. QED
    BY <2>1, EntryIs
<1> DEFINE new == Entry(m, s, tokens)
           others == {e \in list : ~IsPrefix(e.tokens, tokens)}
<1>2. others \union {new} \in SUBSET Entries(mode) /\ \A e \in others : (others \ {e}) \union {new} \in SUBSET Entries(mode)
  BY <1>1
<1> HIDE DEF new, others
<1>3. SavedWith(list, m, s, tokens) =
        IF tokens = <<>> \/ \E e \in list : IsPrefix(tokens, e.tokens) THEN {list}
        ELSE IF Cardinality(others) < MaxEntries THEN {others \union {new}}
             ELSE {(others \ {e}) \union {new} : e \in others}
  BY DEF SavedWith, new, others
<1>4. QED
  BY <1>2, <1>3

-----------------------------------------------------------------------------
EntryParts(e) ==
    /\ e.tokens \in Seq(Int) /\ e.cells \in Seq([pos : Nat, row : Row]) /\ TrueEntry(mode, e)

\* An entry and what its parts are.
LEMMA EntryHas ==
    ASSUME NEW e \in Entries(mode)
    PROVE  /\ EntryParts(e) /\ Len(e.tokens) \in Nat /\ Len(e.tokens) <= mode.context
           /\ \A k \in DOMAIN e.cells :
                 /\ e.cells[k].pos \in Nat /\ e.cells[k].pos < Len(e.tokens) /\ e.cells[k].row \in Row
                 /\ e.cells[k].row.token = e.tokens[e.cells[k].pos + 1] /\ e.cells[k].row.at = e.cells[k].pos
                 /\ e.cells[k].row.token \in Int
           /\ \A j, k \in DOMAIN e.cells : e.cells[j].pos = e.cells[k].pos => j = k
           /\ \A q \in 0 .. Len(e.tokens) - 1 : \E k \in DOMAIN e.cells : e.cells[k].pos = q
<1>1. EntryParts(e)
  BY DEF Entries, EntryParts
<1>2. Len(e.tokens) \in Nat /\ Len(e.tokens) <= mode.context
  BY <1>1 DEF EntryParts, TrueEntry
<1>3. ASSUME NEW k \in DOMAIN e.cells
      PROVE  /\ e.cells[k].pos \in Nat /\ e.cells[k].pos < Len(e.tokens) /\ e.cells[k].row \in Row
             /\ e.cells[k].row.token = e.tokens[e.cells[k].pos + 1] /\ e.cells[k].row.at = e.cells[k].pos
             /\ e.cells[k].row.token \in Int
  <2> DEFINE U == [pos : Nat, row : Row]
             c == e.cells
  <2>1. c \in Seq(U) /\ k \in DOMAIN c
    BY <1>1 DEF EntryParts
  <2> HIDE DEF U, c
  <2>2. c[k] \in U
    BY <2>1
  <2>3. e.cells[k] \in [pos : Nat, row : Row]
    BY <2>2 DEF U, c
  <2>4. e.cells[k].pos \in Nat /\ e.cells[k].row \in Row
    BY <2>3
  <2>5. e.cells[k].pos < Len(e.tokens) /\ e.cells[k].row = [token |-> e.tokens[e.cells[k].pos + 1], at |-> e.cells[k].pos]
    BY <1>1 DEF EntryParts, TrueEntry
  <2>6. e.cells[k].row.token = e.tokens[e.cells[k].pos + 1] /\ e.cells[k].row.at = e.cells[k].pos
    BY <2>5
  <2>7. e.cells[k].row.token \in Int
    BY <2>4 DEF Row
  <2>8. QED
    BY <2>4, <2>5, <2>6, <2>7
<1>4. \A j, k \in DOMAIN e.cells : e.cells[j].pos = e.cells[k].pos => j = k
  BY <1>1 DEF EntryParts, TrueEntry
<1>5. \A q \in 0 .. Len(e.tokens) - 1 : \E k \in DOMAIN e.cells : e.cells[k].pos = q
  BY <1>1 DEF EntryParts, TrueEntry
<1>6. QED
  BY <1>1, <1>2, <1>3, <1>4, <1>5

\* The cells of a saved prompt, as the tokens of a batch.
Brought(e, s) == [k \in DOMAIN e.cells |-> [seq |-> s, pos |-> e.cells[k].pos, token |-> e.cells[k].row.token]]

\* They are tokens, with the rows that the entry has for them.
LEMMA BroughtIs ==
    ASSUME NEW e \in Entries(mode), NEW s \in KvSeqs
    PROVE  /\ Brought(e, s) \in Seq(Token) /\ DOMAIN Brought(e, s) = DOMAIN e.cells
           /\ \A k \in DOMAIN e.cells :
                 /\ Brought(e, s)[k] \in Token /\ Brought(e, s)[k].seq = s /\ Brought(e, s)[k].pos = e.cells[k].pos
                 /\ TokenRow(Brought(e, s)[k]) = e.cells[k].row
           /\ e.tokens # <<>> => Brought(e, s) # <<>>
<1> DEFINE b == Brought(e, s)
<1>1. DOMAIN e.cells = 1 .. Len(e.cells) /\ Len(e.cells) \in Nat
  BY EntryHas DEF EntryParts
<1>2. b = [k \in 1 .. Len(e.cells) |-> [seq |-> s, pos |-> e.cells[k].pos, token |-> e.cells[k].row.token]]
  BY <1>1 DEF Brought
<1>3. ASSUME NEW k \in DOMAIN e.cells
      PROVE  /\ b[k] \in Token /\ b[k].seq = s /\ b[k].pos = e.cells[k].pos
             /\ TokenRow(b[k]) = e.cells[k].row
  <2>1. b[k] = [seq |-> s, pos |-> e.cells[k].pos, token |-> e.cells[k].row.token]
    BY <1>1, <1>2
  <2>2. /\ e.cells[k].pos \in Nat /\ e.cells[k].row \in Row /\ e.cells[k].row.at = e.cells[k].pos
        /\ e.cells[k].row.token \in Int
    BY EntryHas
  <2>3. e.cells[k].row = [token |-> e.cells[k].row.token, at |-> e.cells[k].pos]
    BY <2>2 DEF Row
  <2> HIDE DEF b
  <2>4. b[k].seq = s /\ b[k].pos = e.cells[k].pos /\ b[k].token = e.cells[k].row.token
    BY <2>1
  <2>5. b[k] \in Token
    BY <2>1, <2>2 DEF Token
  <2>6. TokenRow(b[k]) = e.cells[k].row
    BY <2>3, <2>4 DEF TokenRow
  <2>7. QED
    BY <2>4, <2>5, <2>6
<1> HIDE DEF b
<1>4. b \in Seq(Token) /\ DOMAIN b = DOMAIN e.cells
  <2>1. DOMAIN b = 1 .. Len(e.cells) /\ b \in [1 .. Len(e.cells) -> Token]
    BY <1>1, <1>2, <1>3
  <2>2. QED
    BY <1>1, <2>1
<1>5. ASSUME e.tokens # <<>> PROVE b # <<>>
  <2>1. e.tokens \in Seq(Int)
    BY EntryHas DEF EntryParts
  <2>2. 0 \in 0 .. Len(e.tokens) - 1
    BY <1>5, <2>1
  <2>3. \E k \in DOMAIN e.cells : e.cells[k].pos = 0
    BY <2>2, EntryHas
  <2>4. DOMAIN b # {}
    BY <1>4, <2>3
  <2>5. QED
    BY <2>4
<1>6. QED
  BY <1>3, <1>4, <1>5 DEF b

\* What is written for a prompt into a memory that holds nothing of the sequence.
LEMMA WholeWritten ==
    ASSUME Plain, NEW m \in Memory(mode), Owned(mode, m), NEW s \in KvSeqs, HeldBy(mode, m, s) = {},
           NEW e \in Entries(mode), NEW idx, Placement(mode, m, Brought(e, s), idx),
           NEW new, Writes(mode, m, new, Brought(e, s), idx)
    PROVE  /\ Held(mode, new, s, e.tokens, Len(e.tokens)) /\ Unshifted(mode, new, s)
           /\ \A t \in KvSeqs : t # s => SameOf(mode, m, new, t)
<1> DEFINE b == Brought(e, s)
           st == StreamIn(mode, s)
           n == Len(e.tokens)
<1>1. mode \in Modes /\ st \in KvSeqs /\ \A t \in KvSeqs : StreamIn(mode, t) \in KvSeqs
  BY Facts DEF Plain
<1>2. /\ DOMAIN b = DOMAIN e.cells
      /\ \A k \in DOMAIN e.cells : b[k] \in Token /\ b[k].seq = s /\ b[k].pos = e.cells[k].pos /\ TokenRow(b[k]) = e.cells[k].row
  BY BroughtIs
<1>3. /\ n \in Nat
      /\ \A k \in DOMAIN e.cells :
            /\ e.cells[k].pos \in Nat /\ e.cells[k].pos < n
            /\ e.cells[k].row.token = e.tokens[e.cells[k].pos + 1] /\ e.cells[k].row.at = e.cells[k].pos
      /\ \A j, k \in DOMAIN e.cells : e.cells[j].pos = e.cells[k].pos => j = k
      /\ \A q \in 0 .. n - 1 : \E k \in DOMAIN e.cells : e.cells[k].pos = q
  BY EntryHas
<1> HIDE DEF b, n
<1>4. ASSUME NEW k \in DOMAIN e.cells
      PROVE  /\ idx[k] \in CellsOf(mode) /\ m.cells[st][idx[k]] = Free
             /\ new.cells[st][idx[k]] = TokenCell(b[k]) /\ new.rows[st][idx[k]] = TokenRow(b[k])
             /\ new.cells[st][idx[k]].pos = e.cells[k].pos /\ new.cells[st][idx[k]].seqs = {s}
             /\ new.cells[st][idx[k]].shift = 0 /\ new.rows[st][idx[k]] = e.cells[k].row
             /\ idx[k] \in HeldBy(mode, new, s)
  <2>1. k \in DOMAIN b /\ b[k] \in Token /\ b[k].seq = s /\ b[k].pos = e.cells[k].pos /\ TokenRow(b[k]) = e.cells[k].row
    BY <1>2
  <2>2. idx[k] \in CellsOf(mode) /\ m.cells[st][idx[k]] = Free
    BY <2>1 DEF Placement, b
  <2>3. new.cells[st][idx[k]] = TokenCell(b[k]) /\ new.rows[st][idx[k]] = TokenRow(b[k])
    BY <2>1 DEF Writes, b
  <2>4. TokenCell(b[k]).pos = e.cells[k].pos /\ TokenCell(b[k]).seqs = {s} /\ TokenCell(b[k]).shift = 0
    BY <2>1, TokenCellType
  <2>5. QED
    BY <2>1, <2>2, <2>3, <2>4 DEF HeldBy
<1>5. ASSUME NEW i \in CellsOf(mode), NEW z \in KvSeqs, \A k \in DOMAIN e.cells : z = st => idx[k] # i
      PROVE  new.cells[z][i] = m.cells[z][i] /\ new.rows[z][i] = m.rows[z][i]
  <2>1. ~Taking(mode, b, idx, z, i)
    BY <1>2, <1>5 DEF Taking
  <2>2. QED
    BY <2>1 DEF Writes, b
<1>6. ASSUME NEW i \in HeldBy(mode, new, s) PROVE \E k \in DOMAIN e.cells : idx[k] = i
  <2>1. SUFFICES ASSUME \A k \in DOMAIN e.cells : idx[k] # i PROVE FALSE
    OBVIOUS
  <2>2. i \in CellsOf(mode) /\ s \in new.cells[st][i].seqs
    BY DEF HeldBy
  <2>3. new.cells[st][i] = m.cells[st][i]
    BY <1>1, <1>5, <2>1, <2>2
  <2>4. i \in HeldBy(mode, m, s)
    BY <2>2, <2>3 DEF HeldBy
  <2>5. QED
    BY <2>4
<1>7. Held(mode, new, s, e.tokens, n)
  <2>1. ASSUME NEW i \in HeldBy(mode, new, s)
        PROVE  LET c == new.cells[st][i]
                   r == new.rows[st][i]
               IN c.pos \in 0 .. n - 1 /\ r.token = e.tokens[c.pos + 1] /\ r.at + c.shift = c.pos
    <3>1. PICK k \in DOMAIN e.cells : idx[k] = i
      BY <1>6
    <3>2. /\ new.cells[st][i].pos = e.cells[k].pos /\ new.cells[st][i].shift = 0 /\ new.rows[st][i] = e.cells[k].row
      BY <1>4, <3>1
    <3>3. /\ e.cells[k].pos \in Nat /\ e.cells[k].pos < n
          /\ e.cells[k].row.token = e.tokens[e.cells[k].pos + 1] /\ e.cells[k].row.at = e.cells[k].pos
      BY <1>3
    <3>4. QED
      BY <1>3, <3>2, <3>3
  <2>2. ASSUME NEW i \in HeldBy(mode, new, s), NEW j \in HeldBy(mode, new, s), new.cells[st][i].pos = new.cells[st][j].pos
        PROVE  i = j
    <3>1. PICK k \in DOMAIN e.cells : idx[k] = i
      BY <1>6
    <3>2. PICK l \in DOMAIN e.cells : idx[l] = j
      BY <1>6
    <3>3. e.cells[k].pos = e.cells[l].pos
      BY <1>4, <2>2, <3>1, <3>2
    <3>4. k = l
      BY <1>3, <3>3
    <3>5. QED
      BY <3>1, <3>2, <3>4
  <2>3. ASSUME NEW q \in 0 .. n - 1 PROVE \E i \in HeldBy(mode, new, s) : new.cells[st][i].pos = q
    <3>1. PICK k \in DOMAIN e.cells : e.cells[k].pos = q
      BY <1>3
    <3>2. QED
      BY <1>4, <3>1
  <2>4. QED
    BY <2>1, <2>2, <2>3 DEF Held
<1>8. Unshifted(mode, new, s)
  BY <1>4, <1>6 DEF Unshifted
<1>9. ASSUME NEW t \in KvSeqs, t # s PROVE SameOf(mode, m, new, t)
  <2> DEFINE z == StreamIn(mode, t)
  <2>1. z \in KvSeqs
    BY <1>1
  <2>2. ASSUME NEW i \in HeldBy(mode, m, t)
        PROVE  new.cells[z][i] = m.cells[z][i] /\ new.rows[z][i] = m.rows[z][i] /\ i \in HeldBy(mode, new, t)
    <3>1. i \in CellsOf(mode) /\ t \in m.cells[z][i].seqs
      BY DEF HeldBy
    <3>2. m.cells[z][i] # Free
      BY <3>1, FreeCell
    <3>3. \A k \in DOMAIN e.cells : z = st => idx[k] # i
      BY <1>4, <3>2
    <3>4. new.cells[z][i] = m.cells[z][i] /\ new.rows[z][i] = m.rows[z][i]
      BY <1>5, <2>1, <3>1, <3>3
    <3>5. QED
      BY <3>1, <3>4 DEF HeldBy
  <2>3. ASSUME NEW i \in HeldBy(mode, new, t) PROVE i \in HeldBy(mode, m, t)
    <3>1. i \in CellsOf(mode) /\ t \in new.cells[z][i].seqs
      BY DEF HeldBy
    <3>2. \A k \in DOMAIN e.cells : z = st => idx[k] # i
      BY <1>4, <1>9, <3>1
    <3>3. new.cells[z][i] = m.cells[z][i]
      BY <1>5, <2>1, <3>1, <3>2
    <3>4. QED
      BY <3>1, <3>3 DEF HeldBy
  <2>4. HeldBy(mode, new, t) = HeldBy(mode, m, t)
    BY <2>2, <2>3
  <2>5. QED
    BY <2>2, <2>4 DEF SameOf
<1>10. QED
  BY <1>7, <1>8, <1>9 DEF n

\* Reading an entry is computing its tokens in the cells found for them.
LEMMA LoadedIs ==
    ASSUME Plain, NEW m \in Memory(mode), Owned(mode, m), NEW s \in KvSeqs, NEW prompt, NEW n \in Nat,
           n <= mode.context, Held(mode, m, s, prompt, n), NEW e \in Entries(mode), e.tokens # <<>>
    PROVE  LET l == LoadedEntry(m, s, e)
           IN /\ l.m \in Memory(mode) /\ Owned(mode, l.m) /\ l.ok \in BOOLEAN
              /\ \A t \in KvSeqs : t # s => SameOf(mode, m, l.m, t)
              /\ l.ok => Held(mode, l.m, s, e.tokens, Len(e.tokens)) /\ Unshifted(mode, l.m, s)
              /\ ~l.ok => \A other : Held(mode, l.m, s, other, 0)
<1> DEFINE m0 == SeqRmRange(m, s, 0, All)
           b == Brought(e, s)
           idx == FindSlot(m0, b)
           st == StreamOf(s)
           mine(i) == {k \in DOMAIN b : idx[k] = i}
           put == ApplyUbatch(m0, b, idx)
           row == [i \in KvCells |-> IF mine(i) = {} THEN put.rows[st][i] ELSE e.cells[Min(mine(i))].row]
           c == [put EXCEPT !.rows[st] = row]
           l == LoadedEntry(m, s, e)
<1>1. l = IF b # <<>> /\ idx = <<>> THEN [ok |-> FALSE, m |-> m0] ELSE [ok |-> TRUE, m |-> c]
  BY DEF LoadedEntry, Brought
<1>2. b # <<>> /\ b \in Seq(Token)
  BY BroughtIs
<1>3. m0 \in Memory(mode) /\ Owned(mode, m0) /\ Held(mode, m0, s, prompt, 0)
      /\ \A t \in KvSeqs : t # s => SameOf(mode, m, m0, t)
  <2>1. 0 \in Nat /\ (IF 0 < n THEN 0 ELSE n) = 0
    OBVIOUS
  <2>2. QED
    BY <2>1, SeqRmSpares
<1>4. HeldBy(mode, m0, s) = {} /\ \A other : Held(mode, m0, s, other, 0)
  BY <1>3, NothingHeld
<1> HIDE DEF m0, b, idx, l
<1>5. CASE idx = <<>>
  <2>1. l = [ok |-> FALSE, m |-> m0]
    BY <1>1, <1>2, <1>5
  <2>2. l.ok = FALSE /\ l.m = m0
    BY <2>1
  <2>3. QED
    BY <1>3, <1>4, <2>2 DEF l
<1>6. CASE idx # <<>>
  <2>1. Placement(mode, m0, b, idx)
    BY <1>2, <1>3, <1>6, FindSlotPlaces DEF idx
  <2>2. Writes(mode, m0, Computed(m0, b, idx), b, idx) /\ Owned(mode, Computed(m0, b, idx))
    BY <1>2, <1>3, <2>1, ComputedWrites
  <2>3. put \in Memory(mode)
    BY <1>2, <1>3, <2>1, ApplyPuts DEF Puts
  <2>4. KvCells = CellsOf(mode) /\ st \in KvSeqs /\ mode \in Modes /\ \A k \in DOMAIN b : At(b, k) = st /\ k \in Int
    <3>1. KvCells = CellsOf(mode) /\ st \in KvSeqs /\ mode \in Modes
      BY Facts DEF Plain
    <3>2. \A k \in DOMAIN b : b[k].seq = s /\ k \in Int
      BY <1>2, BroughtIs DEF b
    <3>3. QED
      BY <3>1, <3>2 DEF At
  <2> DEFINE all == [z \in KvSeqs |-> [i \in KvCells |->
                        IF {k \in DOMAIN b : At(b, k) = z /\ idx[k] = i} = {} THEN put.rows[z][i]
                        ELSE LET k == Min({j \in DOMAIN b : At(b, j) = z /\ idx[j] = i})
                             IN [token |-> b[k].token, at |-> b[k].pos]]]
  <2>5. Computed(m0, b, idx) = [put EXCEPT !.rows = all]
    BY DEF Computed
  <2>6. put.rows \in [KvSeqs -> [CellsOf(mode) -> Row]]
    BY <2>3, <2>4, MemoryParts
  <2> HIDE DEF put
  <2>7. all = [put.rows EXCEPT ![st] = row]
    <3> DEFINE rows == put.rows
    <3>1. ASSUME NEW z \in KvSeqs, z # st PROVE all[z] = rows[z]
      <4>1. ASSUME NEW i \in KvCells PROVE {k \in DOMAIN b : At(b, k) = z /\ idx[k] = i} = {}
        BY <2>4, <3>1
      <4>2. all[z] = [i \in KvCells |-> rows[z][i]]
        BY <4>1
      <4>3. rows[z] \in [KvCells -> Row]
        BY <2>4, <2>6
      <4> HIDE DEF all, rows
      <4>4. QED
        BY <4>2, <4>3
    <3>2. all[st] = row
      <4>1. ASSUME NEW i \in KvCells PROVE all[st][i] = row[i]
        <5>1. {k \in DOMAIN b : At(b, k) = st /\ idx[k] = i} = mine(i)
          BY <2>4
        <5>2. CASE mine(i) = {}
          BY <2>4, <5>1, <5>2
        <5>3. CASE mine(i) # {}
          <6>1. PICK k \in DOMAIN b : idx[k] = i
            BY <5>3
          <6>2. mine(i) = {k}
            BY <2>1, <2>4, <6>1 DEF Placement, At, StreamIn, StreamOf
          <6>3. Min({k}) = k
            <7>1. k \in Int
              BY <2>4
            <7>2. QED
              BY <7>1 DEF Min
          <6>4. all[st][i] = LET j == Min(mine(i)) IN [token |-> b[j].token, at |-> b[j].pos]
            BY <2>4, <5>1, <5>3
          <6>5. row[i] = e.cells[Min(mine(i))].row
            BY <5>3
          <6>6. [token |-> b[k].token, at |-> b[k].pos] = e.cells[k].row
            BY BroughtIs DEF b, TokenRow
          <6> HIDE DEF all, row, mine
          <6>7. QED
            BY <6>2, <6>3, <6>4, <6>5, <6>6
        <5>4. QED
          BY <5>2, <5>3
      <4>2. all[st] = [i \in KvCells |-> all[st][i]] /\ row = [i \in KvCells |-> row[i]]
        BY <2>4
      <4> HIDE DEF all, row
      <4>3. QED
        BY <4>1, <4>2
    <3>3. all = [z \in KvSeqs |-> all[z]]
      OBVIOUS
    <3>4. rows = [z \in KvSeqs |-> rows[z]]
      BY <2>6
    <3> HIDE DEF all, row, rows
    <3>5. all = [rows EXCEPT ![st] = row]
      BY <2>4, <3>1, <3>2, <3>3, <3>4
    <3>6. QED
      BY <3>5 DEF rows
  <2>8. c = Computed(m0, b, idx)
    <3> HIDE DEF all, row
    <3>1. c = [put EXCEPT !.rows = [put.rows EXCEPT ![st] = row]]
      OBVIOUS
    <3> HIDE DEF c
    <3>2. QED
      BY <2>5, <2>7, <3>1
  <2> HIDE DEF c
  <2>9. l.ok = TRUE /\ l.m = c
    BY <1>1, <1>6
  <2>10. c \in Memory(mode) /\ Owned(mode, c) /\ Writes(mode, m0, c, b, idx)
    BY <2>2, <2>8 DEF Writes
  <2>11. /\ Held(mode, c, s, e.tokens, Len(e.tokens)) /\ Unshifted(mode, c, s)
         /\ \A t \in KvSeqs : t # s => SameOf(mode, m0, c, t)
    BY <1>3, <1>4, <2>1, <2>10, WholeWritten DEF b
  <2>12. \A t \in KvSeqs : t # s => SameOf(mode, m, c, t)
    BY <1>3, <2>11 DEF SameOf
  <2>13. QED
    BY <2>9, <2>10, <2>11, <2>12 DEF l
<1>7. QED
  BY <1>5, <1>6

-----------------------------------------------------------------------------
\* Between two batches the memory holds all prompts.
LEMMA BetweenHeld ==
    ASSUME Plain, KvInv, kvBatch = <<>>, NEW s \in KvSeqs
    PROVE  /\ Held(mode, kv, s, kvSlot[s].prompt, Len(kvSlot[s].prompt)) /\ Unshifted(mode, kv, s)
           /\ Len(kvSlot[s].prompt) <= mode.context
           /\ kvSlot[s].state = "start" => kvSlot[s].text \in Texts
<1>1. SlotGood(mode, kv, kvSlot[s], s, <<>>)
  BY SlotsGood
<1>2. kvSlot[s].prompt \in Seq(Int)
  BY InvParts
<1>3. Whole(mode, kv, s, kvSlot[s].prompt, <<>>) /\ Unshifted(mode, kv, s)
  BY <1>1, EmptyBatch DEF SlotGood
<1>4. Held(mode, kv, s, kvSlot[s].prompt, Len(kvSlot[s].prompt))
  BY <1>2, <1>3, EmptyBatch, AllHeld
<1>5. QED
  BY <1>1, <1>3, <1>4 DEF SlotGood

\* A slot that takes a task, with its own prompt or with an entry of the cache.
Fresh(s, m, prompt, list) ==
    /\ m \in Memory(mode) /\ Owned(mode, m) /\ list \in SUBSET Entries(mode)
    /\ prompt \in Seq(Int) /\ Len(prompt) <= mode.context
    /\ Held(mode, m, s, prompt, Len(prompt)) /\ Unshifted(mode, m, s)
    /\ \A t \in KvSeqs : t # s => SameOf(mode, kv, m, t)

\* Its own prompt, an entry that was read, or nothing when that fails.
LEMMA RefreshedIs ==
    ASSUME Plain, KvInv, kvBatch = <<>>, NEW s \in KvSeqs, NEW text \in Texts, NEW r \in Refreshed(s, text)
    PROVE  Fresh(s, r[1].m, r[1].prompt, r[2])
<1> DEFINE prompt == kvSlot[s].prompt
           old == [m |-> kv, prompt |-> prompt]
           saves == SavedWith(kvSaved, kv, s, prompt)
           better(list) == {x \in list : Lcp(x.tokens, text) > Lcp(prompt, text)}
           read(e, list) == LET l == LoadedEntry(kv, s, e)
                            IN IF l.ok THEN <<[m |-> l.m, prompt |-> e.tokens], list \ {e}>>
                               ELSE <<[m |-> SeqRmRange(l.m, s, 0, All), prompt |-> <<>>], list>>
<1>1. /\ kv \in Memory(mode) /\ Owned(mode, kv) /\ kvSaved \in SUBSET Entries(mode) /\ prompt \in Seq(Int)
      /\ Len(prompt) \in Nat
  BY InvParts
<1>2. /\ Held(mode, kv, s, prompt, Len(prompt)) /\ Unshifted(mode, kv, s) /\ Len(prompt) <= mode.context
  BY BetweenHeld
<1>3. \A t \in KvSeqs : SameOf(mode, kv, kv, t)
  BY DEF SameOf
<1>4. \/ r = <<old, kvSaved>>
      \/ \E list \in saves : r = <<old, list>> \/ \E e \in better(list) : r = read(e, list)
  <2> HIDE DEF saves
  <2>1. Refreshed(s, text) =
          {<<old, kvSaved>>} \union (IF ~mode.ram THEN {}
              ELSE UNION {{<<old, list>>} \union {read(e, list) : e \in better(list)} : list \in saves})
    BY DEF Refreshed, saves
  <2> HIDE DEF old, better, read
  <2>2. r \in {<<old, kvSaved>>} \/ r \in UNION {{<<old, list>>} \union {read(e, list) : e \in better(list)} : list \in saves}
    BY <2>1
  <2>3. QED
    BY <2>2
<1> HIDE DEF prompt
<1>5. saves \in SUBSET SUBSET Entries(mode)
  BY <1>1, <1>2, SavedWithIs
<1> HIDE DEF saves
<1>6. ASSUME NEW list \in SUBSET Entries(mode), r = <<old, list>> PROVE Fresh(s, r[1].m, r[1].prompt, r[2])
  <2>1. r[1] = old /\ r[2] = list /\ old.m = kv /\ old.prompt = prompt
    BY <1>6
  <2> HIDE DEF old
  <2>2. QED
    BY <1>1, <1>2, <1>3, <2>1 DEF Fresh
<1>7. ASSUME NEW list \in SUBSET Entries(mode), NEW e \in better(list), r = read(e, list)
      PROVE  Fresh(s, r[1].m, r[1].prompt, r[2])
  <2>1. e \in Entries(mode) /\ Lcp(e.tokens, text) > Lcp(prompt, text)
    OBVIOUS
  <2>2. e.tokens \in Seq(Int) /\ Len(e.tokens) <= mode.context /\ Len(e.tokens) \in Nat
    BY <2>1, EntryHas DEF EntryParts
  <2>3. e.tokens # <<>>
    <3>1. text \in Seq(Int)
      BY TextsFit
    <3>2. Lcp(e.tokens, text) \in Nat /\ Lcp(e.tokens, text) <= Len(e.tokens)
      BY <2>2, <3>1, CommonPrefixAgrees DEF Lcp, CommonLength
    <3>3. Lcp(prompt, text) \in Nat
      BY <1>1, <3>1, CommonPrefixAgrees DEF Lcp, CommonLength
    <3>4. Len(e.tokens) # 0
      BY <2>1, <2>2, <3>2, <3>3
    <3>5. QED
      BY <3>4
  <2> DEFINE l == LoadedEntry(kv, s, e)
  <2>4. /\ l.m \in Memory(mode) /\ Owned(mode, l.m) /\ l.ok \in BOOLEAN
        /\ \A t \in KvSeqs : t # s => SameOf(mode, kv, l.m, t)
        /\ l.ok => Held(mode, l.m, s, e.tokens, Len(e.tokens)) /\ Unshifted(mode, l.m, s)
        /\ ~l.ok => \A other : Held(mode, l.m, s, other, 0)
    BY <1>1, <1>2, <2>1, <2>3, LoadedIs
  <2>5. r = IF l.ok THEN <<[m |-> l.m, prompt |-> e.tokens], list \ {e}>>
            ELSE <<[m |-> SeqRmRange(l.m, s, 0, All), prompt |-> <<>>], list>>
    BY <1>7
  <2> HIDE DEF l
  <2>6. CASE l.ok
    <3>1. r[1].m = l.m /\ r[1].prompt = e.tokens /\ r[2] = list \ {e}
      BY <2>5, <2>6
    <3>2. list \ {e} \in SUBSET Entries(mode)
      OBVIOUS
    <3>3. QED
      BY <2>2, <2>4, <2>6, <3>1, <3>2 DEF Fresh
  <2>7. CASE ~l.ok
    <3> DEFINE m == SeqRmRange(l.m, s, 0, All)
    <3>1. r[1].m = m /\ r[1].prompt = <<>> /\ r[2] = list
      BY <2>5, <2>7
    <3>2. mode.context \in Nat /\ Held(mode, l.m, s, <<>>, 0)
      BY <2>4, <2>7, Facts
    <3>3. /\ m \in Memory(mode) /\ Owned(mode, m) /\ Held(mode, m, s, <<>>, 0)
          /\ \A t \in KvSeqs : t # s => SameOf(mode, l.m, m, t)
      <4>1. 0 \in Nat /\ (IF 0 < 0 THEN 0 ELSE 0) = 0 /\ 0 <= mode.context
        BY <3>2
      <4>2. QED
        BY <2>4, <3>2, <4>1, SeqRmSpares
    <3> HIDE DEF m
    <3>4. <<>> \in Seq(Int) /\ Len(<<>>) = 0
      OBVIOUS
    <3>5. Unshifted(mode, m, s)
      BY <3>3, NothingHeld
    <3>6. \A t \in KvSeqs : t # s => SameOf(mode, kv, m, t)
      BY <2>4, <3>3 DEF SameOf
    <3>7. QED
      BY <3>1, <3>2, <3>3, <3>4, <3>5, <3>6 DEF Fresh
  <2>8. QED
    BY <2>4, <2>6, <2>7
<1>8. QED
  BY <1>1, <1>4, <1>5, <1>6, <1>7

\* The idle slots that are saved one after the other.
SavedAll(m, rest, lists, t) ==
    IF t \notin rest THEN lists ELSE UNION {SavedWith(l, m, t, kvSlot[t].prompt) : l \in lists}

SavedBy(m, rest, base, ss) == FoldLeft(LAMBDA lists, t : SavedAll(m, rest, lists, t), base, ss)
Savable(m, rest) ==
    \A t \in KvSeqs : t \in rest =>
       /\ kvSlot[t].prompt \in Seq(Int) /\ Len(kvSlot[t].prompt) <= mode.context
       /\ Held(mode, m, t, kvSlot[t].prompt, Len(kvSlot[t].prompt)) /\ Unshifted(mode, m, t)

\* Saving one of them leaves whole entries.
LEMMA SavedAllType ==
    ASSUME Plain, NEW m \in Memory(mode), NEW rest,
           Savable(m, rest),
           NEW lists \in SUBSET SUBSET Entries(mode), NEW t \in KvSeqs
    PROVE  SavedAll(m, rest, lists, t) \in SUBSET SUBSET Entries(mode)
<1>1. CASE t \notin rest
  BY <1>1 DEF SavedAll
<1>2. CASE t \in rest
  <2>1. \A l \in lists : SavedWith(l, m, t, kvSlot[t].prompt) \in SUBSET SUBSET Entries(mode)
    BY <1>2, SavedWithIs DEF Savable
  <2>2. QED
    BY <1>2, <2>1 DEF SavedAll
<1>3. QED
  BY <1>1, <1>2

\* What they leave of the cache.
LEMMA SavedRuns ==
    ASSUME Plain, NEW m \in Memory(mode), NEW rest,
           Savable(m, rest),
           NEW ss \in Seq(KvSeqs), NEW base \in SUBSET SUBSET Entries(mode)
    PROVE  SavedBy(m, rest, base, ss) \in SUBSET SUBSET Entries(mode)
<1> DEFINE n == Len(ss)
           S == SUBSET SUBSET Entries(mode)
           step == [i \in 1 .. n |-> [acc \in S |-> SavedAll(m, rest, acc, ss[i])]]
           Is(h) == h = [s \in SUBSET DOMAIN ss |->
                            IF s = {} THEN base ELSE SavedAll(m, rest, h[s \ {Max(s)}], ss[Max(s)])]
           h == CHOOSE f : Is(f)
<1>1. n \in Nat /\ DOMAIN ss = 1 .. n /\ \A i \in 1 .. n : ss[i] \in KvSeqs
  OBVIOUS
<1>2. FoldLeft(LAMBDA lists, t : SavedAll(m, rest, lists, t), base, ss) = h[DOMAIN ss]
  BY DEF FoldLeft, MapThenFoldSet
<1>3. base \in S /\ \A i \in 1 .. n : \A acc \in S : SavedAll(m, rest, acc, ss[i]) \in S
  BY <1>1, SavedAllType
<1> HIDE DEF n, S
<1>4. Steps(step, n, S)
  BY <1>3 DEF Steps
<1>5. PICK f \in [SUBSET (1 .. n) -> S] : IsFold(f, step, n, base)
  <2> HIDE DEF step
  <2>1. QED
    BY <1>1, <1>3, <1>4, FoldExists DEF HasFold
<1>6. Is(f)
  <2>1. ASSUME NEW s \in SUBSET (1 .. n)
        PROVE  f[s] = IF s = {} THEN base ELSE SavedAll(m, rest, f[s \ {Max(s)}], ss[Max(s)])
    <3>1. CASE s = {}
      BY <1>5, <3>1 DEF IsFold
    <3>2. CASE s # {}
      <4>1. Max(s) \in 1 .. n /\ f[s] = step[Max(s)][f[s \ {Max(s)}]] /\ f[s \ {Max(s)}] \in S
        BY <1>5, <3>2 DEF IsFold
      <4>2. QED
        BY <3>2, <4>1
    <3>3. QED
      BY <3>1, <3>2
  <2>2. f = [s \in SUBSET (1 .. n) |-> f[s]]
    BY <1>5
  <2>3. QED
    BY <1>1, <2>1, <2>2
<1>7. \A s \in SUBSET (1 .. n) : h[s] = IF s = {} THEN base ELSE SavedAll(m, rest, h[s \ {Max(s)}], ss[Max(s)])
  <2>1. Is(h)
    <3> HIDE DEF Is
    <3>1. QED
      BY <1>6
  <2>2. h = [s \in SUBSET DOMAIN ss |-> IF s = {} THEN base ELSE SavedAll(m, rest, h[s \ {Max(s)}], ss[Max(s)])]
    BY <2>1
  <2> HIDE DEF h
  <2>3. QED
    BY <1>1, <2>2
<1> HIDE DEF h
<1>8. \A s \in SUBSET (1 .. n) : s # {} => Max(s) \in 1 .. n
  BY <1>5 DEF IsFold
<1>9. \A s \in SUBSET (1 .. n) : s # {} /\ h[s \ {Max(s)}] \in S => h[s] = step[Max(s)][h[s \ {Max(s)}]]
  BY <1>7, <1>8
<1>10. Folds(h, step, n, S, base)
  <2>1. h[{}] = base
    BY <1>7
  <2> HIDE DEF step
  <2>2. QED
    BY <1>9, <2>1 DEF Folds
<1>11. PICK g \in [0 .. n -> S] : IsRun(g, step, n, base) /\ g[n] = h[1 .. n]
  <2> HIDE DEF step
  <2>1. QED
    BY <1>1, <1>3, <1>4, <1>10, FoldIsRun
<1>12. FoldLeft(LAMBDA lists, t : SavedAll(m, rest, lists, t), base, ss) = g[n] /\ g[n] \in S
  <2>1. n \in 0 .. n
    BY <1>1
  <2>2. QED
    BY <1>1, <1>2, <1>11, <2>1
<1>13. QED
  BY <1>12 DEF S, SavedBy

\* A slot that starts a task is good when it holds the prompt it was given.
LEMMA StartGood ==
    ASSUME Plain, NEW m, NEW s, NEW prompt \in Seq(Int), NEW text \in Texts,
           Held(mode, m, s, prompt, Len(prompt)), Unshifted(mode, m, s), Len(prompt) <= mode.context
    PROVE  LET sl == [state |-> "start", prompt |-> prompt, text |-> text, boss |-> Unrelated]
           IN sl \in Slot /\ SlotGood(mode, m, sl, s, <<>>)
<1> DEFINE sl == [state |-> "start", prompt |-> prompt, text |-> text, boss |-> Unrelated]
<1>1. text \in Seq(Int)
  BY TextsFit
<1>2. sl \in Slot /\ sl.prompt = prompt /\ sl.text = text
  BY <1>1 DEF Slot
<1> HIDE DEF sl
<1>3. SlotGood(mode, m, sl, s, <<>>)
  BY <1>2, RestGood
<1>4. QED
  BY <1>2, <1>3 DEF sl

\* A task is launched: its slot holds the prompt it was given, and the idle
\* ones that were cleared hold nothing.
LEMMA LaunchGood ==
    ASSUME Plain, KvInv, NEW s \in KvSeqs, NEW children \in SUBSET KvSeqs, NEW text \in Texts, Launch(s, children, text)
    PROVE  KvInv'
<1>1. kvBatch = <<>> /\ children = {} /\ s \in IdleOnes
  BY DEF Launch, Plain
<1>2. PICK r \in Refreshed(s, text) :
         LET rest == IF mode.ram /\ mode.unified THEN IdleOnes \ (children \union {s}) ELSE {}
         IN /\ kv' = ClearedSeqs(r[1].m, rest)
            /\ kvSlot' = [t \in KvSeqs |->
                  IF t = s THEN [state |-> "start", prompt |-> r[1].prompt, text |-> text,
                                 boss |-> IF children = {} THEN Unrelated ELSE s]
                  ELSE IF t \in children THEN [kvSlot[t] EXCEPT !.state = "wait", !.text = text, !.boss = s]
                  ELSE IF t \in rest THEN IdleSlot ELSE kvSlot[t]]
            /\ kvSaved' \in FoldLeft(LAMBDA lists, t : IF t \notin rest THEN lists
                                      ELSE UNION {SavedWith(l, r[1].m, t, kvSlot[t].prompt) : l \in lists},
                                     {r[2]}, InOrder)
  BY DEF Launch
<1> DEFINE m == r[1].m
           rest == IF mode.ram /\ mode.unified THEN IdleOnes \ (children \union {s}) ELSE {}
           new == ClearedSeqs(m, rest)
           started == [state |-> "start", prompt |-> r[1].prompt, text |-> text, boss |-> Unrelated]
           slot == [t \in KvSeqs |-> IF t = s THEN started ELSE IF t \in rest THEN IdleSlot ELSE kvSlot[t]]
<1>3. Fresh(s, m, r[1].prompt, r[2])
  BY <1>1, RefreshedIs
<1>4. kv' = new /\ kvSlot' = slot
  BY <1>1, <1>2
<1>5. kvSaved' \in FoldLeft(LAMBDA lists, t : SavedAll(m, rest, lists, t), {r[2]}, InOrder)
  BY <1>2 DEF SavedAll
<1>6. mode' = mode /\ kvBatch' = <<>> /\ nBatch' = nBatch /\ blind' = blind
  BY <1>1 DEF Launch
<1>7. s \notin rest /\ rest \subseteq KvSeqs
  BY DEF IdleOnes
<1>8. /\ mode \in Modes /\ nBatch \in Nat \ {0} /\ blind = FALSE /\ mode.context \in Nat
      /\ \A t \in KvSeqs : kvSlot[t] \in Slot /\ kvSlot[t].prompt \in Seq(Int) /\ Len(kvSlot[t].prompt) \in Nat
  BY InvParts, Facts
<1>9. /\ m \in Memory(mode) /\ Owned(mode, m) /\ r[2] \in SUBSET Entries(mode)
      /\ r[1].prompt \in Seq(Int) /\ Len(r[1].prompt) <= mode.context /\ Len(r[1].prompt) \in Nat
      /\ Held(mode, m, s, r[1].prompt, Len(r[1].prompt)) /\ Unshifted(mode, m, s)
  BY <1>3 DEF Fresh
<1> DEFINE p == r[1].prompt
<1>10. p = r[1].prompt
  OBVIOUS
<1> HIDE DEF m, rest, p
<1>11. ASSUME NEW t \in KvSeqs, t # s
       PROVE  /\ Held(mode, m, t, kvSlot[t].prompt, Len(kvSlot[t].prompt)) /\ Unshifted(mode, m, t)
              /\ Len(kvSlot[t].prompt) <= mode.context
              /\ kvSlot[t].state = "start" => kvSlot[t].text \in Texts
  <2>1. SameOf(mode, kv, m, t)
    BY <1>3, <1>11 DEF Fresh
  <2>2. QED
    BY <1>1, <2>1, BetweenHeld, SameHeld
<1>12. kvSaved' \in SUBSET Entries(mode)
  <2>1. {r[2]} \in SUBSET SUBSET Entries(mode)
    BY <1>9
  <2>2. Savable(m, rest)
    BY <1>7, <1>8, <1>11 DEF Savable
  <2>3. InOrder \in Seq(KvSeqs) /\ Len(InOrder) \in Nat
    BY InOrderIs
  <2> DEFINE base == {r[2]}
             after == SavedBy(m, rest, base, InOrder)
  <2>4. after \in SUBSET SUBSET Entries(mode)
    <3> HIDE DEF base
    <3>1. base \in SUBSET SUBSET Entries(mode)
      BY <2>1 DEF base
    <3>2. QED
      BY <1>9, <2>2, <2>3, <3>1, SavedRuns
  <2>5. QED
    BY <1>5, <2>4 DEF SavedBy
<1>13. /\ new \in Memory(mode) /\ Owned(mode, new)
       /\ \A t \in KvSeqs : Unshifted(mode, m, t) => Unshifted(mode, new, t)
       /\ \A t \in KvSeqs, n \in Nat : \A prompt : Held(mode, m, t, prompt, n) =>
             /\ t \in rest => \A other : Held(mode, new, t, other, 0)
             /\ t \notin rest /\ n <= mode.context => SameOf(mode, m, new, t)
  BY <1>9, ClearedIs
<1> HIDE DEF new
<1>14. started \in Slot /\ SlotGood(mode, new, started, s, <<>>)
  <2>1. SameOf(mode, m, new, s)
    BY <1>7, <1>9, <1>13
  <2>2. Held(mode, new, s, r[1].prompt, Len(r[1].prompt)) /\ Unshifted(mode, new, s)
    BY <1>9, <2>1, SameHeld
  <2>3. QED
    BY <1>9, <2>2, StartGood
<1> HIDE DEF started
<1>15. slot \in [KvSeqs -> Slot]
  BY <1>8, <1>14, SlotKinds
<1>16. ASSUME NEW t \in KvSeqs PROVE SlotGood(mode, new, slot[t], t, <<>>)
  <2>1. CASE t = s
    BY <1>14, <2>1
  <2>2. CASE t # s /\ t \in rest
    <3>1. slot[t] = IdleSlot
      BY <2>2
    <3>2. \A other : Held(mode, new, t, other, 0)
      BY <1>8, <1>11, <1>13, <2>2
    <3> HIDE DEF slot
    <3>3. QED
      BY <1>8, <3>1, <3>2, EmptyBatch, IdleGood
  <2>3. CASE t # s /\ t \notin rest
    <3>1. slot[t] = kvSlot[t]
      BY <2>3
    <3>2. SameOf(mode, m, new, t)
      BY <1>8, <1>11, <1>13, <2>3
    <3>3. Held(mode, new, t, kvSlot[t].prompt, Len(kvSlot[t].prompt)) /\ Unshifted(mode, new, t)
      BY <1>11, <2>3, <3>2, SameHeld
    <3> HIDE DEF slot
    <3>4. SlotGood(mode, new, kvSlot[t], t, <<>>)
      BY <1>8, <1>11, <2>3, <3>3, RestGood
    <3>5. QED
      BY <3>1, <3>4
  <2>4. QED
    BY <2>1, <2>2, <2>3
<1> HIDE DEF slot
<1>17. <<>> \in Seq(Token)
  OBVIOUS
<1>18. Good(mode, new, slot, <<>>, nBatch, kvSaved', FALSE)
  BY <1>8, <1>12, <1>13, <1>15, <1>16, <1>17, GoodOf
<1>19. QED
  BY <1>4, <1>6, <1>8, <1>18 DEF KvInv

-----------------------------------------------------------------------------
\* At first the memory is free and the slots have nothing.
LEMMA InitGood ==
    ASSUME FullAttention, KvInit
    PROVE  KvInv
<1>1. mode \in Modes /\ Plain
  BY PlainMode DEF KvInit
<1>2. /\ kv = [cells |-> [st \in KvSeqs |-> [i \in KvCells |-> Free]],
               rows |-> [st \in KvSeqs |-> [i \in KvCells |-> NoRow]],
               head |-> [st \in KvSeqs |-> 0], copies |-> <<>>]
      /\ kvSlot = [s \in KvSeqs |-> IdleSlot]
      /\ kvSaved = {} /\ kvBatch = <<>> /\ nBatch = FullBatch /\ blind = FALSE
  BY DEF KvInit
<1>3. KvCells = CellsOf(mode) /\ mode.context \in Nat /\ FullBatch \in Nat \ {0}
      /\ \A s \in KvSeqs : StreamIn(mode, s) \in KvSeqs
  BY <1>1, Facts
<1>4. kv \in Memory(mode)
  BY <1>2, <1>3, FreeCell DEF Memory
<1>5. \A st \in KvSeqs, i \in CellsOf(mode) : kv.cells[st][i] = Free
  BY <1>2, <1>3
<1>6. Owned(mode, kv)
  BY <1>5 DEF Owned
<1>7. ASSUME NEW s \in KvSeqs PROVE SlotGood(mode, kv, kvSlot[s], s, kvBatch)
  <2>1. HeldBy(mode, kv, s) = {}
    BY <1>3, <1>5, FreeCell DEF HeldBy
  <2>2. \A other : Held(mode, kv, s, other, 0)
    BY <2>1 DEF Held
  <2>3. kvSlot[s] = IdleSlot
    BY <1>2
  <2>4. QED
    BY <1>1, <1>2, <1>3, <2>2, <2>3, EmptyBatch, IdleGood
<1>8. kvSlot \in [KvSeqs -> Slot] /\ kvBatch \in Seq(Token) /\ kvSaved \in SUBSET Entries(mode)
  BY <1>2, SlotKinds
<1>9. QED
  BY <1>1, <1>2, <1>3, <1>4, <1>6, <1>7, <1>8, GoodOf DEF KvInv

\* Every step of the server keeps the invariant.
LEMMA StepGood ==
    ASSUME FullAttention, KvInv, [KvNext]_kvVars
    PROVE  KvInv'
<1>1. Plain
  BY PlainMode, InvParts
<1>2. CASE UNCHANGED kvVars
  BY <1>2 DEF KvInv, kvVars
<1>3. ASSUME NEW s \in KvSeqs, NEW children \in SUBSET KvSeqs, NEW text \in Texts, Launch(s, children, text) PROVE KvInv'
  BY <1>1, <1>3, LaunchGood
<1>4. CASE FillBatch
  BY <1>1, <1>4, FillBatchGood
<1>5. CASE Refused
  BY <1>1, <1>5, RefusedGood
<1>6. CASE DecodeBatch
  BY <1>1, <1>6, DecodeGood
<1>7. QED
  BY <1>2, <1>3, <1>4, <1>5, <1>6 DEF KvNext

-----------------------------------------------------------------------------
\* A sequence that holds n tokens has the positions below n, each in a cell.
LEMMA PositionsIs ==
    ASSUME Plain, NEW m \in Memory(mode), NEW s \in KvSeqs, NEW prompt, NEW n \in Nat, Held(mode, m, s, prompt, n)
    PROVE  /\ PosOf(m, s) = 0 .. n - 1 /\ KvPosMax(m, s) = n - 1
           /\ PosOf(m, s) # {} => KvPosMin(m, s) = 0 /\ Cardinality(Holding(m, s)) = Cardinality(PosOf(m, s))
<1> DEFINE st == StreamIn(mode, s)
           held == HeldBy(mode, m, s)
           due == 0 .. n - 1
           f == [i \in held |-> m.cells[st][i].pos]
<1>1. st = StreamOf(s) /\ held = Holding(m, s)
  BY Facts
<1>2. \A i \in held : m.cells[st][i].pos \in due
  BY DEF Held
<1>3. \A q \in due : \E i \in held : m.cells[st][i].pos = q
  BY DEF Held
<1>4. PosOf(m, s) = due
  <2>1. PosOf(m, s) = {m.cells[st][i].pos : i \in held}
    BY <1>1 DEF PosOf
  <2> HIDE DEF held, due
  <2>2. QED
    BY <1>2, <1>3, <2>1
<1>5. KvPosMax(m, s) = n - 1
  <2> DEFINE S == {-1} \union due
             top == n - 1
  <2>1. top \in S /\ \A q \in S : top >= q /\ q \in Int
    OBVIOUS
  <2>2. KvPosMax(m, s) = Max(S)
    BY <1>4 DEF KvPosMax
  <2>3. top \in Int
    OBVIOUS
  <2> HIDE DEF S, top
  <2>4. Max(S) = top
    <3>1. Max(S) \in S /\ \A q \in S : Max(S) >= q
      BY <2>1 DEF Max
    <3>2. Max(S) \in Int /\ top >= Max(S) /\ Max(S) >= top
      BY <2>1, <3>1
    <3> DEFINE x == Max(S)
    <3> HIDE DEF x
    <3>3. x \in Int /\ top >= x /\ x >= top
      BY <3>2 DEF x
    <3>4. x = top
      BY <2>3, <3>3
    <3>5. QED
      BY <3>4 DEF x
  <2>5. QED
    BY <2>2, <2>4 DEF top
<1>6. ASSUME due # {} PROVE KvPosMin(m, s) = 0
  <2>1. due \in SUBSET Nat /\ 0 \in due
    BY <1>6
  <2>2. KvPosMin(m, s) = Min(due)
    BY <1>4, <1>6 DEF KvPosMin
  <2> HIDE DEF due
  <2>3. Min(due) \in due /\ Min(due) <= 0
    BY <1>6, <2>1, SmallestExists
  <2>4. Min(due) \in Nat
    BY <2>1, <2>3
  <2>5. QED
    BY <2>2, <2>3, <2>4
<1>7. Cardinality(held) = Cardinality(due)
  <2>1. \A i, j \in held : m.cells[st][i].pos = m.cells[st][j].pos => i = j
    BY DEF Held
  <2>2. held \in SUBSET CellsOf(mode)
    BY DEF HeldBy
  <2> HIDE DEF held, due
  <2>3. f \in [held -> due] /\ \A i, j \in held : f[i] = f[j] => i = j
    BY <1>2, <2>1
  <2>4. \A q \in due : \E i \in held : f[i] = q
    BY <1>3
  <2> HIDE DEF f
  <2>5. f \in Bijection(held, due)
    BY <2>3, <2>4 DEF IsInjective, Bijection, Injection, Surjection
  <2>6. IsFiniteSet(held)
    <3>1. mode.cells - 1 \in Int
      BY Facts
    <3> DEFINE e == mode.cells - 1
    <3> HIDE DEF e
    <3>2. IsFiniteSet(0 .. e)
      BY <3>1, FS_Interval DEF e
    <3>3. IsFiniteSet(CellsOf(mode))
      BY <3>2 DEF e, CellsOf
    <3>4. QED
      BY <2>2, <3>3, FS_Subset
  <2>7. ExistsBijection(held, due)
    BY <2>5 DEF ExistsBijection
  <2>8. QED
    BY <2>6, <2>7, FS_Bijection
<1>8. QED
  BY <1>1, <1>4, <1>5, <1>6, <1>7

\* The invariant is what the memory promises.
LEMMA InvPromises ==
    ASSUME Plain, KvInv
    PROVE  AttendsToItsText /\ MemoryWhole
<1>1. kv \in Memory(mode) /\ kvSaved \in SUBSET Entries(mode) /\ blind = FALSE
      /\ \A s \in KvSeqs : kvSlot[s].prompt \in Seq(Int) /\ Len(kvSlot[s].prompt) \in Nat
  BY InvParts
<1>2. AttendsToItsText
  BY <1>1 DEF AttendsToItsText
<1>3. EndsWithPrompt
  <2>1. ASSUME kvBatch = <<>>, NEW s \in KvSeqs PROVE KvPosMax(kv, s) = Len(kvSlot[s].prompt) - 1
    <3>1. Whole(mode, kv, s, kvSlot[s].prompt, <<>>)
      BY <2>1, SlotsGood DEF SlotGood
    <3>2. Held(mode, kv, s, kvSlot[s].prompt, Len(kvSlot[s].prompt))
      BY <1>1, <3>1, EmptyBatch, AllHeld
    <3>3. QED
      BY <1>1, <3>2, PositionsIs
  <2>2. QED
    BY <2>1 DEF EndsWithPrompt
<1>4. NoHoles
  <2>1. ASSUME NEW s \in KvSeqs, PosOf(kv, s) # {}
        PROVE  /\ PosOf(kv, s) = KvPosMin(kv, s) .. KvPosMax(kv, s)
               /\ Cardinality(Holding(kv, s)) = Cardinality(PosOf(kv, s))
    <3>1. PICK n \in 0 .. Len(kvSlot[s].prompt) : Held(mode, kv, s, kvSlot[s].prompt, n)
      BY SlotsGood DEF SlotGood, Whole
    <3>2. n \in Nat
      BY <1>1, <3>1
    <3>3. /\ PosOf(kv, s) = 0 .. n - 1 /\ KvPosMax(kv, s) = n - 1 /\ KvPosMin(kv, s) = 0
          /\ Cardinality(Holding(kv, s)) = Cardinality(PosOf(kv, s))
      BY <1>1, <2>1, <3>1, <3>2, PositionsIs
    <3>4. QED
      BY <3>3
  <2>2. QED
    BY <2>1 DEF NoHoles
<1>5. EntriesTrue
  BY <1>1 DEF EntriesTrue, Entries, TrueEntry
<1>6. QED
  BY <1>2, <1>3, <1>4, <1>5 DEF MemoryWhole

\* Under full attention with one completion for each prompt, the cells of a
\* slot are its prompt up to what the batch still brings, whatever was tried
\* and given back, purged, cut, shifted, saved and restored before, and no
\* token has attended to anything but its text.
THEOREM HoldsItsPrompt == FullAttention => (KvSpec => []KvInv)
<1>1. FullAttention /\ KvInit => KvInv
  BY InitGood
<1>2. FullAttention /\ KvInv /\ [KvNext]_kvVars => KvInv'
  BY StepGood
<1>3. ASSUME FullAttention PROVE KvSpec => []KvInv
  <2>1. KvInit => KvInv
    BY <1>1, <1>3
  <2>2. KvInv /\ [KvNext]_kvVars => KvInv'
    BY <1>2, <1>3
  <2>3. QED
    BY <2>1, <2>2, PTL DEF KvSpec
<1>4. QED
  BY <1>3

\* Every token attends to the rows of its own slot's text and to all of them,
\* each computed for its position.
THEOREM SeesItsWholeText == FullAttention => (KvSpec => []AttendsToItsText)
<1>1. ASSUME FullAttention PROVE KvSpec => []AttendsToItsText
  <2>1. KvSpec => []KvInv
    BY <1>1, HoldsItsPrompt
  <2>2. KvInv => AttendsToItsText
    BY <1>1, InvParts, PlainMode, InvPromises
  <2>3. QED
    BY <2>1, <2>2, PTL
<1>2. QED
  BY <1>1

\* Between two batches the memory of a slot ends with its prompt, without
\* holes, and what the cache in RAM holds of a prompt was computed for it.
THEOREM MemoryStaysWhole == FullAttention => (KvSpec => []MemoryWhole)
<1>1. ASSUME FullAttention PROVE KvSpec => []MemoryWhole
  <2>1. KvSpec => []KvInv
    BY <1>1, HoldsItsPrompt
  <2>2. KvInv => MemoryWhole
    BY <1>1, InvParts, PlainMode, InvPromises
  <2>3. QED
    BY <2>1, <2>2, PTL
<1>2. QED
  BY <1>1
=============================================================================
