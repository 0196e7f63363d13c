----------------------------- MODULE MemoryProofs -----------------------------
(* Proofs about the recurrent memory, for any number of cells and any depth *)
(* of rollback: its cells stay coherent, and every sequence has a state of  *)
(* its own (MCComponents checks both on a small instance).                  *)
EXTENDS RecurrentMemory, SequenceFacts

-----------------------------------------------------------------------------
(* The inductive invariant.                                                 *)

CellRecords == [pos : Int, seqs : SUBSET Seqs, src : -1 .. Size - 1]
States == Seq(Seqs)

\* A batch adds to a sequence tokens of its own only.
OwnTokens(tokens, s) == tokens \in States /\ \A i \in DOMAIN tokens : tokens[i] = s

MemTypes ==
    /\ cell \in [Cells -> CellRecords]
    /\ tailOf \in [Seqs -> -1 .. Size - 1]
    /\ searchFrom \in Cells
    /\ rsIdx \in [Seqs -> 0 .. Depth]
    /\ row \in [0 .. Depth -> [Cells -> States]]
    /\ batch \in [Seqs -> States] /\ \A s \in Seqs : OwnTokens(batch[s], s)
    /\ fresh \in [Seqs -> Nat]
    /\ saved \in States

\* Tails and the sets of the cells say the same.
Linked(cs, tails) == \A s \in Seqs, c \in Cells : s \in cs[c].seqs <=> tails[s] = c

\* A state that starts from row src starts from nothing.
Clean(src) == src = -1 \/ (src \in Cells /\ row[0][src] = <<>>)

\* A cell that is used takes its state from its own row; one that is not is
\* either unset or has an empty state.
Homes == \A c \in Cells :
    IF Empty(cell, c) THEN cell[c].pos < 0 /\ cell[c].src \in {-1, c} /\ Clean(cell[c].src)
                      ELSE cell[c].pos >= 0 /\ cell[c].src = c

\* No other sequence has the cell of s.
Alone(s) == \A t \in Seqs : tailOf[t] = tailOf[s] => t = s

\* Only a sequence with a cell of its own can wait for a rollback, or have
\* snapshots; it has none while it waits.
Pendings == \A s \in Seqs :
    /\ tailOf[s] < 0 => rsIdx[s] = 0 /\ fresh[s] = 0
    /\ rsIdx[s] # 0 => Alone(s)
    /\ fresh[s] # 0 => Alone(s) /\ rsIdx[s] = 0

Lengths == \A s \in Seqs : tailOf[s] >= 0 => Len(row[rsIdx[s]][tailOf[s]]) = cell[tailOf[s]].pos + 1

\* The tokens that the last ubatch added can be taken back.
Snapshots == \A s \in Seqs : \A k \in 1 .. Depth : k < fresh[s] =>
    row[k][tailOf[s]] = SubSeq(row[0][tailOf[s]], 1, cell[tailOf[s]].pos + 1 - k)

MInv == MemTypes /\ Linked(cell, tailOf) /\ Homes /\ Pendings /\ Lengths /\ Snapshots

-----------------------------------------------------------------------------
(* Cells and numbers.                                                       *)

LEMMA SizeFact == Size \in Nat /\ Size > 0 /\ Depth \in Nat /\ 0 \in Cells /\ 0 \in 0 .. Depth
BY SizeAssumption DEF Cells

LEMMA Around ==
    ASSUME NEW n \in Nat \ {0}, NEW x \in 0 .. 2 * n - 1
    PROVE  x % n = IF x < n THEN x ELSE x - n
OBVIOUS

\* The search for an empty cell finds one if there is one.
LEMMA NextEmptyFinds ==
    ASSUME NEW cs \in [Cells -> CellRecords], NEW from \in Cells
    PROVE  /\ NextEmpty(cs, from) \in Cells
           /\ (\E c \in Cells : Empty(cs, c)) => Empty(cs, NextEmpty(cs, from))
<1> DEFINE at(k) == (from + k) % Size
           found == {k \in Cells : Empty(cs, at(k))}
<1>1. NextEmpty(cs, from) = IF found = {} THEN from ELSE at(Min(found))
  BY DEF NextEmpty
<1>2. \A k \in Cells : at(k) = IF from + k < Size THEN from + k ELSE from + k - Size
  <2> TAKE k \in Cells
  <2>1. from + k \in 0 .. 2 * Size - 1
    BY SizeFact DEF Cells
  <2>2. Size \in Nat \ {0}
    BY SizeFact
  <2>3. \A x \in 0 .. 2 * Size - 1 : x % Size = IF x < Size THEN x ELSE x - Size
    BY <2>2, Around
  <2> DEFINE x == from + k
  <2>4. x % Size = IF x < Size THEN x ELSE x - Size
    <3> HIDE DEF x
    <3>1. x \in 0 .. 2 * Size - 1
      BY <2>1 DEF x
    <3>2. QED
      BY <2>3, <3>1
  <2>5. QED
    BY <2>4, SizeFact DEF Cells
<1>3. \A k \in Cells : at(k) \in Cells
  BY <1>2, SizeFact DEF Cells
<1>4. \A c \in Cells : \E k \in Cells : at(k) = c
  <2> TAKE c \in Cells
  <2>1. CASE c >= from
    <3>1. c - from \in Cells /\ from + (c - from) = c /\ c < Size
      BY <2>1, SizeFact DEF Cells
    <3>2. at(c - from) = c
      BY <1>2, <3>1
    <3>3. QED
      BY <3>1, <3>2
  <2>2. CASE c < from
    <3> DEFINE k == c - from + Size
    <3>1. k \in Cells /\ from + k = c + Size /\ ~(c + Size < Size) /\ c + Size - Size = c
      BY <2>2, SizeFact DEF Cells
    <3>2. at(k) = c
      <4> HIDE DEF at, k
      <4>1. at(k) = IF from + k < Size THEN from + k ELSE from + k - Size
        BY <1>2, <3>1
      <4>2. QED
        BY <3>1, <4>1, SizeFact DEF Cells
    <3>3. QED
      BY <3>1, <3>2
  <2> HIDE DEF at
  <2>3. QED
    BY <2>1, <2>2, SizeFact DEF Cells
<1>5. found # {} => Min(found) \in found
  <2>1. found \in SUBSET Nat
    BY SizeFact DEF Cells
  <2> HIDE DEF found
  <2>2. QED
    BY <2>1, SmallestExists
<1>6. (\E c \in Cells : Empty(cs, c)) => found # {}
  <2> HIDE DEF at
  <2>1. QED
    BY <1>4
<1> HIDE DEF at
<1>7. QED
  BY <1>1, <1>3, <1>5, <1>6

\* As long as a sequence has no cell of its own, some cell is empty: the others
\* are fewer than the cells.
LEMMA FreeCell ==
    ASSUME NEW cs \in [Cells -> CellRecords], NEW tails \in [Seqs -> -1 .. Size - 1], Linked(cs, tails),
           NEW s \in Seqs, ~(tails[s] >= 0 /\ cs[tails[s]].seqs = {s})
    PROVE  \E c \in Cells : Empty(cs, c)
<1>1. SUFFICES ASSUME \A c \in Cells : cs[c].seqs # {} PROVE FALSE
  BY DEF Empty
<1> DEFINE g == [c \in Cells |-> CHOOSE t \in cs[c].seqs : t # s]
           T == Seqs \ {s}
<1>2. ASSUME NEW c \in Cells PROVE g[c] \in T /\ tails[g[c]] = c
  <2>1. cs[c].seqs \in SUBSET Seqs
    BY DEF CellRecords
  <2>2. cs[c].seqs # {s}
    <3>1. cs[c].seqs = {s} => tails[s] = c /\ c >= 0
      BY SizeFact DEF Linked, Cells
    <3>2. QED
      BY <3>1
  <2>3. \E t \in cs[c].seqs : t # s
    BY <1>1, <2>2
  <2>4. g[c] \in cs[c].seqs /\ g[c] # s
    BY <2>3
  <2>5. QED
    BY <2>1, <2>4 DEF Linked
<1> HIDE DEF g
<1>3. g \in [Cells -> T]
  <2>1. g = [c \in Cells |-> g[c]]
    BY DEF g
  <2>2. QED
    BY <1>2, <2>1
<1>4. IsFiniteSet(Cells) /\ Cardinality(Cells) = Size
  <2>1. \A a, b \in Int : IsFiniteSet(a .. b) /\ Cardinality(a .. b) = IF a > b THEN 0 ELSE b - a + 1
    BY FS_Interval
  <2>2. QED
    BY <2>1, SizeFact DEF Cells
<1>5. IsFiniteSet(T) /\ Cardinality(T) = Size - 1
  BY <1>4, FS_RemoveElement DEF Seqs
<1> HIDE DEF T
<1>6. \E c, d \in Cells : c # d /\ g[c] = g[d]
  BY <1>3, <1>4, <1>5, SizeFact, FS_PigeonHole
<1>7. QED
  BY <1>2, <1>6

-----------------------------------------------------------------------------
(* find_slot gives every sequence of the ubatch a cell of its own.          *)

OwnAccs == [cell : [Cells -> CellRecords], tail : [Seqs -> -1 .. Size - 1], next : Cells]
HasOwn(acc, s) == acc.tail[s] >= 0 /\ acc.cell[acc.tail[s]].seqs = {s}
OwnCopied(acc, s) == [acc.cell EXCEPT ![acc.next] = [acc.cell[acc.tail[s]] EXCEPT !.seqs = {s}]]
OwnCells(acc, s) ==
    IF acc.tail[s] < 0 THEN [acc.cell EXCEPT ![acc.next].seqs = {s}]
    ELSE [OwnCopied(acc, s) EXCEPT ![acc.tail[s]].seqs = @ \ {s}]

LEMMA OwnIs ==
    ASSUME NEW acc \in OwnAccs, NEW s \in Seqs
    PROVE  /\ Own(acc, s) \in OwnAccs
           /\ acc.tail[s] >= 0 => acc.tail[s] \in Cells
           /\ OwnCells(acc, s) \in [Cells -> CellRecords]
           /\ HasOwn(acc, s) => Own(acc, s) = acc
           /\ ~HasOwn(acc, s) =>
                 /\ Own(acc, s).cell = OwnCells(acc, s)
                 /\ Own(acc, s).tail = [acc.tail EXCEPT ![s] = acc.next]
                 /\ (\E c \in Cells : Empty(OwnCells(acc, s), c)) => Empty(OwnCells(acc, s), Own(acc, s).next)
<1>1. /\ acc.cell \in [Cells -> CellRecords] /\ acc.tail \in [Seqs -> -1 .. Size - 1] /\ acc.next \in Cells
  BY DEF OwnAccs
<1>2. acc.tail[s] >= 0 => acc.tail[s] \in Cells
  BY <1>1, SizeFact DEF Cells
<1>3. \A c \in Cells : \A q \in SUBSET Seqs : [acc.cell[c] EXCEPT !.seqs = q] \in CellRecords
  BY <1>1 DEF CellRecords
<1>4. OwnCells(acc, s) \in [Cells -> CellRecords]
  <2>1. CASE acc.tail[s] < 0
    <3> DEFINE a == [acc.cell[acc.next] EXCEPT !.seqs = {s}]
    <3>1. OwnCells(acc, s) = [acc.cell EXCEPT ![acc.next] = [acc.cell[acc.next] EXCEPT !.seqs = {s}]]
      BY <2>1, <1>1 DEF OwnCells
    <3>2. a \in CellRecords
      BY <1>1, <1>3
    <3> HIDE DEF a
    <3>3. OwnCells(acc, s) = [acc.cell EXCEPT ![acc.next] = a]
      BY <3>1 DEF a
    <3>4. QED
      BY <1>1, <3>2, <3>3
  <2>2. CASE ~(acc.tail[s] < 0)
    <3> DEFINE old == acc.tail[s]
               a == [acc.cell[old] EXCEPT !.seqs = {s}]
               b == [acc.cell EXCEPT ![acc.next] = a]
    <3>1. old \in Cells
      BY <1>1, <1>2, <2>2
    <3>2. a \in CellRecords
      BY <1>3, <3>1
    <3>3. OwnCells(acc, s) = [b EXCEPT ![old] = [b[old] EXCEPT !.seqs = b[old].seqs \ {s}]]
      <4>1. b = OwnCopied(acc, s)
        BY DEF OwnCopied
      <4> HIDE DEF b
      <4>2. QED
        BY <2>2, <4>1 DEF OwnCells
    <3> HIDE DEF a
    <3>4. b \in [Cells -> CellRecords]
      BY <1>1, <3>2
    <3> HIDE DEF b
    <3>5. [b[old] EXCEPT !.seqs = b[old].seqs \ {s}] \in CellRecords
      BY <3>1, <3>4 DEF CellRecords
    <3>6. QED
      BY <3>1, <3>3, <3>4, <3>5
  <2>3. QED
    BY <2>1, <2>2
<1> DEFINE cells == OwnCells(acc, s)
           next == NextEmpty(cells, acc.next)
<1>5. Own(acc, s) = IF HasOwn(acc, s) THEN acc
                    ELSE [cell |-> cells, tail |-> [acc.tail EXCEPT ![s] = acc.next], next |-> next]
  BY DEF Own, HasOwn, OwnCells, OwnCopied
<1> HIDE DEF cells
<1>6. next \in Cells /\ ((\E c \in Cells : Empty(cells, c)) => Empty(cells, next))
  BY <1>1, <1>4, NextEmptyFinds DEF cells
<1> HIDE DEF next
<1>7. CASE HasOwn(acc, s)
  BY <1>2, <1>4, <1>5, <1>7 DEF cells
<1>8. CASE ~HasOwn(acc, s)
  <2>1. [acc.tail EXCEPT ![s] = acc.next] \in [Seqs -> -1 .. Size - 1]
    BY <1>1 DEF Cells
  <2>2. Own(acc, s).cell = cells /\ Own(acc, s).next = next /\ Own(acc, s).tail = [acc.tail EXCEPT ![s] = acc.next]
    BY <1>5, <1>8
  <2>3. Own(acc, s) \in OwnAccs
    BY <1>4, <1>5, <1>6, <1>8, <2>1 DEF OwnAccs, cells
  <2>4. QED
    BY <1>2, <1>4, <1>6, <1>8, <2>2, <2>3 DEF cells
<1>9. QED
  BY <1>7, <1>8

\* The fold takes one sequence after the other.
LEMMA OwnRuns ==
    ASSUME NEW ss \in Seq(Seqs), NEW base \in OwnAccs
    PROVE  \E g \in [0 .. Len(ss) -> OwnAccs] :
              /\ g[0] = base /\ FoldLeft(Own, base, ss) = g[Len(ss)]
              /\ \A i \in 1 .. Len(ss) : g[i] = Own(g[i - 1], ss[i])
<1> DEFINE n == Len(ss)
           step == [i \in 1 .. n |-> [acc \in OwnAccs |-> Own(acc, ss[i])]]
           Is(h) == h = [s \in SUBSET DOMAIN ss |->
                            IF s = {} THEN base ELSE Own(h[s \ {Max(s)}], ss[Max(s)])]
           h == CHOOSE f : Is(f)
<1>1. n \in Nat /\ DOMAIN ss = 1 .. n /\ \A i \in 1 .. n : ss[i] \in Seqs
  OBVIOUS
<1>2. FoldLeft(Own, base, ss) = h[DOMAIN ss]
  BY DEF FoldLeft, MapThenFoldSet
<1>3. \A i \in 1 .. n : \A acc \in OwnAccs : Own(acc, ss[i]) \in OwnAccs
  BY <1>1, OwnIs
<1> HIDE DEF n
<1>4. Steps(step, n, OwnAccs)
  BY <1>3 DEF Steps
<1>5. PICK f \in [SUBSET (1 .. n) -> OwnAccs] : IsFold(f, step, n, base)
  <2> HIDE DEF step
  <2>1. QED
    BY <1>1, <1>4, FoldExists DEF HasFold
<1>6. Is(f)
  <2>1. ASSUME NEW s \in SUBSET (1 .. n)
        PROVE  f[s] = IF s = {} THEN base ELSE Own(f[s \ {Max(s)}], ss[Max(s)])
    <3>1. CASE s = {}
      BY <1>5, <3>1 DEF IsFold
    <3>2. CASE s # {}
      <4>1. Max(s) \in 1 .. n /\ f[s] = step[Max(s)][f[s \ {Max(s)}]] /\ f[s \ {Max(s)}] \in OwnAccs
        BY <1>5, <3>2 DEF IsFold
      <4>2. QED
        BY <3>2, <4>1
    <3>3. QED
      BY <3>1, <3>2
  <2>2. f = [s \in SUBSET (1 .. n) |-> f[s]]
    BY <1>5
  <2>3. QED
    BY <1>1, <2>1, <2>2
<1>7. \A s \in SUBSET (1 .. n) : h[s] = IF s = {} THEN base ELSE Own(h[s \ {Max(s)}], ss[Max(s)])
  <2>1. Is(h)
    <3> HIDE DEF Is
    <3>1. QED
      BY <1>6
  <2>2. h = [s \in SUBSET DOMAIN ss |-> IF s = {} THEN base ELSE Own(h[s \ {Max(s)}], ss[Max(s)])]
    BY <2>1
  <2> HIDE DEF h
  <2>3. QED
    BY <1>1, <2>2
<1> HIDE DEF h
<1>8. \A s \in SUBSET (1 .. n) : s # {} => Max(s) \in 1 .. n
  BY <1>5 DEF IsFold
<1>9. \A s \in SUBSET (1 .. n) : s # {} /\ h[s \ {Max(s)}] \in OwnAccs => h[s] = step[Max(s)][h[s \ {Max(s)}]]
  BY <1>7, <1>8
<1>10. Folds(h, step, n, OwnAccs, base)
  <2>1. h[{}] = base
    BY <1>7
  <2> HIDE DEF step
  <2>2. QED
    BY <1>9, <2>1 DEF Folds
<1>11. PICK g \in [0 .. n -> OwnAccs] : IsRun(g, step, n, base) /\ g[n] = h[1 .. n]
  <2> HIDE DEF step
  <2>1. QED
    BY <1>1, <1>4, <1>10, FoldIsRun
<1>12. \A i \in 1 .. n : g[i] = Own(g[i - 1], ss[i])
  <2> TAKE i \in 1 .. n
  <2>1. i - 1 \in 0 .. n /\ g[i] = step[i][g[i - 1]]
    BY <1>1, <1>11 DEF IsRun
  <2>2. g[i - 1] \in OwnAccs
    BY <2>1
  <2>3. QED
    BY <2>1, <2>2
<1>13. g[0] = base /\ FoldLeft(Own, base, ss) = g[n]
  BY <1>1, <1>2, <1>11 DEF IsRun
<1>14. QED
  BY <1>12, <1>13 DEF n

\* What the sequences in done and the others have in the meantime.
OwnInv(acc, done) ==
    /\ Linked(acc.cell, acc.tail)
    /\ (\E c \in Cells : Empty(acc.cell, c)) => Empty(acc.cell, acc.next)
    /\ \A s \in done : HasOwn(acc, s) /\ (tailOf[s] < 0 => Clean(acc.cell[acc.tail[s]].src))
    /\ \A s \in Seqs \ done : acc.tail[s] = tailOf[s]
    /\ \A s \in Seqs : tailOf[s] >= 0 =>
          /\ acc.tail[s] >= 0
          /\ acc.cell[acc.tail[s]].src = tailOf[s] /\ acc.cell[acc.tail[s]].pos = cell[tailOf[s]].pos
    /\ \A c \in Cells : Empty(acc.cell, c) => acc.cell[c] = cell[c]
    /\ \A c \in Cells : (\A s \in done : acc.tail[s] # c) =>
          acc.cell[c].src = cell[c].src /\ acc.cell[c].pos = cell[c].pos

\* A sequence without a cell of its own takes the empty one that was found, and
\* leaves a cell that it shared to the others.
LEMMA OwnMoves ==
    ASSUME NEW acc \in OwnAccs, NEW s \in Seqs, Linked(acc.cell, acc.tail), ~HasOwn(acc, s),
           (\E c \in Cells : Empty(acc.cell, c)) => Empty(acc.cell, acc.next)
    PROVE  LET old == acc.tail[s]
               new == acc.next
               cells == OwnCells(acc, s)
           IN  /\ new \in Cells /\ Empty(acc.cell, new) /\ new # old
               /\ cells[new].seqs = {s}
               /\ \A c \in Cells : c # new /\ c # old => cells[c] = acc.cell[c]
               /\ old < 0 => cells[new].src = acc.cell[new].src
               /\ old >= 0 =>
                     /\ old \in Cells
                     /\ cells[new].src = acc.cell[old].src /\ cells[new].pos = acc.cell[old].pos
                     /\ cells[old].seqs = acc.cell[old].seqs \ {s} /\ cells[old].seqs # {}
                     /\ cells[old].src = acc.cell[old].src /\ cells[old].pos = acc.cell[old].pos
<1> DEFINE old == acc.tail[s]
           new == acc.next
           cells == OwnCells(acc, s)
<1>1. acc.cell \in [Cells -> CellRecords] /\ acc.tail \in [Seqs -> -1 .. Size - 1] /\ new \in Cells
  BY DEF OwnAccs
<1>2. Empty(acc.cell, new)
  BY <1>1, FreeCell DEF HasOwn
<1>3. new # old
  <2>1. CASE new = old
    <3>1. s \in acc.cell[new].seqs
      BY <1>1, <2>1 DEF Linked
    <3>2. QED
      BY <1>2, <3>1 DEF Empty
  <2>2. QED
    BY <2>1
<1>4. \A c \in Cells : acc.cell[c].seqs \in SUBSET Seqs /\ DOMAIN acc.cell[c] = {"pos", "seqs", "src"}
  BY <1>1 DEF CellRecords
<1>5. CASE old < 0
  <2> DEFINE a == [acc.cell[new] EXCEPT !.seqs = {s}]
  <2>1. cells = [acc.cell EXCEPT ![new] = a]
    BY <1>1, <1>5 DEF OwnCells
  <2>2. a.seqs = {s} /\ a.src = acc.cell[new].src
    BY <1>1, <1>4
  <2> HIDE DEF a, cells
  <2>3. cells[new] = a /\ \A c \in Cells : c # new => cells[c] = acc.cell[c]
    BY <1>1, <2>1
  <2>4. QED
    BY <1>1, <1>2, <1>3, <1>5, <2>2, <2>3 DEF cells
<1>6. CASE ~(old < 0)
  <2>0. old \in Cells /\ old >= 0
    BY <1>1, <1>6, SizeFact DEF Cells
  <2> DEFINE a == [acc.cell[old] EXCEPT !.seqs = {s}]
             b == [acc.cell[old] EXCEPT !.seqs = acc.cell[old].seqs \ {s}]
  <2>2. a.seqs = {s} /\ a.src = acc.cell[old].src /\ a.pos = acc.cell[old].pos
    BY <1>4, <2>0
  <2>3. b.seqs = acc.cell[old].seqs \ {s} /\ b.src = acc.cell[old].src /\ b.pos = acc.cell[old].pos
    BY <1>4, <2>0
  <2>4. cells = [[acc.cell EXCEPT ![new] = a] EXCEPT ![old] = b]
    <3> DEFINE c == [acc.cell EXCEPT ![new] = a]
    <3>1. c[old] = acc.cell[old]
      BY <1>1, <1>3, <2>0
    <3>2. c = OwnCopied(acc, s)
      BY DEF OwnCopied
    <3> HIDE DEF c
    <3>3. cells = [c EXCEPT ![old] = [c[old] EXCEPT !.seqs = c[old].seqs \ {s}]]
      BY <1>6, <3>2 DEF OwnCells
    <3>4. cells = [c EXCEPT ![old] = b]
      BY <3>1, <3>3
    <3>5. QED
      BY <3>4 DEF c
  <2> HIDE DEF a, b, cells
  <2>5. cells[new] = a /\ cells[old] = b /\ \A c \in Cells : c # new /\ c # old => cells[c] = acc.cell[c]
    BY <1>1, <1>3, <2>0, <2>4
  <2>6. acc.cell[old].seqs \ {s} # {}
    <3>1. s \in acc.cell[old].seqs
      BY <2>0 DEF Linked
    <3>2. acc.cell[old].seqs # {s}
      BY <2>0 DEF HasOwn
    <3>3. QED
      BY <3>1, <3>2
  <2>7. QED
    BY <1>1, <1>2, <1>3, <1>6, <2>0, <2>2, <2>3, <2>5, <2>6 DEF cells
<1>7. QED
  BY <1>5, <1>6

LEMMA OwnKeeps ==
    ASSUME MInv, NEW acc \in OwnAccs, NEW done \in SUBSET Seqs, NEW s \in Seqs \ done, OwnInv(acc, done)
    PROVE  OwnInv(Own(acc, s), done \union {s})
<1> DEFINE old == acc.tail[s]
           new == acc.next
           cells == OwnCells(acc, s)
           tails == [acc.tail EXCEPT ![s] = new]
           accN == Own(acc, s)
<1>1. /\ acc.cell \in [Cells -> CellRecords] /\ acc.tail \in [Seqs -> -1 .. Size - 1] /\ new \in Cells
      /\ s \in Seqs /\ old = tailOf[s] /\ tailOf \in [Seqs -> -1 .. Size - 1]
  BY DEF OwnAccs, OwnInv, MInv, MemTypes
<1>2. CASE HasOwn(acc, s)
  <2>1. accN = acc
    BY <1>1, <1>2, OwnIs
  <2>2. tailOf[s] >= 0 /\ ~(tailOf[s] < 0)
    BY <1>1, <1>2 DEF HasOwn
  <2> HIDE DEF accN
  <2>3. QED
    BY <1>2, <2>1, <2>2 DEF OwnInv, accN
<1>3. CASE ~HasOwn(acc, s)
  <2>1. /\ accN.cell = cells /\ accN.tail = tails /\ cells \in [Cells -> CellRecords]
        /\ (\E c \in Cells : Empty(cells, c)) => Empty(cells, accN.next)
    BY <1>1, <1>3, OwnIs
  <2>2. /\ Empty(acc.cell, new) /\ new # old
        /\ cells[new].seqs = {s}
        /\ \A c \in Cells : c # new /\ c # old => cells[c] = acc.cell[c]
        /\ old < 0 => cells[new].src = acc.cell[new].src
        /\ old >= 0 =>
              /\ old \in Cells
              /\ cells[new].src = acc.cell[old].src /\ cells[new].pos = acc.cell[old].pos
              /\ cells[old].seqs = acc.cell[old].seqs \ {s} /\ cells[old].seqs # {}
              /\ cells[old].src = acc.cell[old].src /\ cells[old].pos = acc.cell[old].pos
    BY <1>1, <1>3, OwnMoves DEF OwnInv
  <2>3. tails[s] = new /\ new >= 0 /\ \A t \in Seqs : t # s => tails[t] = acc.tail[t]
    BY <1>1, SizeFact DEF Cells
  <2> HIDE DEF cells, tails, accN
  <2>4. Linked(cells, tails)
    <3>1. \A t \in Seqs : acc.tail[t] # new
      BY <1>1, <2>2 DEF OwnInv, Linked, Empty
    <3>2. \A t \in Seqs, c \in Cells : t \in acc.cell[c].seqs <=> acc.tail[t] = c
      BY DEF OwnInv, Linked
    <3>3. ASSUME NEW t \in Seqs, NEW c \in Cells PROVE t \in cells[c].seqs <=> tails[t] = c
      <4>1. CASE c = new
        BY <2>2, <2>3, <3>1, <4>1
      <4>2. CASE c # new /\ c = old
        <5>1. old >= 0
          BY <4>2, SizeFact DEF Cells
        <5>2. QED
          BY <2>2, <2>3, <3>2, <4>2, <5>1
      <4>3. CASE c # new /\ c # old
        BY <2>2, <2>3, <3>2, <4>3
      <4>4. QED
        BY <4>1, <4>2, <4>3
    <3>4. QED
      BY <3>3 DEF Linked
  <2>5. ASSUME NEW t \in done \union {s}
        PROVE  HasOwn(accN, t) /\ (tailOf[t] < 0 => Clean(cells[tails[t]].src))
    <3>1. CASE t = s
      <4>1. HasOwn(accN, s)
        BY <2>1, <2>2, <2>3 DEF HasOwn
      <4>2. ASSUME tailOf[s] < 0 PROVE Clean(cells[new].src)
        <5>1. acc.cell[new] = cell[new] /\ Empty(cell, new)
          BY <1>1, <2>2 DEF OwnInv, Empty
        <5>2. Clean(cell[new].src)
          BY <1>1, <5>1 DEF MInv, Homes
        <5>3. QED
          BY <1>1, <2>2, <4>2, <5>1, <5>2
      <4>3. QED
        BY <2>3, <3>1, <4>1, <4>2
    <3>2. CASE t # s
      <4>1. t \in done /\ t \in Seqs /\ tails[t] = acc.tail[t] /\ HasOwn(acc, t)
        BY <2>3, <3>2 DEF OwnInv
      <4>2. acc.tail[t] \in Cells /\ acc.cell[acc.tail[t]].seqs = {t}
        BY <1>1, <4>1, SizeFact DEF HasOwn, Cells
      <4>3. acc.tail[t] # new
        BY <2>2, <4>2 DEF Empty
      <4>4. acc.tail[t] # old
        <5>1. acc.tail[t] = old => s \in acc.cell[acc.tail[t]].seqs
          BY <1>1, <4>2 DEF OwnInv, Linked
        <5>2. QED
          BY <3>2, <4>2, <5>1
      <4>5. cells[tails[t]] = acc.cell[acc.tail[t]]
        BY <2>2, <4>1, <4>2, <4>3, <4>4
      <4>6. QED
        BY <2>1, <4>1, <4>5 DEF OwnInv, HasOwn
    <3>3. QED
      BY <3>1, <3>2
  <2>6. \A t \in Seqs \ (done \union {s}) : tails[t] = tailOf[t]
    BY <2>3 DEF OwnInv
  <2>7. ASSUME NEW t \in Seqs, tailOf[t] >= 0
        PROVE  tails[t] >= 0 /\ cells[tails[t]].src = tailOf[t] /\ cells[tails[t]].pos = cell[tailOf[t]].pos
    <3>1. /\ acc.tail[t] >= 0 /\ acc.cell[acc.tail[t]].src = tailOf[t]
          /\ acc.cell[acc.tail[t]].pos = cell[tailOf[t]].pos
      BY <2>7 DEF OwnInv
    <3>2. acc.tail[t] \in Cells /\ acc.tail[t] # new
      BY <1>1, <2>2, <3>1, SizeFact DEF Cells, OwnInv, Linked, Empty
    <3>3. CASE t = s
      BY <1>1, <2>2, <2>3, <2>7, <3>1, <3>3
    <3>4. CASE t # s /\ acc.tail[t] = old
      BY <2>2, <2>3, <3>1, <3>4
    <3>5. CASE t # s /\ acc.tail[t] # old
      <4>1. tails[t] = acc.tail[t] /\ cells[tails[t]] = acc.cell[acc.tail[t]]
        BY <2>2, <2>3, <3>2, <3>5
      <4>2. QED
        BY <3>1, <4>1
    <3>6. QED
      BY <3>3, <3>4, <3>5
  <2>8. ASSUME NEW c \in Cells, Empty(cells, c) PROVE cells[c] = cell[c]
    <3>1. c # new
      BY <2>2, <2>8 DEF Empty
    <3>2. c # old
      <4>1. c = old => old >= 0
        BY SizeFact DEF Cells
      <4>2. QED
        BY <2>2, <2>8, <4>1 DEF Empty
    <3>3. QED
      BY <2>2, <2>8, <3>1, <3>2 DEF Empty, OwnInv
  <2>9. ASSUME NEW c \in Cells, \A t \in done \union {s} : tails[t] # c
        PROVE  cells[c].src = cell[c].src /\ cells[c].pos = cell[c].pos
    <3>1. c # new
      BY <2>3, <2>9
    <3>2. \A t \in done : acc.tail[t] # c
      BY <2>3, <2>9
    <3>3. acc.cell[c].src = cell[c].src /\ acc.cell[c].pos = cell[c].pos
      BY <3>2 DEF OwnInv
    <3>4. CASE c = old
      <4>1. old >= 0
        BY <3>4, SizeFact DEF Cells
      <4>2. QED
        BY <2>2, <3>3, <3>4, <4>1
    <3>5. CASE c # old
      BY <2>2, <3>1, <3>3, <3>5
    <3>6. QED
      BY <3>4, <3>5
  <2>10. QED
    BY <2>1, <2>4, <2>5, <2>6, <2>7, <2>8, <2>9 DEF OwnInv, accN
<1>4. QED
  BY <1>2, <1>3

LEMMA OwnedFacts ==
    ASSUME MInv, NEW ss \in Seq(Seqs), IsInjective(ss), NEW from \in Cells
    PROVE  LET owned == FoldLeft(Own, [cell |-> cell, tail |-> tailOf, next |-> NextEmpty(cell, from)], ss)
           IN  owned \in OwnAccs /\ OwnInv(owned, ToSet(ss))
<1> DEFINE base == [cell |-> cell, tail |-> tailOf, next |-> NextEmpty(cell, from)]
           n == Len(ss)
           done(i) == {ss[j] : j \in 1 .. i}
<1>1. cell \in [Cells -> CellRecords] /\ tailOf \in [Seqs -> -1 .. Size - 1]
  BY DEF MInv, MemTypes
<1>2. NextEmpty(cell, from) \in Cells /\ ((\E c \in Cells : Empty(cell, c)) => Empty(cell, NextEmpty(cell, from)))
  BY <1>1, NextEmptyFinds
<1>3. base \in OwnAccs
  BY <1>1, <1>2 DEF OwnAccs
<1>4. OwnInv(base, {})
  <2>1. base.cell = cell /\ base.tail = tailOf /\ base.next = NextEmpty(cell, from)
    OBVIOUS
  <2>2. Linked(cell, tailOf)
    BY DEF MInv
  <2>3. ASSUME NEW s \in Seqs, tailOf[s] >= 0
        PROVE  cell[tailOf[s]].src = tailOf[s]
    <3>1. tailOf[s] \in Cells
      BY <1>1, <2>3, SizeFact DEF Cells
    <3>2. ~Empty(cell, tailOf[s])
      BY <2>2, <3>1 DEF Linked, Empty
    <3>3. QED
      BY <3>1, <3>2 DEF MInv, Homes
  <2> HIDE DEF base
  <2>4. QED
    BY <1>2, <2>1, <2>2, <2>3 DEF OwnInv
<1> HIDE DEF base
<1>5. n \in Nat /\ \A i \in 1 .. n : ss[i] \in Seqs
  OBVIOUS
<1>6. PICK g \in [0 .. n -> OwnAccs] :
        /\ g[0] = base /\ FoldLeft(Own, base, ss) = g[n]
        /\ \A i \in 1 .. n : g[i] = Own(g[i - 1], ss[i])
  BY <1>3, OwnRuns
<1> HIDE DEF n
<1> DEFINE S == {m \in Nat : m <= n => OwnInv(g[m], done(m))}
<1>7. 0 \in S
  <2>1. done(0) = {}
    OBVIOUS
  <2> HIDE DEF done
  <2>2. QED
    BY <1>4, <1>6, <2>1
<1>8. ASSUME NEW m \in S, m + 1 <= n PROVE m + 1 \in S
  <2>1. m \in Nat /\ m + 1 \in 1 .. n /\ m \in 0 .. n /\ m + 1 - 1 = m /\ OwnInv(g[m], done(m))
    BY <1>5, <1>8
  <2>2. done(m + 1) = done(m) \union {ss[m + 1]}
    <3>1. \A j \in 1 .. m + 1 : j \in 1 .. m \/ j = m + 1
      BY <2>1
    <3>2. m + 1 \in 1 .. m + 1 /\ 1 .. m \subseteq 1 .. m + 1
      BY <2>1
    <3>3. QED
      BY <3>1, <3>2
  <2>3. done(m) \in SUBSET Seqs
    BY <1>5, <2>1
  <2>4. ss[m + 1] \in Seqs \ done(m)
    <3>1. \A j \in 1 .. m : j \in DOMAIN ss /\ j # m + 1
      BY <1>5, <2>1 DEF n
    <3>2. m + 1 \in DOMAIN ss
      BY <2>1 DEF n
    <3>3. QED
      BY <1>5, <2>1, <3>1, <3>2 DEF IsInjective
  <2>5. g[m] \in OwnAccs /\ g[m + 1] = Own(g[m], ss[m + 1])
    BY <1>6, <2>1
  <2> HIDE DEF done
  <2>6. OwnInv(Own(g[m], ss[m + 1]), done(m) \union {ss[m + 1]})
    BY <2>1, <2>3, <2>4, <2>5, OwnKeeps
  <2>7. OwnInv(g[m + 1], done(m + 1))
    BY <2>2, <2>5, <2>6
  <2>8. QED
    BY <2>1, <2>7
<1>9. S \in SUBSET Nat
  OBVIOUS
<1>10. \A m \in 0 .. n : m \in S
  <2> HIDE DEF S
  <2>1. QED
    BY <1>5, <1>7, <1>8, <1>9, InductionUpTo
<1>11. done(n) = ToSet(ss)
  BY DEF ToSet, n
<1> HIDE DEF done
<1>12. OwnInv(g[n], ToSet(ss)) /\ g[n] \in OwnAccs
  BY <1>5, <1>6, <1>10, <1>11
<1>13. QED
  BY <1>6, <1>12 DEF base

-----------------------------------------------------------------------------
(* find_slot gathers the cells of the ubatch.                               *)

Layouts == [cell : [Cells -> CellRecords], tail : [Seqs -> -1 .. Size - 1]]
LayoutsOf(ss) == {acc \in Layouts : \A s \in ToSet(ss) : acc.tail[s] \in Cells}

LEMMA NeighbourIs ==
    ASSUME NEW ss \in Seq(Seqs), NEW acc \in LayoutsOf(ss), NEW s \in ToSet(ss), NEW dst \in Cells
    PROVE  LET src == acc.tail[s]
               new == Neighbour(acc, s, dst)
           IN  /\ new \in LayoutsOf(ss) /\ src \in Cells
               /\ new.cell[dst] = acc.cell[src] /\ new.cell[src] = acc.cell[dst]
               /\ \A c \in Cells : c # dst /\ c # src => new.cell[c] = acc.cell[c]
               /\ \A t \in Seqs : new.tail[t] = IF acc.tail[t] = src THEN dst
                                                ELSE IF acc.tail[t] = dst THEN src ELSE acc.tail[t]
<1> DEFINE src == acc.tail[s]
           new == Neighbour(acc, s, dst)
           tails == [t \in Seqs |-> IF acc.tail[t] = src THEN dst ELSE IF acc.tail[t] = dst THEN src ELSE acc.tail[t]]
           cells == [acc.cell EXCEPT ![dst] = acc.cell[src], ![src] = acc.cell[dst]]
<1>1. /\ acc.cell \in [Cells -> CellRecords] /\ acc.tail \in [Seqs -> -1 .. Size - 1] /\ src \in Cells
      /\ \A t \in ToSet(ss) : t \in Seqs /\ acc.tail[t] \in Cells
  BY DEF LayoutsOf, Layouts, ToSet
<1>2. new.cell = cells /\ new.tail = tails /\ new = [cell |-> cells, tail |-> tails]
  BY DEF Neighbour
<1>3. cells \in [Cells -> CellRecords]
  BY <1>1
<1>4. \A c \in Cells : cells[c] = IF c = src THEN acc.cell[dst] ELSE IF c = dst THEN acc.cell[src] ELSE acc.cell[c]
  BY <1>1
<1>5. \A t \in Seqs : tails[t] = IF acc.tail[t] = src THEN dst ELSE IF acc.tail[t] = dst THEN src ELSE acc.tail[t]
  OBVIOUS
<1>6. \A c \in Cells : c \in -1 .. Size - 1
  BY SizeFact DEF Cells
<1>7. tails \in [Seqs -> -1 .. Size - 1] /\ \A t \in ToSet(ss) : tails[t] \in Cells
  BY <1>1, <1>6
<1> HIDE DEF cells, tails
<1>8. new \in LayoutsOf(ss)
  BY <1>2, <1>3, <1>7 DEF LayoutsOf, Layouts
<1> HIDE DEF new
<1>9. QED
  BY <1>1, <1>2, <1>4, <1>5, <1>8 DEF new

\* The fold places one sequence after the other.
LayoutOf(owned) == [cell |-> owned.cell, tail |-> owned.tail]
Fits(lo, ss) == \A i \in 1 .. Len(ss) : lo + i - 1 \in Cells
GatherRun(g, owned, lo, ss) ==
    /\ g \in [0 .. Len(ss) -> LayoutsOf(ss)]
    /\ g[0] = LayoutOf(owned) /\ Gathered(owned, lo, ss) = g[Len(ss)]
    /\ \A i \in 1 .. Len(ss) : g[i] = Neighbour(g[i - 1], ss[i], lo + i - 1)

LEMMA GatherRuns ==
    ASSUME NEW ss \in Seq(Seqs), NEW owned, NEW lo \in Cells, Fits(lo, ss), LayoutOf(owned) \in LayoutsOf(ss)
    PROVE  \E g : GatherRun(g, owned, lo, ss)
<1> DEFINE n == Len(ss)
           base == LayoutOf(owned)
           accs == LayoutsOf(ss)
           order == [i \in DOMAIN ss |-> i]
           Put(acc, i) == Neighbour(acc, ss[i], lo + i - 1)
           step == [i \in 1 .. n |-> [acc \in accs |-> Put(acc, i)]]
           Is(h) == h = [s \in SUBSET DOMAIN order |->
                            IF s = {} THEN base ELSE Put(h[s \ {Max(s)}], order[Max(s)])]
           h == CHOOSE f : Is(f)
<1>1. n \in Nat /\ DOMAIN order = 1 .. n /\ \A i \in 1 .. n : order[i] = i /\ ss[i] \in ToSet(ss)
  BY DEF ToSet
<1>2. Gathered(owned, lo, ss) = h[DOMAIN order]
  BY DEF Gathered, LayoutOf, FoldLeftDomain, FoldLeft, MapThenFoldSet
<1>3. \A i \in 1 .. n : \A acc \in accs : Put(acc, i) \in accs
  BY <1>1, NeighbourIs DEF Fits
<1> HIDE DEF n, order, Put, base
<1>4. Steps(step, n, accs)
  <2> HIDE DEF accs
  <2>1. QED
    BY <1>3 DEF Steps
<1> HIDE DEF accs
<1>5. PICK f \in [SUBSET (1 .. n) -> accs] : IsFold(f, step, n, base)
  <2>1. base \in accs
    BY DEF base, accs
  <2> HIDE DEF step
  <2>2. QED
    BY <1>1, <1>4, <2>1, FoldExists DEF HasFold
<1>6. Is(f)
  <2>1. ASSUME NEW s \in SUBSET (1 .. n)
        PROVE  f[s] = IF s = {} THEN base ELSE Put(f[s \ {Max(s)}], order[Max(s)])
    <3>1. CASE s = {}
      BY <1>5, <3>1 DEF IsFold
    <3>2. CASE s # {}
      <4>1. Max(s) \in 1 .. n /\ f[s] = step[Max(s)][f[s \ {Max(s)}]] /\ f[s \ {Max(s)}] \in accs
        BY <1>5, <3>2 DEF IsFold
      <4>2. order[Max(s)] = Max(s)
        BY <1>1, <4>1
      <4>3. QED
        BY <3>2, <4>1, <4>2
    <3>3. QED
      BY <3>1, <3>2
  <2>2. f = [s \in SUBSET (1 .. n) |-> f[s]]
    BY <1>5
  <2>3. QED
    BY <1>1, <2>1, <2>2
<1>7. \A s \in SUBSET (1 .. n) : h[s] = IF s = {} THEN base ELSE Put(h[s \ {Max(s)}], order[Max(s)])
  <2>1. Is(h)
    <3> HIDE DEF Is
    <3>1. QED
      BY <1>6
  <2>2. h = [s \in SUBSET DOMAIN order |-> IF s = {} THEN base ELSE Put(h[s \ {Max(s)}], order[Max(s)])]
    BY <2>1
  <2> HIDE DEF h
  <2>3. QED
    BY <1>1, <2>2
<1> HIDE DEF h
<1>8. \A s \in SUBSET (1 .. n) : s # {} => Max(s) \in 1 .. n /\ order[Max(s)] = Max(s)
  BY <1>1, <1>5 DEF IsFold
<1>9. \A s \in SUBSET (1 .. n) : s # {} /\ h[s \ {Max(s)}] \in accs => h[s] = step[Max(s)][h[s \ {Max(s)}]]
  BY <1>7, <1>8
<1>10. Folds(h, step, n, accs, base)
  <2>1. h[{}] = base
    BY <1>7
  <2> HIDE DEF step
  <2>2. QED
    BY <1>9, <2>1 DEF Folds
<1>11. PICK g \in [0 .. n -> accs] : IsRun(g, step, n, base) /\ g[n] = h[1 .. n]
  <2>1. base \in accs
    BY DEF base, accs
  <2> HIDE DEF step
  <2>2. QED
    BY <1>1, <1>4, <1>10, <2>1, FoldIsRun
<1>12. \A i \in 1 .. n : g[i] = Put(g[i - 1], i)
  <2> TAKE i \in 1 .. n
  <2>1. i - 1 \in 0 .. n /\ g[i] = step[i][g[i - 1]]
    BY <1>1, <1>11 DEF IsRun
  <2>2. g[i - 1] \in accs
    BY <2>1
  <2>3. QED
    BY <2>1, <2>2
<1>13. g[0] = base /\ Gathered(owned, lo, ss) = g[n]
  BY <1>1, <1>2, <1>11 DEF IsRun
<1>14. QED
  BY <1>11, <1>12, <1>13 DEF n, accs, base, Put, GatherRun


\* The cells of the sequences lie between lo and hi, each with one of its own.
Spread(owned, lo, hi, ss) ==
    /\ owned \in OwnAccs /\ Linked(owned.cell, owned.tail)
    /\ lo \in Cells /\ hi \in Cells
    /\ \A s \in ToSet(ss) : HasOwn(owned, s) /\ owned.tail[s] \in lo .. hi

\* After i sequences were placed.
GatherInv(acc, i, owned, lo, hi, ss) ==
    /\ Linked(acc.cell, acc.tail)
    /\ \A j \in 1 .. i : acc.tail[ss[j]] = lo + j - 1
    /\ \A s \in ToSet(ss) : acc.tail[s] \in lo .. hi
    /\ \A s \in Seqs : IF owned.tail[s] < 0 THEN acc.tail[s] < 0
                       ELSE acc.tail[s] >= 0 /\ acc.cell[acc.tail[s]] = owned.cell[owned.tail[s]]
    /\ \A c \in Cells : IF c \in lo .. hi THEN \E d \in lo .. hi : acc.cell[c] = owned.cell[d]
                        ELSE acc.cell[c] = owned.cell[c]

LEMMA GatherKeeps ==
    ASSUME NEW ss \in Seq(Seqs), IsInjective(ss), NEW owned, NEW lo, NEW hi, Spread(owned, lo, hi, ss),
           NEW acc \in LayoutsOf(ss), NEW i \in Nat, i + 1 <= Len(ss), GatherInv(acc, i, owned, lo, hi, ss)
    PROVE  /\ lo + i \in lo .. hi
           /\ GatherInv(Neighbour(acc, ss[i + 1], lo + i), i + 1, owned, lo, hi, ss)
<1> DEFINE s == ss[i + 1]
           dst == lo + i
           src == acc.tail[s]
           new == Neighbour(acc, s, dst)
<1>1. /\ i + 1 \in DOMAIN ss /\ \A j \in 1 .. i + 1 : j \in DOMAIN ss /\ ss[j] \in ToSet(ss) /\ ss[j] \in Seqs
      /\ s \in ToSet(ss) /\ s \in Seqs
  BY DEF ToSet
<1>2. lo \in Cells /\ hi \in Cells /\ lo \in Int /\ hi \in Int /\ lo .. hi \subseteq Cells
  BY SizeFact DEF Spread, Cells
<1>3. src \in lo .. hi
  BY <1>1 DEF GatherInv
<1>4. \A t \in ToSet(ss) : t \in Seqs /\ acc.tail[t] \in Cells /\ acc.cell[acc.tail[t]].seqs = {t}
  <2> TAKE t \in ToSet(ss)
  <2>1. t \in Seqs /\ acc.tail[t] \in Cells
    BY DEF LayoutsOf, ToSet
  <2>2. owned.tail[t] >= 0 /\ ~(owned.tail[t] < 0) /\ owned.cell[owned.tail[t]].seqs = {t}
    BY <2>1 DEF Spread, HasOwn, OwnAccs
  <2>3. QED
    BY <2>1, <2>2 DEF GatherInv
<1>5. ASSUME NEW j \in 1 .. i PROVE acc.tail[ss[j]] = lo + j - 1 /\ ss[j] # s /\ lo + j - 1 # src /\ lo + j - 1 # dst
  <2>1. j \in 1 .. i + 1 /\ j # i + 1
    OBVIOUS
  <2>2. ss[j] # s
    BY <1>1, <2>1 DEF IsInjective
  <2>3. acc.tail[ss[j]] = lo + j - 1
    BY DEF GatherInv
  <2>4. lo + j - 1 # src
    <3>1. ss[j] \in ToSet(ss)
      BY <1>1, <2>1
    <3>2. acc.tail[ss[j]] = src => {ss[j]} = {s}
      BY <1>1, <1>4, <3>1
    <3>3. QED
      BY <2>2, <2>3, <3>2
  <2>5. QED
    BY <1>2, <2>2, <2>3, <2>4
<1>6. src >= dst
  <2>1. CASE src < dst
    <3>1. src - lo + 1 \in 1 .. i /\ lo + (src - lo + 1) - 1 = src
      <4>1. lo \in Int /\ src \in Int /\ lo <= src
        BY <1>2, <1>3
      <4> HIDE DEF src
      <4>2. QED
        BY <2>1, <4>1
    <3>2. QED
      BY <1>5, <3>1
  <2>2. QED
    BY <1>2, <1>3, <2>1
<1>7. dst \in lo .. hi /\ dst \in Cells
  BY <1>2, <1>3, <1>6
<1>8. /\ new \in LayoutsOf(ss) /\ src \in Cells
      /\ new.cell[dst] = acc.cell[src] /\ new.cell[src] = acc.cell[dst]
      /\ \A c \in Cells : c # dst /\ c # src => new.cell[c] = acc.cell[c]
      /\ \A t \in Seqs : new.tail[t] = IF acc.tail[t] = src THEN dst
                                       ELSE IF acc.tail[t] = dst THEN src ELSE acc.tail[t]
  BY <1>1, <1>7, NeighbourIs
<1>9. \A t \in Seqs : acc.tail[t] \in -1 .. Size - 1 /\ (acc.tail[t] >= 0 => acc.tail[t] \in Cells)
  BY SizeFact DEF LayoutsOf, Layouts, Cells
<1> HIDE DEF new, dst, src, s
<1>10. Linked(new.cell, new.tail)
  <2>1. \A t \in Seqs, c \in Cells : t \in acc.cell[c].seqs <=> acc.tail[t] = c
    BY DEF GatherInv, Linked
  <2>2. ASSUME NEW t \in Seqs, NEW c \in Cells PROVE t \in new.cell[c].seqs <=> new.tail[t] = c
    <3>1. CASE c = dst
      BY <1>7, <1>8, <2>1, <3>1
    <3>2. CASE c # dst /\ c = src
      BY <1>7, <1>8, <2>1, <3>2
    <3>3. CASE c # dst /\ c # src
      BY <1>7, <1>8, <2>1, <3>3
    <3>4. QED
      BY <3>1, <3>2, <3>3
  <2>3. QED
    BY <2>2 DEF Linked
<1>11. ASSUME NEW j \in 1 .. i + 1 PROVE new.tail[ss[j]] = lo + j - 1
  <2>1. CASE j = i + 1
    <3>1. ss[j] = s /\ lo + j - 1 = dst
      BY <1>2, <2>1 DEF s, dst
    <3>2. new.tail[s] = dst
      BY <1>1, <1>8 DEF src
    <3>3. QED
      BY <3>1, <3>2
  <2>2. CASE j # i + 1
    <3>1. j \in 1 .. i /\ ss[j] \in Seqs
      BY <1>1, <2>2
    <3>2. QED
      BY <1>5, <1>8, <3>1
  <2>3. QED
    BY <2>1, <2>2
<1>12. \A t \in ToSet(ss) : new.tail[t] \in lo .. hi
  BY <1>3, <1>4, <1>7, <1>8 DEF GatherInv
<1>13. ASSUME NEW t \in Seqs
       PROVE  IF owned.tail[t] < 0 THEN new.tail[t] < 0
              ELSE new.tail[t] >= 0 /\ new.cell[new.tail[t]] = owned.cell[owned.tail[t]]
  <2>1. dst >= 0 /\ src >= 0 /\ \A c \in Cells : c >= 0 /\ ~(c < 0)
    BY <1>7, <1>8, SizeFact DEF Cells
  <2>2. CASE owned.tail[t] < 0
    <3>1. acc.tail[t] < 0
      BY <2>2 DEF GatherInv
    <3>2. acc.tail[t] # src /\ acc.tail[t] # dst
      BY <1>7, <1>8, <2>1, <3>1
    <3>3. QED
      BY <1>8, <2>2, <3>1, <3>2
  <2>3. CASE ~(owned.tail[t] < 0)
    <3>1. acc.tail[t] \in Cells /\ acc.cell[acc.tail[t]] = owned.cell[owned.tail[t]]
      BY <1>9, <2>3 DEF GatherInv
    <3>2. new.tail[t] \in Cells /\ new.cell[new.tail[t]] = acc.cell[acc.tail[t]]
      <4>1. CASE acc.tail[t] = src
        BY <1>7, <1>8, <4>1
      <4>2. CASE acc.tail[t] # src /\ acc.tail[t] = dst
        BY <1>7, <1>8, <4>2
      <4>3. CASE acc.tail[t] # src /\ acc.tail[t] # dst
        BY <1>8, <3>1, <4>3
      <4>4. QED
        BY <4>1, <4>2, <4>3
    <3>3. QED
      BY <2>1, <2>3, <3>1, <3>2
  <2>4. QED
    BY <2>2, <2>3
<1>14. ASSUME NEW c \in Cells
       PROVE  IF c \in lo .. hi THEN \E d \in lo .. hi : new.cell[c] = owned.cell[d]
              ELSE new.cell[c] = owned.cell[c]
  <2>1. CASE c \in lo .. hi
    <3>1. \A e \in lo .. hi : \E d \in lo .. hi : acc.cell[e] = owned.cell[d]
      BY <1>2 DEF GatherInv
    <3>2. \E e \in lo .. hi : new.cell[c] = acc.cell[e]
      <4>1. CASE c = dst
        BY <1>3, <1>8, <4>1
      <4>2. CASE c # dst /\ c = src
        BY <1>7, <1>8, <4>2
      <4>3. CASE c # dst /\ c # src
        BY <1>8, <2>1, <4>3
      <4>4. QED
        BY <4>1, <4>2, <4>3
    <3>3. QED
      BY <2>1, <3>1, <3>2
  <2>2. CASE c \notin lo .. hi
    <3>1. new.cell[c] = acc.cell[c]
      BY <1>3, <1>7, <1>8, <2>2
    <3>2. QED
      BY <2>2, <3>1 DEF GatherInv
  <2>3. QED
    BY <2>1, <2>2
<1>15. GatherInv(new, i + 1, owned, lo, hi, ss)
  BY <1>10, <1>11, <1>12, <1>13, <1>14 DEF GatherInv
<1>16. QED
  BY <1>7, <1>15 DEF new, dst, s

\* There is room between lo and hi for all of them.
LEMMA RoomBetween ==
    ASSUME NEW ss \in Seq(Seqs), IsInjective(ss), NEW owned, NEW lo, NEW hi, Spread(owned, lo, hi, ss)
    PROVE  \A i \in 1 .. Len(ss) : lo + i - 1 \in lo .. hi
<1> DEFINE f == [i \in 1 .. Len(ss) |-> owned.tail[ss[i]]]
<1>1. lo \in Nat /\ hi \in Nat /\ Len(ss) \in Nat /\ DOMAIN ss = 1 .. Len(ss)
  BY SizeFact DEF Spread, Cells
<1>2. \A i \in 1 .. Len(ss) : f[i] \in lo .. hi /\ owned.cell[f[i]].seqs = {ss[i]}
  BY <1>1 DEF Spread, ToSet, HasOwn
<1> HIDE DEF f
<1>3. f \in [1 .. Len(ss) -> lo .. hi]
  <2>1. f = [i \in 1 .. Len(ss) |-> f[i]]
    BY DEF f
  <2>2. QED
    BY <1>2, <2>1
<1>4. \A i, j \in 1 .. Len(ss) : f[i] = f[j] => i = j
  <2> TAKE i, j \in 1 .. Len(ss)
  <2>1. f[i] = f[j] => ss[i] = ss[j]
    <3>1. f[i] = f[j] => {ss[i]} = {ss[j]}
      BY <1>2
    <3>2. QED
      BY <3>1
  <2>2. QED
    BY <1>1, <2>1 DEF IsInjective
<1>5. \A a, b \in Int : IsFiniteSet(a .. b) /\ Cardinality(a .. b) = IF a > b THEN 0 ELSE b - a + 1
  BY FS_Interval
<1>6. IsFiniteSet(lo .. hi) /\ Cardinality(lo .. hi) = IF lo > hi THEN 0 ELSE hi - lo + 1
  <2>1. lo \in Int /\ hi \in Int
    BY <1>1
  <2>2. QED
    BY <2>1, <1>5
<1>7. IsFiniteSet(1 .. Len(ss)) /\ Cardinality(1 .. Len(ss)) = Len(ss)
  <2>1. 1 \in Int /\ Len(ss) \in Int /\ (1 > Len(ss) => Len(ss) = 0) /\ Len(ss) - 1 + 1 = Len(ss)
    BY <1>1
  <2>2. IsFiniteSet(1 .. Len(ss)) /\ Cardinality(1 .. Len(ss)) = IF 1 > Len(ss) THEN 0 ELSE Len(ss) - 1 + 1
    BY <1>5, <2>1
  <2>3. QED
    BY <2>1, <2>2
<1>8. ~(Cardinality(lo .. hi) < Cardinality(1 .. Len(ss)))
  <2> DEFINE A == 1 .. Len(ss)
             B == lo .. hi
  <2> HIDE DEF A, B
  <2>1. SUFFICES ASSUME Cardinality(B) < Cardinality(A) PROVE FALSE
    BY DEF A, B
  <2>2. f \in [A -> B] /\ IsFiniteSet(A) /\ IsFiniteSet(B)
    BY <1>3, <1>6, <1>7 DEF A, B
  <2>3. \E i, j \in A : i # j /\ f[i] = f[j]
    BY <2>1, <2>2, FS_PigeonHole
  <2>4. QED
    BY <1>4, <2>3 DEF A
<1>9. QED
  BY <1>1, <1>6, <1>7, <1>8

LEMMA GatheredFacts ==
    ASSUME NEW ss \in Seq(Seqs), IsInjective(ss), NEW owned, NEW lo, NEW hi, Spread(owned, lo, hi, ss)
    PROVE  /\ Gathered(owned, lo, ss) \in Layouts
           /\ GatherInv(Gathered(owned, lo, ss), Len(ss), owned, lo, hi, ss)
           /\ \A i \in 1 .. Len(ss) : lo + i - 1 \in lo .. hi
<1> DEFINE n == Len(ss)
           base == LayoutOf(owned)
<1>1. \A i \in 1 .. n : lo + i - 1 \in lo .. hi
  BY RoomBetween
<1>2. lo \in Cells /\ hi \in Cells /\ lo \in Int /\ hi \in Int /\ lo .. hi \subseteq Cells /\ \A c \in Cells : c >= 0 /\ ~(c < 0)
  BY SizeFact DEF Spread, Cells
<1>3. /\ base \in Layouts /\ Linked(owned.cell, owned.tail)
      /\ owned.tail \in [Seqs -> -1 .. Size - 1]
      /\ base.cell = owned.cell /\ base.tail = owned.tail
  BY DEF Spread, OwnAccs, Layouts, LayoutOf
<1>4. \A s \in ToSet(ss) : owned.tail[s] \in lo .. hi
  BY DEF Spread
<1>5. base \in LayoutsOf(ss)
  BY <1>2, <1>3, <1>4 DEF LayoutsOf
<1>6. GatherInv(base, 0, owned, lo, hi, ss)
  <2>1. base.cell = owned.cell /\ base.tail = owned.tail
    BY <1>3
  <2>2. \A s \in Seqs : owned.tail[s] < 0 \/ owned.tail[s] >= 0
    BY <1>3
  <2>3. \A c \in Cells : c \in lo .. hi => \E d \in lo .. hi : owned.cell[c] = owned.cell[d]
    OBVIOUS
  <2>4. \A j \in 1 .. 0 : FALSE
    OBVIOUS
  <2> HIDE DEF base
  <2>5. QED
    BY <1>3, <1>4, <2>1, <2>2, <2>3, <2>4 DEF GatherInv
<1> HIDE DEF base
<1>7. PICK g : GatherRun(g, owned, lo, ss)
  <2>1. Fits(lo, ss)
    BY <1>1, <1>2 DEF Fits
  <2>2. QED
    BY <1>2, <1>5, <2>1, GatherRuns DEF base
<1>8. n \in Nat
  OBVIOUS
<1> DEFINE S == {m \in Nat : m <= n => GatherInv(g[m], m, owned, lo, hi, ss)}
<1>9. 0 \in S
  BY <1>6, <1>7 DEF GatherRun, base
<1>10. ASSUME NEW m \in S, m + 1 <= n PROVE m + 1 \in S
  <2>1. /\ m \in Nat /\ m + 1 \in 1 .. n /\ m \in 0 .. n /\ m + 1 - 1 = m /\ lo + (m + 1) - 1 = lo + m
        /\ GatherInv(g[m], m, owned, lo, hi, ss)
    BY <1>2, <1>8, <1>10
  <2>2. g[m] \in LayoutsOf(ss) /\ g[m + 1] = Neighbour(g[m], ss[m + 1], lo + m)
    BY <1>7, <2>1 DEF GatherRun
  <2>3. GatherInv(Neighbour(g[m], ss[m + 1], lo + m), m + 1, owned, lo, hi, ss)
    BY <1>10, <2>1, <2>2, GatherKeeps
  <2>4. GatherInv(g[m + 1], m + 1, owned, lo, hi, ss)
    BY <2>2, <2>3
  <2>5. QED
    BY <2>1, <2>4
<1>11. S \in SUBSET Nat
  OBVIOUS
<1>12. \A m \in 0 .. n : m \in S
  <2> HIDE DEF S
  <2>1. QED
    BY <1>8, <1>9, <1>10, <1>11, InductionUpTo
<1>13. GatherInv(g[n], n, owned, lo, hi, ss) /\ g[n] \in LayoutsOf(ss)
  BY <1>7, <1>8, <1>12 DEF GatherRun
<1>14. QED
  BY <1>1, <1>7, <1>13 DEF LayoutsOf, GatherRun

\* What find_slot leaves: the sequences of the ubatch side by side, each with a
\* cell of its own; every cell knows the row of its state; the cells outside of
\* the range lose sequences at most.
Placement(p, ss, n) ==
    /\ p.lo \in Cells /\ p.hi \in Cells /\ (Len(ss) = 1 => p.hi = p.lo)
    /\ p.cell \in [Cells -> CellRecords] /\ p.tail \in [Seqs -> -1 .. Size - 1] /\ Linked(p.cell, p.tail)
    /\ \A j \in 1 .. Len(ss) :
          /\ p.lo + j - 1 \in p.lo .. p.hi /\ p.tail[ss[j]] = p.lo + j - 1
          /\ p.cell[p.lo + j - 1].seqs = {ss[j]} /\ p.cell[p.lo + j - 1].pos = PosMax(ss[j]) + n
          /\ tailOf[ss[j]] < 0 => Clean(p.cell[p.lo + j - 1].src)
    /\ \A s \in Seqs : tailOf[s] >= 0 => p.tail[s] >= 0 /\ p.cell[p.tail[s]].src = tailOf[s]
    /\ \A s \in Seqs \ ToSet(ss) : IF tailOf[s] < 0 THEN p.tail[s] < 0
                                   ELSE p.cell[p.tail[s]].pos = cell[tailOf[s]].pos
    /\ \A c \in Cells : Empty(p.cell, c) => p.cell[c].pos < 0 /\ Clean(p.cell[c].src)
    /\ \A c \in Cells \ (p.lo .. p.hi) :
          /\ p.cell[c].src = cell[c].src /\ p.cell[c].pos = cell[c].pos
          /\ Empty(p.cell, c) <=> Empty(cell, c)
          /\ \A s \in Seqs : p.tail[s] = c => tailOf[s] = c

\* The range spans the cells that the sequences own.
LEMMA OwnedSpread ==
    ASSUME NEW ss \in Seq(Seqs), ss # <<>>, NEW owned \in OwnAccs, OwnInv(owned, ToSet(ss))
    PROVE  LET tails == {owned.tail[s] : s \in ToSet(ss)}
           IN  Spread(owned, Min(tails), Max(tails), ss)
<1> DEFINE tails == {owned.tail[s] : s \in ToSet(ss)}
<1>1. \A s \in ToSet(ss) : s \in Seqs
  BY DEF ToSet
<1>2. ToSet(ss) # {}
  <2>1. ss[1] \in ToSet(ss)
    BY DEF ToSet
  <2>2. QED
    BY <2>1
<1>3. \A s \in ToSet(ss) : HasOwn(owned, s) /\ owned.tail[s] \in tails
  BY DEF OwnInv
<1>4. tails # {} /\ tails \in SUBSET Nat /\ tails \in SUBSET (0 .. Size - 1) /\ Size - 1 \in Nat
  <2>1. \A s \in ToSet(ss) : owned.tail[s] \in 0 .. Size - 1 /\ owned.tail[s] \in Nat
    BY <1>1, <1>3, SizeFact DEF HasOwn, OwnAccs
  <2>2. QED
    BY <1>2, <2>1, SizeFact
<1> HIDE DEF tails
<1>5. Min(tails) \in tails /\ \A k \in tails : Min(tails) <= k
  BY <1>4, SmallestExists
<1>6. Max(tails) \in tails /\ \A k \in tails : k <= Max(tails)
  BY <1>4, LargestExists
<1>7. \A k \in tails : k \in Int /\ k \in Cells
  BY <1>4 DEF Cells
<1>8. \A k \in tails : k \in Min(tails) .. Max(tails)
  BY <1>5, <1>6, <1>7
<1>9. QED
  BY <1>3, <1>5, <1>6, <1>7, <1>8 DEF Spread, OwnInv, tails

LEMMA PlacedFacts ==
    ASSUME MInv, NEW ss \in Seq(Seqs), ss # <<>>, IsInjective(ss), NEW n \in Nat
    PROVE  Placement(Placed(ss, n), ss, n)
<1> DEFINE from == IF searchFrom > Used + 2 * Len(ss) THEN 0 ELSE searchFrom
           owned == FoldLeft(Own, [cell |-> cell, tail |-> tailOf, next |-> NextEmpty(cell, from)], ss)
           tails == {owned.tail[s] : s \in ToSet(ss)}
           lo == Min(tails)
           hi == Max(tails)
           put == Gathered(owned, lo, ss)
           cells == [c \in Cells |-> IF c - lo \in 0 .. Len(ss) - 1
                                     THEN [put.cell[c] EXCEPT !.pos = PosMax(ss[c - lo + 1]) + n]
                                     ELSE put.cell[c]]
           p == Placed(ss, n)
<1>1. p.lo = lo /\ p.hi = hi /\ p.tail = put.tail /\ p.cell = cells
  BY DEF Placed
<1>2. owned \in OwnAccs /\ OwnInv(owned, ToSet(ss))
  <2>1. from \in Cells
    BY SizeFact DEF MInv, MemTypes
  <2> HIDE DEF from
  <2>2. QED
    BY <2>1, OwnedFacts
<1> HIDE DEF owned
<1>3. Spread(owned, lo, hi, ss)
  BY <1>2, OwnedSpread
<1> HIDE DEF lo, hi
<1>21. Len(ss) = 1 => hi = lo
  <2>1. ASSUME Len(ss) = 1 PROVE tails = {owned.tail[ss[1]]}
    <3>1. DOMAIN ss = {1}
      BY <2>1
    <3>2. QED
      BY <3>1 DEF ToSet
  <2> DEFINE t == owned.tail[ss[1]]
  <2>2. ASSUME Len(ss) = 1 PROVE t \in Int
    <3>1. ss[1] \in Seqs
      BY <2>2
    <3>2. QED
      BY <1>2, <3>1 DEF OwnAccs
  <2>3. t \in Int => Min({t}) = t /\ Max({t}) = t
    <3> HIDE DEF t
    <3>1. QED
      BY DEF Min, Max
  <2>4. QED
    BY <2>1, <2>2, <2>3 DEF lo, hi
<1>4. /\ put \in Layouts /\ GatherInv(put, Len(ss), owned, lo, hi, ss)
      /\ \A j \in 1 .. Len(ss) : lo + j - 1 \in lo .. hi
  BY <1>3, GatheredFacts
<1> HIDE DEF put, p
<1>5. /\ lo \in Cells /\ hi \in Cells /\ lo \in Int /\ hi \in Int /\ lo .. hi \subseteq Cells
      /\ \A c \in Cells : c \in Int /\ c >= 0 /\ ~(c < 0)
  BY <1>3, SizeFact DEF Spread, Cells
<1>6. /\ put.cell \in [Cells -> CellRecords] /\ put.tail \in [Seqs -> -1 .. Size - 1] /\ Linked(put.cell, put.tail)
      /\ \A s \in Seqs : put.tail[s] >= 0 => put.tail[s] \in Cells
  BY <1>4, SizeFact DEF Layouts, GatherInv, Cells
<1>7. \A j \in 1 .. Len(ss) : ss[j] \in Seqs /\ ss[j] \in ToSet(ss) /\ Len(ss) \in Nat
  BY DEF ToSet
<1>8. \A s \in Seqs : PosMax(s) \in Int
  <2> TAKE s \in Seqs
  <2>1. tailOf[s] < 0 \/ tailOf[s] \in Cells
    BY SizeFact DEF MInv, MemTypes, Cells
  <2>2. \A c \in Cells : cell[c].pos \in Int
    BY DEF MInv, MemTypes, CellRecords
  <2>3. QED
    BY <2>1, <2>2 DEF PosMax
<1>9. ASSUME NEW c \in Cells
      PROVE  /\ cells[c] \in CellRecords /\ cells[c].seqs = put.cell[c].seqs /\ cells[c].src = put.cell[c].src
             /\ c - lo \in 0 .. Len(ss) - 1 => cells[c].pos = PosMax(ss[c - lo + 1]) + n
             /\ c - lo \notin 0 .. Len(ss) - 1 => cells[c].pos = put.cell[c].pos
  <2>1. put.cell[c] \in CellRecords
    BY <1>6
  <2>2. CASE c - lo \in 0 .. Len(ss) - 1
    <3> DEFINE q == PosMax(ss[c - lo + 1]) + n
    <3>1. cells[c] = [put.cell[c] EXCEPT !.pos = q]
      BY <2>2
    <3>2. q \in Int
      <4>1. c - lo + 1 \in 1 .. Len(ss)
        BY <1>5, <2>2
      <4>2. QED
        BY <1>7, <1>8, <4>1
    <3>3. cells[c].pos = q
      BY <2>1, <3>1 DEF CellRecords
    <3> HIDE DEF q, cells
    <3>4. cells[c] \in CellRecords /\ cells[c].seqs = put.cell[c].seqs /\ cells[c].src = put.cell[c].src
      BY <2>1, <3>1, <3>2 DEF CellRecords
    <3>5. QED
      BY <2>2, <3>3, <3>4 DEF q
  <2>3. CASE c - lo \notin 0 .. Len(ss) - 1
    BY <2>1, <2>3
  <2>4. QED
    BY <2>2, <2>3
<1>10. cells \in [Cells -> CellRecords]
  <2>1. cells = [c \in Cells |-> cells[c]]
    OBVIOUS
  <2> HIDE DEF cells
  <2>2. QED
    BY <1>9, <2>1
<1> HIDE DEF cells
<1>11. Linked(cells, put.tail)
  BY <1>6, <1>9 DEF Linked
<1>12. \A s \in Seqs : owned.tail[s] >= 0 =>
          /\ ~(owned.tail[s] < 0) /\ put.tail[s] \in Cells /\ put.cell[put.tail[s]] = owned.cell[owned.tail[s]]
  <2>1. owned.tail \in [Seqs -> -1 .. Size - 1]
    BY <1>2 DEF OwnAccs
  <2>2. \A s \in Seqs : owned.tail[s] >= 0 => ~(owned.tail[s] < 0)
    BY <2>1
  <2>3. QED
    BY <1>4, <1>6, <2>2 DEF GatherInv
<1>13. ASSUME NEW j \in 1 .. Len(ss)
       PROVE  LET c == lo + j - 1
              IN  /\ c \in lo .. hi /\ put.tail[ss[j]] = c
                  /\ cells[c].seqs = {ss[j]} /\ cells[c].pos = PosMax(ss[j]) + n
                  /\ tailOf[ss[j]] < 0 => Clean(cells[c].src)
  <2> DEFINE c == lo + j - 1
             s == ss[j]
  <2>1. c \in lo .. hi /\ c \in Cells /\ put.tail[s] = c /\ s \in Seqs /\ s \in ToSet(ss)
    BY <1>4, <1>5, <1>7 DEF GatherInv
  <2>2. HasOwn(owned, s) /\ (tailOf[s] < 0 => Clean(owned.cell[owned.tail[s]].src))
    BY <1>2, <2>1 DEF OwnInv
  <2>3. put.cell[c] = owned.cell[owned.tail[s]] /\ owned.cell[owned.tail[s]].seqs = {s}
    BY <1>12, <2>1, <2>2 DEF HasOwn
  <2>4. c - lo \in 0 .. Len(ss) - 1 /\ c - lo + 1 = j
    BY <1>5, <1>7
  <2>5. cells[c].pos = PosMax(ss[c - lo + 1]) + n
    BY <1>9, <2>1, <2>4
  <2>6. cells[c].pos = PosMax(s) + n
    BY <2>4, <2>5
  <2>7. cells[c].seqs = {s} /\ cells[c].src = owned.cell[owned.tail[s]].src
    BY <1>9, <2>1, <2>3
  <2>8. QED
    BY <2>1, <2>2, <2>6, <2>7
<1>14. ASSUME NEW s \in Seqs, tailOf[s] >= 0 PROVE put.tail[s] >= 0 /\ cells[put.tail[s]].src = tailOf[s]
  <2>1. owned.tail[s] >= 0 /\ owned.cell[owned.tail[s]].src = tailOf[s]
    BY <1>2, <1>14 DEF OwnInv
  <2>2. put.tail[s] \in Cells /\ put.cell[put.tail[s]] = owned.cell[owned.tail[s]]
    BY <1>12, <2>1
  <2>3. QED
    BY <1>5, <1>9, <2>1, <2>2
\* A cell that belongs to another sequence is not one of the ubatch's.
<1>15. ASSUME NEW c \in Cells, \A s \in ToSet(ss) : cells[c].seqs # {s}
       PROVE  c - lo \notin 0 .. Len(ss) - 1
  <2>1. SUFFICES ASSUME c - lo \in 0 .. Len(ss) - 1 PROVE FALSE
    OBVIOUS
  <2>2. c - lo + 1 \in 1 .. Len(ss) /\ lo + (c - lo + 1) - 1 = c
    BY <1>5, <2>1
  <2>3. cells[c].seqs = {ss[c - lo + 1]} /\ ss[c - lo + 1] \in ToSet(ss)
    <3> DEFINE k == c - lo + 1
    <3>1. k \in 1 .. Len(ss) /\ lo + k - 1 = c
      BY <2>2
    <3> HIDE DEF k
    <3>2. cells[lo + k - 1].seqs = {ss[k]} /\ ss[k] \in ToSet(ss)
      BY <1>7, <1>13, <3>1
    <3>3. QED
      BY <3>1, <3>2 DEF k
  <2>4. QED
    BY <1>15, <2>3
<1>16. ASSUME NEW s \in Seqs \ ToSet(ss)
       PROVE  IF tailOf[s] < 0 THEN put.tail[s] < 0 ELSE cells[put.tail[s]].pos = cell[tailOf[s]].pos
  <2>1. owned.tail[s] = tailOf[s]
    BY <1>2 DEF OwnInv
  <2>2. CASE tailOf[s] < 0
    BY <1>4, <2>1, <2>2 DEF GatherInv
  <2>3. CASE ~(tailOf[s] < 0)
    <3>1. tailOf[s] >= 0
      BY <2>3 DEF MInv, MemTypes
    <3>2. put.tail[s] \in Cells /\ put.cell[put.tail[s]] = owned.cell[owned.tail[s]]
      BY <1>12, <2>1, <3>1
    <3>3. owned.cell[owned.tail[s]].pos = cell[tailOf[s]].pos
      BY <1>2, <3>1 DEF OwnInv
    <3>4. s \in cells[put.tail[s]].seqs
      BY <1>11, <3>2 DEF Linked
    <3>5. put.tail[s] - lo \notin 0 .. Len(ss) - 1
      BY <1>15, <3>2, <3>4
    <3>6. QED
      BY <1>9, <2>3, <3>2, <3>3, <3>5
  <2>4. QED
    BY <2>2, <2>3
<1>17. \A c \in Cells : Empty(owned.cell, c) => owned.cell[c] = cell[c] /\ cell[c].pos < 0 /\ Clean(cell[c].src)
  <2>1. \A c \in Cells : Empty(owned.cell, c) => owned.cell[c] = cell[c] /\ Empty(cell, c)
    BY <1>2 DEF OwnInv, Empty
  <2>2. QED
    BY <2>1 DEF MInv, Homes
<1>18. ASSUME NEW c \in Cells, Empty(cells, c) PROVE cells[c].pos < 0 /\ Clean(cells[c].src)
  <2>1. put.cell[c].seqs = {}
    BY <1>9, <1>18 DEF Empty
  <2>2. PICK d \in Cells : put.cell[c] = owned.cell[d]
    BY <1>4, <1>5 DEF GatherInv
  <2>3. put.cell[c] = cell[d] /\ cell[d].pos < 0 /\ Clean(cell[d].src)
    BY <1>17, <2>1, <2>2 DEF Empty
  <2>4. c - lo \notin 0 .. Len(ss) - 1
    BY <1>15, <1>18 DEF Empty
  <2>5. QED
    BY <1>9, <2>3, <2>4
<1>19. ASSUME NEW c \in Cells \ (lo .. hi)
       PROVE  /\ cells[c].src = cell[c].src /\ cells[c].pos = cell[c].pos
              /\ Empty(cells, c) <=> Empty(cell, c)
              /\ \A s \in Seqs : put.tail[s] = c => tailOf[s] = c
  <2>1. put.cell[c] = owned.cell[c]
    BY <1>4 DEF GatherInv
  <2>2. \A s \in ToSet(ss) : owned.tail[s] # c
    BY <1>3 DEF Spread
  <2>3. owned.cell[c].src = cell[c].src /\ owned.cell[c].pos = cell[c].pos
    BY <1>2, <2>2 DEF OwnInv
  <2>4. c - lo \notin 0 .. Len(ss) - 1
    <3>1. SUFFICES ASSUME c - lo \in 0 .. Len(ss) - 1 PROVE FALSE
      OBVIOUS
    <3> DEFINE k == c - lo + 1
    <3>2. k \in 1 .. Len(ss) /\ lo + k - 1 = c
      BY <1>5, <3>1
    <3> HIDE DEF k
    <3>3. lo + k - 1 \in lo .. hi
      BY <1>4, <3>2
    <3>4. QED
      BY <3>2, <3>3
  <2>5. cells[c].src = cell[c].src /\ cells[c].pos = cell[c].pos /\ cells[c].seqs = owned.cell[c].seqs
    BY <1>9, <2>1, <2>3, <2>4
  <2>6. ASSUME NEW s \in Seqs, put.tail[s] = c PROVE tailOf[s] = c
    <3>1. s \in owned.cell[c].seqs
      BY <1>11, <2>5, <2>6 DEF Linked
    <3>2. owned.tail[s] = c
      BY <1>2, <3>1 DEF OwnInv, Linked
    <3>3. s \notin ToSet(ss)
      BY <2>2, <3>2
    <3>4. QED
      BY <1>2, <3>2, <3>3 DEF OwnInv
  <2>7. Empty(cells, c) => Empty(cell, c)
    BY <1>2, <2>5 DEF Empty, OwnInv
  <2>8. ASSUME ~Empty(cells, c) PROVE ~Empty(cell, c)
    <3>1. PICK s \in cells[c].seqs : TRUE
      BY <2>8 DEF Empty
    <3>2. s \in Seqs
      BY <1>9 DEF CellRecords
    <3>3. put.tail[s] = c
      BY <1>11, <3>1, <3>2 DEF Linked
    <3>4. tailOf[s] = c
      BY <2>6, <3>2, <3>3
    <3>5. s \in cell[c].seqs
      BY <3>2, <3>4 DEF MInv, Linked
    <3>6. QED
      BY <3>5 DEF Empty
  <2>9. QED
    BY <2>5, <2>6, <2>7, <2>8
<1>20. QED
  BY <1>1, <1>5, <1>6, <1>10, <1>11, <1>13, <1>14, <1>16, <1>18, <1>19, <1>21 DEF Placement, p

-----------------------------------------------------------------------------
(* What the graph reads.                                                    *)

\* If a cell of the range has no state to read, some row of the range is free
\* to be zeroed: no cell takes its state from it.
LEMMA ZeroRow ==
    ASSUME MInv, NEW p, NEW ss, NEW n, Placement(p, ss, n),
           NEW c \in p.lo .. p.hi, p.cell[c].src < 0
    PROVE  Unreferenced(p) # {}
<1> DEFINE R == p.lo .. p.hi
           T == R \ {c}
           g == [e \in R |-> CHOOSE d \in Cells : p.cell[d].src = e]
<1>1. /\ p.lo \in Int /\ p.hi \in Int /\ R \subseteq Cells /\ \A d \in Cells : d \in Int /\ d >= 0 /\ d # -1
      /\ c \in R /\ p.cell \in [Cells -> CellRecords]
  BY SizeFact DEF Placement, Cells
<1>2. SUFFICES ASSUME \A e \in R : \E d \in Cells : p.cell[d].src = e PROVE FALSE
  BY DEF Unreferenced
<1>3. ASSUME NEW e \in R PROVE g[e] \in T /\ p.cell[g[e]].src = e
  <2>1. g[e] \in Cells /\ p.cell[g[e]].src = e
    BY <1>2
  <2> HIDE DEF g
  <2>2. g[e] # c
    <3>1. e >= 0
      BY <1>1
    <3>2. QED
      BY <1>1, <2>1, <3>1
  <2>3. g[e] \in R
    <3>1. SUFFICES ASSUME g[e] \notin R PROVE FALSE
      OBVIOUS
    <3>2. cell[g[e]].src = e
      BY <2>1, <3>1 DEF Placement
    <3>3. cell[g[e]].src \in {-1, g[e]}
      BY <2>1 DEF MInv, Homes
    <3>4. QED
      BY <1>1, <3>1, <3>2, <3>3
  <2>4. QED
    BY <2>1, <2>2, <2>3
<1>4. g = [e \in R |-> g[e]]
  OBVIOUS
<1> HIDE DEF g
<1>5. g \in [R -> T]
  BY <1>3, <1>4
<1>6. IsFiniteSet(R)
  BY <1>1, FS_Interval
<1> HIDE DEF R
<1>7. IsFiniteSet(T) /\ Cardinality(T) = Cardinality(R) - 1 /\ Cardinality(R) \in Nat
  BY <1>1, <1>6, FS_RemoveElement, FS_CardinalityType
<1> HIDE DEF T
<1>8. \E d, e \in R : d # e /\ g[d] = g[e]
  <2>1. Cardinality(T) < Cardinality(R)
    BY <1>7
  <2>2. QED
    BY <1>5, <1>6, <1>7, <2>1, FS_PigeonHole
<1>9. QED
  BY <1>3, <1>8

LEMMA ZeroRowFree ==
    ASSUME NEW p, NEW ss, NEW n, Placement(p, ss, n), Unreferenced(p) # {}
    PROVE  Min(Unreferenced(p)) \in Unreferenced(p)
<1>1. Unreferenced(p) \in SUBSET Nat
  BY SizeFact DEF Placement, Unreferenced, Cells
<1>2. QED
  BY <1>1, SmallestExists

\* A row that no state was written to reads as an empty state.
LEMMA ReadsNothing ==
    ASSUME MInv, NEW p, NEW ss, NEW n, Placement(p, ss, n), NEW c \in p.lo .. p.hi,
           Clean(p.cell[c].src), RolledBack(p, c) = 0
    PROVE  Reads(p, c) = <<>>
<1>1. CASE p.cell[c].src = -1
  <2>1. p.cell[c].src < 0
    BY <1>1
  <2>2. Unreferenced(p) # {}
    BY <2>1, ZeroRow
  <2>3. QED
    BY <2>1, <2>2 DEF Reads, Source
<1>2. CASE p.cell[c].src \in Cells /\ row[0][p.cell[c].src] = <<>>
  <2>1. ~(p.cell[c].src < 0)
    BY <1>2, SizeFact DEF Cells
  <2>2. Source(p, c) = p.cell[c].src
    BY <2>1 DEF Source
  <2>3. QED
    BY <1>2, <2>2 DEF Reads
<1>3. QED
  BY <1>1, <1>2 DEF Clean

\* Sequences that share a cell afterwards shared one before.
LEMMA StillShared ==
    ASSUME MInv, NEW p, NEW ss, NEW n, Placement(p, ss, n), NEW s \in Seqs, NEW t \in Seqs,
           s # t, p.tail[s] = p.tail[t], p.tail[s] >= 0
    PROVE  /\ tailOf[s] = tailOf[t] /\ tailOf[s] >= 0
           /\ s \notin ToSet(ss) /\ t \notin ToSet(ss) /\ rsIdx[s] = 0 /\ rsIdx[t] = 0
<1>1. p.tail[s] \in Cells
  BY SizeFact DEF Placement, Cells
<1>2. s \in p.cell[p.tail[s]].seqs /\ t \in p.cell[p.tail[s]].seqs
  BY <1>1 DEF Placement, Linked
<1>3. ASSUME NEW u \in ToSet(ss), u = s \/ u = t PROVE FALSE
  <2>1. PICK j \in 1 .. Len(ss) : ss[j] = u
    BY DEF ToSet
  <2>2. p.cell[p.tail[u]].seqs = {u}
    BY <2>1 DEF Placement
  <2>3. QED
    BY <1>2, <1>3, <2>2
<1>4. s \notin ToSet(ss) /\ t \notin ToSet(ss)
  BY <1>3
<1>5. tailOf[s] \in -1 .. Size - 1 /\ tailOf[t] \in -1 .. Size - 1
  BY DEF MInv, MemTypes
<1>6. tailOf[s] >= 0 /\ tailOf[t] >= 0
  <2>1. ~(p.tail[s] < 0) /\ ~(p.tail[t] < 0)
    BY <1>1, SizeFact DEF Cells
  <2>2. QED
    BY <1>4, <1>5, <2>1 DEF Placement
<1>7. tailOf[s] = tailOf[t]
  <2>1. p.cell[p.tail[s]].src = tailOf[s] /\ p.cell[p.tail[t]].src = tailOf[t]
    BY <1>6 DEF Placement
  <2>2. QED
    BY <2>1
<1>8. ~Alone(s) /\ ~Alone(t)
  BY <1>7 DEF Alone
<1>9. QED
  BY <1>4, <1>6, <1>7, <1>8 DEF MInv, Pendings

\* What a sequence waits to be rolled back is what its cell is rolled back by.
LEMMA OwnRollback ==
    ASSUME MInv, NEW p, NEW ss, NEW n, Placement(p, ss, n), NEW s \in Seqs, p.tail[s] >= 0
    PROVE  /\ p.tail[s] \in Cells /\ ~Empty(p.cell, p.tail[s])
           /\ Min(p.cell[p.tail[s]].seqs) \in p.cell[p.tail[s]].seqs
           /\ rsIdx[Min(p.cell[p.tail[s]].seqs)] = rsIdx[s]
           /\ RolledBack(p, p.tail[s]) = rsIdx[s]
<1> DEFINE q == p.cell[p.tail[s]].seqs
<1>1. p.tail[s] \in Cells
  BY SizeFact DEF Placement, Cells
<1>2. s \in q /\ q \subseteq Seqs
  BY <1>1 DEF Placement, Linked, CellRecords
<1>3. q \in SUBSET Nat /\ q # {}
  BY <1>2, SizeFact DEF Seqs, Cells
<1> DEFINE t == Min(q)
<1>4. t \in q
  <2> HIDE DEF q
  <2>1. QED
    BY <1>3, SmallestExists
<1> HIDE DEF t
<1>5. rsIdx[t] = rsIdx[s]
  <2>1. CASE t = s
    BY <2>1
  <2>2. CASE t # s
    <3>1. t \in Seqs /\ p.tail[t] = p.tail[s]
      BY <1>1, <1>2, <1>4 DEF Placement, Linked
    <3>2. rsIdx[s] = 0 /\ rsIdx[t] = 0
      BY <2>2, <3>1, StillShared
    <3>3. QED
      BY <3>2
  <2>3. QED
    BY <2>1, <2>2
<1>6. QED
  BY <1>1, <1>2, <1>4, <1>5 DEF Empty, RolledBack, t

\* The row that is read for a sequence in the range is its state.
LEMMA ReadsState ==
    ASSUME MInv, NEW p, NEW ss, NEW n, Placement(p, ss, n), NEW s \in Seqs, p.tail[s] \in p.lo .. p.hi
    PROVE  Reads(p, p.tail[s]) = StateOf(s)
<1> DEFINE c == p.tail[s]
<1>1. c \in Cells /\ c >= 0 /\ ~(c < 0)
  BY SizeFact DEF Placement, Cells
<1>2. RolledBack(p, c) = rsIdx[s]
  BY <1>1, OwnRollback
<1>3. tailOf[s] \in -1 .. Size - 1
  BY DEF MInv, MemTypes
<1>4. CASE tailOf[s] < 0
  <2>1. StateOf(s) = <<>> /\ rsIdx[s] = 0
    BY <1>4 DEF StateOf, MInv, Pendings
  <2>2. s \in ToSet(ss)
    BY <1>1, <1>4 DEF Placement
  <2>3. PICK j \in 1 .. Len(ss) : ss[j] = s
    BY <2>2 DEF ToSet
  <2>4. Clean(p.cell[c].src)
    BY <1>4, <2>3 DEF Placement
  <2>5. QED
    BY <1>2, <2>1, <2>4, ReadsNothing
<1>5. CASE ~(tailOf[s] < 0)
  <2>1. tailOf[s] >= 0 /\ tailOf[s] \in Cells
    BY <1>3, <1>5 DEF Cells
  <2>2. p.cell[c].src = tailOf[s]
    BY <2>1 DEF Placement
  <2>3. Source(p, c) = tailOf[s]
    BY <1>5, <2>2 DEF Source
  <2>4. s \in cell[tailOf[s]].seqs
    BY <2>1 DEF MInv, Linked
  <2>5. cell[tailOf[s]].src = tailOf[s]
    BY <2>1, <2>4 DEF MInv, Homes, Empty
  <2>6. StateOf(s) = row[rsIdx[s]][tailOf[s]]
    BY <1>5, <2>5 DEF StateOf
  <2>7. Unreferenced(p) # {} => tailOf[s] # Min(Unreferenced(p))
    <3>1. tailOf[s] \notin Unreferenced(p)
      BY <1>1, <2>2 DEF Unreferenced
    <3>2. QED
      BY <3>1, ZeroRowFree
  <2>8. QED
    BY <1>2, <2>3, <2>6, <2>7 DEF Reads
<1>6. QED
  BY <1>4, <1>5

-----------------------------------------------------------------------------
(* One ubatch.                                                              *)

Before == [i \in 1 .. Cardinality(Together) |-> Min(Waiting) + i - 1]
TakenEach == Min({Len(batch[s]) : s \in Together})

\* The sequences of a ubatch follow each other.
LEMMA TogetherFacts ==
    ASSUME MemTypes, Waiting # {}
    PROVE  /\ Before \in Seq(Seqs) /\ Before # <<>> /\ IsInjective(Before) /\ ToSet(Before) = Together
           /\ Together \subseteq Seqs
           /\ TakenEach \in Nat /\ TakenEach > 0 /\ \A s \in Together : TakenEach <= Len(batch[s])
<1> DEFINE lo == Min(Waiting)
           hi == Max(Together)
<1>1. Waiting \in SUBSET Nat /\ Waiting \subseteq Seqs /\ Together \subseteq Waiting
      /\ Together \in SUBSET (0 .. Size - 1) /\ Size - 1 \in Nat
  BY SizeFact DEF Waiting, Together, Seqs, Cells
<1>2. lo \in Waiting /\ \A k \in Waiting : lo <= k
  BY <1>1, SmallestExists
<1> HIDE DEF lo
<1>3. lo \in Together
  <2>1. \A t \in lo .. lo : t = lo
    BY <1>1, <1>2
  <2>2. QED
    BY <1>2, <2>1 DEF Together, lo
<1>4. hi \in Together /\ \A k \in Together : k <= hi
  BY <1>1, <1>3, LargestExists
<1> HIDE DEF hi
<1>5. lo \in Nat /\ hi \in Nat /\ lo <= hi
  BY <1>1, <1>2, <1>4
<1>6. Together = lo .. hi
  <2>1. \A t \in Together : t \in lo .. hi
    BY <1>1, <1>2, <1>4, <1>5
  <2>2. ASSUME NEW t \in lo .. hi PROVE t \in Together
    <3>1. \A u \in lo .. hi : u \in Waiting
      BY <1>4 DEF Together, lo
    <3>2. \A u \in lo .. t : u \in lo .. hi
      BY <1>5
    <3>3. QED
      BY <3>1, <3>2 DEF Together, lo
  <2>3. QED
    BY <2>1, <2>2
<1>7. Cardinality(Together) = hi - lo + 1
  <2>1. \A a, b \in Int : Cardinality(a .. b) = IF a > b THEN 0 ELSE b - a + 1
    BY FS_Interval
  <2>2. lo \in Int /\ hi \in Int /\ ~(lo > hi)
    BY <1>5
  <2>3. QED
    BY <1>6, <2>1, <2>2
<1> DEFINE k == hi - lo + 1
<1>8. Before = [i \in 1 .. k |-> lo + i - 1] /\ k \in Nat /\ k > 0
  BY <1>5, <1>7 DEF Before, lo
<1>9. \A i \in 1 .. k : lo + i - 1 \in lo .. hi
  BY <1>5
<1>10. \A t \in lo .. hi : \E i \in 1 .. k : lo + i - 1 = t
  <2> TAKE t \in lo .. hi
  <2>1. t - lo + 1 \in 1 .. k /\ lo + (t - lo + 1) - 1 = t
    BY <1>5
  <2>2. QED
    BY <2>1
<1> HIDE DEF k
<1>11. \A i \in 1 .. k : Before[i] = lo + i - 1
  BY <1>8
<1>12. DOMAIN Before = 1 .. k
  BY <1>8
<1>13. Before \in Seq(Seqs)
  <2>1. \A i \in 1 .. k : Before[i] \in Seqs
    BY <1>1, <1>6, <1>9, <1>11
  <2>2. Before \in [1 .. k -> Seqs]
    BY <1>8, <2>1
  <2>3. QED
    BY <1>8, <2>2
<1>14. Before # <<>>
  <2>1. 1 \in DOMAIN Before
    BY <1>8, <1>12
  <2>2. DOMAIN << >> = {}
    OBVIOUS
  <2>3. QED
    BY <2>1, <2>2
<1>15. IsInjective(Before)
  BY <1>5, <1>11, <1>12 DEF IsInjective
<1>16. ToSet(Before) = Together
  BY <1>6, <1>9, <1>10, <1>11, <1>12 DEF ToSet
<1> DEFINE L == {Len(batch[s]) : s \in Together}
<1>17. \A s \in Together : Len(batch[s]) \in Nat /\ Len(batch[s]) > 0
  <2> TAKE s \in Together
  <2>1. s \in Seqs /\ batch[s] # <<>>
    BY DEF Together, Waiting
  <2>2. batch[s] \in Seq(Seqs)
    BY <2>1 DEF MemTypes, States
  <2>3. QED
    BY <2>1, <2>2
<1>18. L \in SUBSET Nat /\ L # {}
  BY <1>3, <1>17
<1>19. TakenEach \in L /\ \A m \in L : TakenEach <= m
  <2>1. TakenEach = Min(L)
    BY DEF TakenEach
  <2> HIDE DEF L
  <2>2. QED
    BY <1>18, <2>1, SmallestExists
<1>20. QED
  BY <1>1, <1>13, <1>14, <1>15, <1>16, <1>17, <1>18, <1>19

\* What a ubatch of n tokens for each of ss does.
InFront(p, ss, c) == c - p.lo \in 0 .. Len(ss) - 1
UbatchBy(ss, n, p) ==
    /\ ss \in Seq(Seqs) /\ IsInjective(ss) /\ n \in Nat /\ n > 0
    /\ \A j \in 1 .. Len(ss) : n <= Len(batch[ss[j]])
    /\ Placement(p, ss, n)
    /\ row' = [g \in 0 .. Depth |-> [c \in Cells |->
                  IF InFront(p, ss, c) /\ g < n
                  THEN Reads(p, c) \o SubSeq(batch[ss[c - p.lo + 1]], 1, n - g)
                  ELSE IF InRange(p, c) /\ ~InFront(p, ss, c) /\ g = 0 THEN Reads(p, c) ELSE row[g][c]]]
    /\ cell' = Staged(p) /\ tailOf' = p.tail /\ searchFrom' = p.lo
    /\ rsIdx' = [s \in Seqs |-> IF Depth > 0 /\ s \in FirstSeqs(p) THEN 0 ELSE rsIdx[s]]
    /\ batch' = [s \in Seqs |-> IF s \in ToSet(ss) THEN SubSeq(batch[s], n + 1, Len(batch[s])) ELSE batch[s]]
    /\ fresh' = [s \in Seqs |-> IF s \in ToSet(ss) THEN n ELSE 0]
    /\ saved' = saved

LEMMA UbatchIs ==
    ASSUME MInv, Ubatch
    PROVE  \E ss, n, p : UbatchBy(ss, n, p)
<1> DEFINE ss == Before
           n == TakenEach
           p == Placed(ss, n)
<1>0. Waiting # {}
  BY DEF Ubatch
<1>1. /\ ss \in Seq(Seqs) /\ ss # <<>> /\ IsInjective(ss) /\ ToSet(ss) = Together
      /\ n \in Nat /\ n > 0 /\ \A s \in Together : n <= Len(batch[s])
  BY <1>0, TogetherFacts DEF MInv
<1>2. row' = [g \in 0 .. Depth |-> [c \in Cells |->
                  CASE InFront(p, ss, c) /\ g < n -> Reads(p, c) \o SubSeq(batch[ss[c - p.lo + 1]], 1, n - g)
                    [] InRange(p, c) /\ ~InFront(p, ss, c) /\ g = 0 -> Reads(p, c)
                    [] OTHER -> row[g][c]]]
  BY DEF Ubatch, Before, TakenEach, InFront
<1>3. /\ cell' = Staged(p) /\ tailOf' = p.tail /\ searchFrom' = p.lo
      /\ rsIdx' = [s \in Seqs |-> IF Depth > 0 /\ s \in FirstSeqs(p) THEN 0 ELSE rsIdx[s]]
      /\ batch' = [s \in Seqs |-> IF s \in Together THEN SubSeq(batch[s], n + 1, Len(batch[s])) ELSE batch[s]]
      /\ fresh' = [s \in Seqs |-> IF s \in Together THEN n ELSE 0]
      /\ saved' = saved
  BY DEF Ubatch, Before, TakenEach
<1> HIDE DEF ss, n
<1>4. Placement(p, ss, n)
  BY <1>1, PlacedFacts
<1> HIDE DEF p
<1>5. row' = [g \in 0 .. Depth |-> [c \in Cells |->
                  IF InFront(p, ss, c) /\ g < n
                  THEN Reads(p, c) \o SubSeq(batch[ss[c - p.lo + 1]], 1, n - g)
                  ELSE IF InRange(p, c) /\ ~InFront(p, ss, c) /\ g = 0 THEN Reads(p, c) ELSE row[g][c]]]
  BY <1>2
<1>6. \A j \in 1 .. Len(ss) : n <= Len(batch[ss[j]])
  BY <1>1 DEF ToSet
<1>7. UbatchBy(ss, n, p)
  BY <1>1, <1>3, <1>4, <1>5, <1>6 DEF UbatchBy
<1>8. QED
  BY <1>7

\* What the invariant says of one sequence.
LEMMA StateFacts ==
    ASSUME MInv, NEW s \in Seqs
    PROVE  /\ tailOf[s] \in -1 .. Size - 1 /\ PosMax(s) \in Int /\ PosMax(s) >= -1
           /\ StateOf(s) \in States /\ Len(StateOf(s)) = PosMax(s) + 1
           /\ tailOf[s] < 0 => StateOf(s) = <<>> /\ rsIdx[s] = 0
           /\ tailOf[s] >= 0 => /\ tailOf[s] \in Cells /\ ~(tailOf[s] < 0) /\ s \in cell[tailOf[s]].seqs
                                /\ cell[tailOf[s]].src = tailOf[s] /\ PosMax(s) = cell[tailOf[s]].pos
                                /\ cell[tailOf[s]].pos >= 0
                                /\ StateOf(s) = row[rsIdx[s]][tailOf[s]]
<1>1. tailOf[s] \in -1 .. Size - 1 /\ rsIdx[s] \in 0 .. Depth
  BY DEF MInv, MemTypes
<1>2. CASE tailOf[s] < 0
  <2>1. StateOf(s) = <<>> /\ rsIdx[s] = 0 /\ PosMax(s) = -1 /\ ~(tailOf[s] >= 0)
    BY <1>1, <1>2 DEF StateOf, PosMax, MInv, Pendings
  <2>2. <<>> \in States /\ Len(<<>>) = 0
    BY DEF States
  <2>3. QED
    BY <1>1, <1>2, <2>1, <2>2
<1>3. CASE ~(tailOf[s] < 0)
  <2>1. tailOf[s] >= 0 /\ tailOf[s] \in Cells
    BY <1>1, <1>3, SizeFact DEF Cells
  <2>2. s \in cell[tailOf[s]].seqs
    BY <2>1 DEF MInv, Linked
  <2>3. cell[tailOf[s]].src = tailOf[s] /\ cell[tailOf[s]].pos >= 0
    BY <2>1, <2>2 DEF MInv, Homes, Empty
  <2>4. cell[tailOf[s]].pos \in Int
    BY <2>1 DEF MInv, MemTypes, CellRecords
  <2>5. PosMax(s) = cell[tailOf[s]].pos /\ StateOf(s) = row[rsIdx[s]][tailOf[s]]
    BY <1>3, <2>3 DEF PosMax, StateOf
  <2>6. row[rsIdx[s]][tailOf[s]] \in States
    BY <1>1, <2>1 DEF MInv, MemTypes
  <2>7. Len(row[rsIdx[s]][tailOf[s]]) = cell[tailOf[s]].pos + 1
    BY <2>1 DEF MInv, Lengths
  <2>8. QED
    BY <1>1, <1>3, <2>1, <2>2, <2>3, <2>4, <2>5, <2>6, <2>7
<1>4. QED
  BY <1>2, <1>3

LEMMA TakenBack ==
    ASSUME NEW S, NEW a \in Seq(S), NEW b \in Seq(S), NEW n \in Nat, n <= Len(b), NEW k \in Nat, k < n
    PROVE  a \o SubSeq(b, 1, n - k) = SubSeq(a \o SubSeq(b, 1, n), 1, Len(a) + n - k)
<1> DEFINE x == SubSeq(b, 1, n - k)
           y == SubSeq(b, 1, n)
           z == a \o y
           u == a \o x
           m == Len(a) + n - k
           w == SubSeq(z, 1, m)
<1>1. Len(a) \in Nat /\ Len(b) \in Nat /\ n - k \in Nat /\ n - k <= Len(b) /\ m \in Nat
  OBVIOUS
<1>2. x \in Seq(S) /\ Len(x) = n - k /\ \A i \in 1 .. n - k : x[i] = b[i]
  BY <1>1
<1>3. y \in Seq(S) /\ Len(y) = n /\ \A i \in 1 .. n : y[i] = b[i]
  BY <1>1
<1> HIDE DEF x, y
<1>4. z \in Seq(S) /\ Len(z) = Len(a) + n /\ \A i \in 1 .. Len(a) + n : z[i] = IF i <= Len(a) THEN a[i] ELSE y[i - Len(a)]
  BY <1>1, <1>3
<1>5. u \in Seq(S) /\ Len(u) = m /\ \A i \in 1 .. m : u[i] = IF i <= Len(a) THEN a[i] ELSE x[i - Len(a)]
  <2>1. u \in Seq(S) /\ Len(u) = Len(a) + Len(x)
    <3>1. x \in Seq(S)
      BY <1>2
    <3>2. QED
      BY <3>1, Concat
  <2>2. Len(u) = m
    BY <1>1, <1>2, <2>1
  <2>3. \A i \in 1 .. Len(a) + Len(x) : u[i] = IF i <= Len(a) THEN a[i] ELSE x[i - Len(a)]
    <3>1. x \in Seq(S)
      BY <1>2
    <3>2. QED
      BY <3>1, Concat
  <2>4. QED
    BY <2>1, <2>2, <2>3
<1> HIDE DEF z, u
<1>6. m <= Len(z)
  BY <1>1, <1>4
<1>7. w \in Seq(S) /\ Len(w) = m /\ \A i \in 1 .. m : w[i] = z[i]
  BY <1>1, <1>4, <1>6
<1>8. \A i \in 1 .. m : u[i] = w[i]
  <2> TAKE i \in 1 .. m
  <2>1. CASE i <= Len(a)
    <3>1. i \in 1 .. Len(a) + n
      BY <1>1
    <3>2. QED
      BY <1>4, <1>5, <1>7, <2>1, <3>1
  <2>2. CASE ~(i <= Len(a))
    <3>1. i \in 1 .. Len(a) + n /\ i - Len(a) \in 1 .. n - k /\ i - Len(a) \in 1 .. n
      BY <1>1, <2>2
    <3>2. QED
      BY <1>2, <1>3, <1>4, <1>5, <1>7, <2>2, <3>1
  <2>3. QED
    BY <2>1, <2>2
<1> HIDE DEF w
<1>9. u = w
  <2>1. u = [i \in 1 .. m |-> u[i]] /\ w = [i \in 1 .. m |-> w[i]]
    BY <1>5, <1>7
  <2> HIDE DEF m
  <2>2. QED
    BY <1>8, <2>1, Zenon
<1>10. QED
  BY <1>9 DEF u, w, x, z, y, m

LEMMA ReadsTyped ==
    ASSUME MInv, NEW p, NEW ss, NEW n, Placement(p, ss, n), NEW c \in p.lo .. p.hi
    PROVE  /\ Reads(p, c) \in States
           /\ Empty(p.cell, c) => Reads(p, c) = <<>>
<1>1. c \in Cells
  BY SizeFact DEF Placement, Cells
<1>2. CASE Empty(p.cell, c)
  <2>1. Clean(p.cell[c].src) /\ RolledBack(p, c) = 0
    BY <1>1, <1>2 DEF Placement, RolledBack
  <2>2. Reads(p, c) = <<>>
    BY <2>1, ReadsNothing
  <2>3. QED
    BY <2>2 DEF States
<1>3. CASE ~Empty(p.cell, c)
  <2>1. PICK s \in p.cell[c].seqs : TRUE
    BY <1>3 DEF Empty
  <2>2. s \in Seqs /\ p.tail[s] = c
    BY <1>1, <2>1 DEF Placement, Linked, CellRecords
  <2>3. Reads(p, c) = StateOf(s)
    BY <2>2, ReadsState
  <2>4. QED
    BY <1>3, <2>2, <2>3, StateFacts
<1>4. QED
  BY <1>2, <1>3

\* The rows, cells and rollbacks after the ubatch.
LEMMA UbatchRows ==
    ASSUME MInv, NEW ss, NEW n, NEW p, UbatchBy(ss, n, p)
    PROVE  /\ \A g \in 0 .. Depth, c \in Cells : row'[g][c] =
                  IF InFront(p, ss, c) /\ g < n
                  THEN Reads(p, c) \o SubSeq(batch[ss[c - p.lo + 1]], 1, n - g)
                  ELSE IF InRange(p, c) /\ ~InFront(p, ss, c) /\ g = 0 THEN Reads(p, c) ELSE row[g][c]
           /\ \A c \in Cells : /\ cell'[c] \in CellRecords
                               /\ cell'[c].seqs = p.cell[c].seqs /\ cell'[c].pos = p.cell[c].pos
                               /\ cell'[c].src = IF InRange(p, c) THEN c ELSE p.cell[c].src
           /\ \A s \in Seqs : rsIdx'[s] = IF Depth > 0 /\ s \in FirstSeqs(p) THEN 0 ELSE rsIdx[s]
           /\ \A c \in Cells : InFront(p, ss, c) => /\ InRange(p, c) /\ c - p.lo + 1 \in 1 .. Len(ss)
                                                     /\ p.cell[c].seqs = {ss[c - p.lo + 1]}
<1>1. Placement(p, ss, n)
  BY DEF UbatchBy
<1>2. \A g \in 0 .. Depth, c \in Cells : row'[g][c] =
                  IF InFront(p, ss, c) /\ g < n
                  THEN Reads(p, c) \o SubSeq(batch[ss[c - p.lo + 1]], 1, n - g)
                  ELSE IF InRange(p, c) /\ ~InFront(p, ss, c) /\ g = 0 THEN Reads(p, c) ELSE row[g][c]
  BY DEF UbatchBy
<1>3. ASSUME NEW c \in Cells
      PROVE  /\ cell'[c] \in CellRecords
             /\ cell'[c].seqs = p.cell[c].seqs /\ cell'[c].pos = p.cell[c].pos
             /\ cell'[c].src = IF InRange(p, c) THEN c ELSE p.cell[c].src
  <2>1. cell'[c] = IF InRange(p, c) THEN [p.cell[c] EXCEPT !.src = c] ELSE p.cell[c]
    BY DEF UbatchBy, Staged
  <2>2. p.cell[c] \in CellRecords /\ c \in -1 .. Size - 1
    BY <1>1, SizeFact DEF Placement, Cells
  <2>3. QED
    BY <2>1, <2>2 DEF CellRecords
<1>4. \A s \in Seqs : rsIdx'[s] = IF Depth > 0 /\ s \in FirstSeqs(p) THEN 0 ELSE rsIdx[s]
  BY DEF UbatchBy
<1>5. ASSUME NEW c \in Cells, InFront(p, ss, c)
      PROVE  InRange(p, c) /\ c - p.lo + 1 \in 1 .. Len(ss) /\ p.cell[c].seqs = {ss[c - p.lo + 1]}
  <2> DEFINE j == c - p.lo + 1
  <2>1. j \in 1 .. Len(ss) /\ p.lo + j - 1 = c
    <3>1. c \in Int /\ p.lo \in Int /\ Len(ss) \in Int
      BY <1>1, SizeFact DEF Placement, Cells, UbatchBy
    <3>2. c - p.lo \in 0 .. Len(ss) - 1
      BY <1>5 DEF InFront
    <3>3. QED
      BY <3>1, <3>2
  <2> HIDE DEF j
  <2>2. p.lo + j - 1 \in p.lo .. p.hi /\ p.cell[p.lo + j - 1].seqs = {ss[j]}
    BY <1>1, <2>1 DEF Placement
  <2>3. QED
    BY <2>1, <2>2 DEF InRange, j
<1>6. QED
  BY <1>2, <1>3, <1>4, <1>5

Absorbs(s, n) == \A g \in 0 .. Depth : g < n => row'[g][tailOf'[s]] = StateOf(s) \o SubSeq(batch[s], 1, n - g)

\* A sequence of the ubatch has absorbed its tokens, with the snapshots before the last ones.
LEMMA UbatchExtends ==
    ASSUME MInv, NEW ss, NEW n, NEW p, UbatchBy(ss, n, p), NEW s \in ToSet(ss)
    PROVE  /\ s \in Seqs /\ tailOf'[s] \in Cells /\ cell'[tailOf'[s]].seqs = {s}
           /\ cell'[tailOf'[s]].src = tailOf'[s] /\ cell'[tailOf'[s]].pos = PosMax(s) + n
           /\ rsIdx'[s] = 0 /\ fresh'[s] = n /\ n <= Len(batch[s])
           /\ Absorbs(s, n)
<1>1. Placement(p, ss, n) /\ tailOf' = p.tail /\ ss \in Seq(Seqs)
  BY DEF UbatchBy
<1>2. PICK j \in 1 .. Len(ss) : ss[j] = s
  BY DEF ToSet
<1> DEFINE c == p.lo + j - 1
<1>3. s \in Seqs /\ c \in p.lo .. p.hi /\ p.tail[s] = c /\ p.cell[c].seqs = {s} /\ p.cell[c].pos = PosMax(s) + n
  BY <1>1, <1>2 DEF Placement
<1>4. c \in Cells /\ c >= 0 /\ c - p.lo \in 0 .. Len(ss) - 1 /\ c - p.lo + 1 = j
  <2>1. p.lo \in Int /\ Len(ss) \in Int
    BY <1>1, SizeFact DEF Placement, Cells
  <2>2. p.lo .. p.hi \subseteq Cells /\ \A d \in Cells : d >= 0
    BY <1>1, SizeFact DEF Placement, Cells
  <2>3. c \in Cells /\ c >= 0
    BY <1>3, <2>2
  <2>4. QED
    BY <2>1, <2>3
<1> HIDE DEF c
<1>5. InFront(p, ss, c) /\ InRange(p, c)
  BY <1>3, <1>4 DEF InFront, InRange
<1>6. cell'[c].seqs = {s} /\ cell'[c].src = c /\ cell'[c].pos = PosMax(s) + n
  BY <1>3, <1>4, <1>5, UbatchRows
<1>7. rsIdx'[s] = 0
  <2>1. Min(p.cell[c].seqs) = s
    <3>1. Min(p.cell[p.tail[s]].seqs) \in p.cell[p.tail[s]].seqs
      BY <1>1, <1>3, <1>4, OwnRollback
    <3>2. QED
      BY <1>3, <3>1
  <2>2. s \in FirstSeqs(p)
    BY <1>3, <2>1 DEF FirstSeqs, Empty
  <2>3. rsIdx[s] \in 0 .. Depth
    BY <1>3 DEF MInv, MemTypes
  <2>4. QED
    BY <1>3, <2>2, <2>3, SizeFact, UbatchRows
<1>8. Reads(p, c) = StateOf(s)
  BY <1>1, <1>3, ReadsState
<1>9. \A g \in 0 .. Depth : g < n => row'[g][c] = StateOf(s) \o SubSeq(batch[s], 1, n - g)
  <2> TAKE g \in 0 .. Depth
  <2>1. g < n => row'[g][c] = Reads(p, c) \o SubSeq(batch[ss[c - p.lo + 1]], 1, n - g)
    BY <1>4, <1>5, UbatchRows
  <2>2. QED
    BY <1>2, <1>4, <1>8, <2>1
<1>10. fresh'[s] = n /\ n <= Len(batch[s])
  BY <1>2, <1>3 DEF UbatchBy
<1>11. Absorbs(s, n)
  BY <1>1, <1>3, <1>9 DEF Absorbs
<1>12. QED
  BY <1>1, <1>3, <1>4, <1>6, <1>7, <1>10, <1>11

\* Any other sequence keeps its state, wherever its cell is moved.
LEMMA UbatchSpares ==
    ASSUME MInv, NEW ss, NEW n, NEW p, UbatchBy(ss, n, p), NEW s \in Seqs, s \notin ToSet(ss)
    PROVE  /\ tailOf'[s] \in -1 .. Size - 1 /\ fresh'[s] = 0
           /\ tailOf[s] < 0 => tailOf'[s] < 0 /\ rsIdx'[s] = 0
           /\ tailOf[s] >= 0 => /\ tailOf'[s] \in Cells /\ cell'[tailOf'[s]].src = tailOf'[s]
                                /\ cell'[tailOf'[s]].pos = cell[tailOf[s]].pos
                                /\ rsIdx'[s] \in {0, rsIdx[s]}
                                /\ row'[rsIdx'[s]][tailOf'[s]] = StateOf(s)
<1>1. Placement(p, ss, n) /\ tailOf' = p.tail /\ ss \in Seq(Seqs) /\ fresh'[s] = 0
  BY DEF UbatchBy
<1>2. tailOf'[s] \in -1 .. Size - 1
  BY <1>1 DEF Placement
<1>3. rsIdx[s] \in 0 .. Depth /\ tailOf[s] \in -1 .. Size - 1
  BY DEF MInv, MemTypes
<1>4. CASE tailOf[s] < 0
  <2>1. tailOf'[s] < 0 /\ rsIdx[s] = 0 /\ ~(tailOf[s] >= 0)
    BY <1>1, <1>3, <1>4 DEF Placement, MInv, Pendings
  <2>2. rsIdx'[s] = 0
    BY <2>1, UbatchRows
  <2>3. QED
    BY <1>1, <1>2, <1>4, <2>1, <2>2
<1>5. CASE ~(tailOf[s] < 0)
  <2> DEFINE c == p.tail[s]
  <2>1. tailOf[s] >= 0 /\ c >= 0 /\ p.cell[c].src = tailOf[s] /\ p.cell[c].pos = cell[tailOf[s]].pos
    BY <1>1, <1>3, <1>5 DEF Placement
  <2>2. c \in Cells /\ Min(p.cell[c].seqs) \in p.cell[c].seqs /\ rsIdx[Min(p.cell[c].seqs)] = rsIdx[s]
    BY <1>1, <2>1, OwnRollback
  <2>3. s \in p.cell[c].seqs
    BY <1>1, <2>2 DEF Placement, Linked
  <2>4. ~InFront(p, ss, c)
    <3>1. ASSUME InFront(p, ss, c) PROVE FALSE
      <4>1. c - p.lo + 1 \in 1 .. Len(ss) /\ p.cell[c].seqs = {ss[c - p.lo + 1]}
        <5>1. \A e \in Cells : InFront(p, ss, e) => e - p.lo + 1 \in 1 .. Len(ss) /\ p.cell[e].seqs = {ss[e - p.lo + 1]}
          BY UbatchRows
        <5> HIDE DEF c
        <5>2. QED
          BY <2>2, <3>1, <5>1
      <4>2. s = ss[c - p.lo + 1] /\ c - p.lo + 1 \in DOMAIN ss
        BY <1>1, <2>3, <4>1
      <4>3. QED
        BY <4>2 DEF ToSet
    <3>2. QED
      BY <3>1
  <2>5. cell'[c].pos = cell[tailOf[s]].pos
    BY <2>1, <2>2, UbatchRows
  <2>6. CASE InRange(p, c)
    <3>1. cell'[c].src = c
      BY <2>2, <2>6, UbatchRows
    <3>2. rsIdx'[s] = 0
      <4>1. Min(p.cell[c].seqs) \in FirstSeqs(p)
        BY <2>2, <2>3, <2>6 DEF FirstSeqs, InRange, Empty
      <4>2. CASE Min(p.cell[c].seqs) = s
        BY <1>3, <4>1, <4>2, SizeFact, UbatchRows
      <4>3. CASE Min(p.cell[c].seqs) # s
        <5> DEFINE t == Min(p.cell[c].seqs)
        <5>1. t \in p.cell[c].seqs /\ t # s
          BY <2>2, <4>3
        <5> HIDE DEF t
        <5>2. t \in Seqs /\ p.tail[t] = p.tail[s]
          <6>1. p.cell[c].seqs \in SUBSET Seqs /\ Linked(p.cell, p.tail)
            BY <1>1, <2>2 DEF Placement, CellRecords
          <6>2. t \in Seqs
            BY <5>1, <6>1
          <6>3. p.tail[t] = c
            BY <2>2, <5>1, <6>1, <6>2 DEF Linked
          <6>4. QED
            BY <6>2, <6>3
        <5>3. p.tail[s] >= 0 /\ Placement(p, ss, n) /\ s \in Seqs
          BY <1>1, <2>1
        <5>4. rsIdx[s] = 0
          BY <5>1, <5>2, <5>3, StillShared
        <5>5. QED
          BY <5>4, UbatchRows
      <4>4. QED
        BY <4>2, <4>3
    <3>3. row'[0][c] = Reads(p, c)
      BY <2>2, <2>4, <2>6, SizeFact, UbatchRows
    <3>4. Reads(p, c) = StateOf(s)
      BY <1>1, <2>6, ReadsState DEF InRange
    <3>5. QED
      BY <1>1, <1>2, <1>5, <2>1, <2>2, <2>5, <3>1, <3>2, <3>3, <3>4
  <2>7. CASE ~InRange(p, c)
    <3>1. cell[c].src = tailOf[s] /\ tailOf[s] = c
      BY <1>1, <2>1, <2>2, <2>7 DEF Placement, InRange
    <3>2. cell'[c].src = c
      BY <2>1, <2>2, <2>7, <3>1, UbatchRows
    <3>3. s \notin FirstSeqs(p)
      <4>1. SUFFICES ASSUME NEW d \in p.lo .. p.hi, ~Empty(p.cell, d), s = Min(p.cell[d].seqs) PROVE FALSE
        BY DEF FirstSeqs
      <4>2. d \in Cells
        BY <1>1, SizeFact DEF Placement, Cells
      <4>3. p.cell[d].seqs \in SUBSET Nat /\ p.cell[d].seqs # {}
        <5>1. p.cell[d].seqs \in SUBSET Seqs
          BY <1>1, <4>2 DEF Placement, CellRecords
        <5>2. Seqs \subseteq Nat
          BY SizeFact DEF Seqs, Cells
        <5>3. QED
          BY <4>1, <5>1, <5>2 DEF Empty
      <4>4. s \in p.cell[d].seqs
        BY <4>1, <4>3, SmallestExists
      <4>5. QED
        BY <1>1, <2>7, <4>2, <4>4 DEF Placement, Linked, InRange
    <3>4. rsIdx'[s] = rsIdx[s]
      BY <3>3, UbatchRows
    <3>5. row'[rsIdx[s]][c] = row[rsIdx[s]][c]
      BY <1>3, <2>2, <2>4, <2>7, UbatchRows
    <3>6. StateOf(s) = row[rsIdx[s]][c]
      BY <2>1, <3>1, StateFacts
    <3>7. QED
      BY <1>1, <1>2, <1>5, <2>1, <2>2, <2>5, <3>2, <3>4, <3>5, <3>6
  <2>8. QED
    BY <2>6, <2>7
<1>6. QED
  BY <1>4, <1>5

\* After a ubatch the memory is as the invariant says.
LEMMA UbatchTypes ==
    ASSUME MInv, NEW ss, NEW n, NEW p, UbatchBy(ss, n, p)
    PROVE  MemTypes' /\ Linked(cell, tailOf)'
<1>1. Placement(p, ss, n) /\ ss \in Seq(Seqs) /\ n \in Nat
  BY DEF UbatchBy
<1>2. cell' \in [Cells -> CellRecords]
  <2>1. cell' = [c \in Cells |-> cell'[c]]
    BY DEF UbatchBy, Staged
  <2>2. QED
    BY <2>1, UbatchRows
<1>3. tailOf' \in [Seqs -> -1 .. Size - 1] /\ searchFrom' \in Cells /\ saved' \in States
  BY <1>1 DEF UbatchBy, Placement, MInv, MemTypes
<1>4. rsIdx' \in [Seqs -> 0 .. Depth]
  <2>1. rsIdx' = [s \in Seqs |-> rsIdx'[s]]
    BY DEF UbatchBy
  <2>2. \A s \in Seqs : rsIdx'[s] \in 0 .. Depth
    <3> TAKE s \in Seqs
    <3>1. rsIdx'[s] = 0 \/ rsIdx'[s] = rsIdx[s]
      BY UbatchRows
    <3>2. QED
      BY <3>1, SizeFact DEF MInv, MemTypes
  <2>3. QED
    BY <2>1, <2>2
<1>5. row' \in [0 .. Depth -> [Cells -> States]]
  <2>1. ASSUME NEW g \in 0 .. Depth, NEW c \in Cells PROVE row'[g][c] \in States
    <3>1. row[g][c] \in States
      BY DEF MInv, MemTypes
    <3>2. InRange(p, c) => Reads(p, c) \in States
      BY <1>1, ReadsTyped DEF InRange
    <3>3. CASE InFront(p, ss, c) /\ g < n
      <4> DEFINE s == ss[c - p.lo + 1]
      <4>0. InRange(p, c) /\ c - p.lo + 1 \in 1 .. Len(ss)
        BY <3>3, UbatchRows
      <4>1. InRange(p, c) /\ s \in Seqs /\ row'[g][c] = Reads(p, c) \o SubSeq(batch[s], 1, n - g)
        <5>1. s \in Seqs
          BY <1>1, <4>0
        <5>2. row'[g][c] = Reads(p, c) \o SubSeq(batch[s], 1, n - g)
          BY <3>3, UbatchRows
        <5>3. QED
          BY <4>0, <5>1, <5>2
      <4> HIDE DEF s
      <4>2. n <= Len(batch[s]) /\ batch[s] \in Seq(Seqs)
        <5>1. c - p.lo + 1 \in 1 .. Len(ss)
          BY <3>3, UbatchRows
        <5>2. QED
          BY <4>1, <5>1 DEF UbatchBy, MInv, MemTypes, States, s
      <4>3. n - g \in 0 .. Len(batch[s])
        BY <1>1, <3>3, <4>2
      <4>4. SubSeq(batch[s], 1, n - g) \in Seq(Seqs)
        BY <4>2, <4>3
      <4>5. QED
        BY <3>2, <4>1, <4>4 DEF States
    <3>4. CASE ~(InFront(p, ss, c) /\ g < n)
      BY <3>1, <3>2, <3>4, UbatchRows
    <3>5. QED
      BY <3>3, <3>4
  <2>2. row' = [g \in 0 .. Depth |-> [c \in Cells |-> row'[g][c]]]
    BY DEF UbatchBy
  <2>3. QED
    BY <2>1, <2>2
<1>6. batch' \in [Seqs -> States] /\ \A s \in Seqs : OwnTokens(batch'[s], s)
  <2>1. ASSUME NEW s \in Seqs PROVE OwnTokens(batch'[s], s)
    <3>1. OwnTokens(batch[s], s)
      BY DEF MInv, MemTypes
    <3>2. CASE s \in ToSet(ss)
      <4>1. PICK j \in 1 .. Len(ss) : ss[j] = s
        BY <3>2 DEF ToSet
      <4> DEFINE b == batch[s]
                 v == SubSeq(b, n + 1, Len(b))
      <4>2. batch'[s] = v /\ n <= Len(b)
        BY <3>2, <4>1 DEF UbatchBy
      <4>3. b \in Seq(Seqs) /\ \A i \in 1 .. Len(b) : b[i] = s
        BY <3>1 DEF OwnTokens, States
      <4> HIDE DEF b
      <4>4. v \in Seq(Seqs) /\ Len(v) = Len(b) - n /\ \A i \in 1 .. Len(b) - n : v[i] = b[n + i]
        BY <1>1, <4>2, <4>3
      <4> HIDE DEF v
      <4>5. \A i \in 1 .. Len(b) - n : n + i \in 1 .. Len(b)
        BY <1>1, <4>2, <4>3
      <4>6. \A i \in DOMAIN v : v[i] = s
        BY <4>3, <4>4, <4>5
      <4>7. QED
        BY <4>2, <4>4, <4>6 DEF OwnTokens, States
    <3>3. CASE s \notin ToSet(ss)
      BY <3>1, <3>3 DEF UbatchBy
    <3>4. QED
      BY <3>2, <3>3
  <2>2. batch' = [s \in Seqs |-> batch'[s]]
    BY DEF UbatchBy
  <2>3. \A s \in Seqs : batch'[s] \in States
    BY <2>1 DEF OwnTokens
  <2>4. QED
    BY <2>1, <2>2, <2>3
<1>7. fresh' \in [Seqs -> Nat]
  BY <1>1 DEF UbatchBy
<1>8. Linked(cell', tailOf')
  <2>1. tailOf' = p.tail
    BY DEF UbatchBy
  <2>2. QED
    BY <1>1, <2>1, UbatchRows DEF Placement, Linked
<1>9. QED
  BY <1>2, <1>3, <1>4, <1>5, <1>6, <1>7, <1>8 DEF MemTypes, Linked, OwnTokens

LEMMA UbatchKeeps ==
    ASSUME MInv, NEW ss, NEW n, NEW p, UbatchBy(ss, n, p)
    PROVE  MInv'
<1>1. Placement(p, ss, n) /\ tailOf' = p.tail /\ n \in Nat /\ n > 0
  BY DEF UbatchBy
<1>2. MemTypes' /\ Linked(cell, tailOf)'
  BY UbatchTypes
<1>3. Linked(cell', tailOf')
  BY <1>2 DEF Linked
<1>4. \A c \in Cells : Empty(cell', c) <=> Empty(p.cell, c)
  BY UbatchRows DEF Empty
<1>5. ASSUME NEW c \in Cells, Empty(cell', c)
      PROVE  cell'[c].pos < 0 /\ cell'[c].src \in {-1, c} /\ Clean(cell[c].src)'
  <2>1. Empty(p.cell, c) /\ cell'[c].pos < 0
    <3>1. Empty(p.cell, c)
      BY <1>4, <1>5
    <3>2. p.cell[c].pos < 0
      BY <1>1, <3>1 DEF Placement
    <3>3. QED
      BY <3>1, <3>2, UbatchRows
  <2>2. ~InFront(p, ss, c)
    <3>1. SUFFICES ASSUME InFront(p, ss, c) PROVE FALSE
      OBVIOUS
    <3>2. p.cell[c].seqs = {ss[c - p.lo + 1]}
      BY <3>1, UbatchRows
    <3>3. QED
      BY <2>1, <3>2 DEF Empty
  <2>3. CASE InRange(p, c)
    <3>1. cell'[c].src = c /\ row'[0][c] = Reads(p, c)
      BY <2>2, <2>3, SizeFact, UbatchRows
    <3>2. Reads(p, c) = <<>>
      BY <1>1, <2>1, <2>3, ReadsTyped DEF InRange
    <3>3. QED
      BY <2>1, <3>1, <3>2 DEF Clean
  <2>4. CASE ~InRange(p, c)
    <3>1. Empty(cell, c) /\ cell'[c].src = cell[c].src
      BY <1>1, <2>1, <2>4, UbatchRows DEF Placement, InRange
    <3>2. cell[c].src \in {-1, c} /\ Clean(cell[c].src)
      BY <3>1 DEF MInv, Homes
    <3>3. row'[0][c] = row[0][c]
      BY <2>2, <2>4, SizeFact, UbatchRows
    <3>4. c # -1
      BY SizeFact DEF Cells
    <3>5. QED
      BY <2>1, <3>1, <3>2, <3>3, <3>4 DEF Clean
  <2>5. QED
    BY <2>3, <2>4
<1>6. ASSUME NEW c \in Cells, ~Empty(cell', c)
      PROVE  cell'[c].pos >= 0 /\ cell'[c].src = c
  <2>1. PICK s \in cell'[c].seqs : TRUE
    BY <1>6 DEF Empty
  <2>2. s \in Seqs /\ tailOf'[s] = c
    <3>1. cell'[c] \in CellRecords
      BY UbatchRows
    <3>2. s \in Seqs
      BY <3>1 DEF CellRecords
    <3>3. QED
      BY <1>3, <2>1, <3>2 DEF Linked
  <2>3. CASE s \in ToSet(ss)
    <3>1. PosMax(s) \in Int /\ PosMax(s) >= -1
      BY <2>2, StateFacts
    <3>2. cell'[c].src = c /\ cell'[c].pos = PosMax(s) + n
      BY <2>2, <2>3, UbatchExtends
    <3>3. QED
      BY <1>1, <3>1, <3>2
  <2>4. CASE s \notin ToSet(ss)
    <3>1. ~(c < 0)
      BY SizeFact DEF Cells
    <3>2. ~(tailOf[s] < 0)
      BY <2>2, <2>4, <3>1, UbatchSpares
    <3>3. tailOf[s] >= 0
      <4>1. tailOf[s] \in -1 .. Size - 1
        BY <2>2, StateFacts
      <4>2. QED
        BY <3>2, <4>1
    <3>4. cell[tailOf[s]].pos >= 0
      BY <2>2, <3>3, StateFacts
    <3>5. cell'[c].src = c /\ cell'[c].pos = cell[tailOf[s]].pos
      BY <2>2, <2>4, <3>3, UbatchSpares
    <3>6. QED
      BY <3>4, <3>5
  <2>5. QED
    BY <2>3, <2>4
<1>7. Homes'
  BY <1>5, <1>6 DEF Homes, Empty
<1>8. ASSUME NEW s \in Seqs, s \in ToSet(ss)
      PROVE  /\ ~(tailOf'[s] < 0) /\ rsIdx'[s] = 0 /\ Alone(s)'
             /\ Len(row'[rsIdx'[s]][tailOf'[s]]) = cell'[tailOf'[s]].pos + 1
             /\ \A k \in 1 .. Depth : k < fresh'[s] =>
                   row'[k][tailOf'[s]] = SubSeq(row'[0][tailOf'[s]], 1, cell'[tailOf'[s]].pos + 1 - k)
  <2> DEFINE c == tailOf'[s]
             b == batch[s]
             a == StateOf(s)
             m == PosMax(s)
  <2>1. /\ c \in Cells /\ cell'[c].seqs = {s} /\ cell'[c].pos = m + n /\ rsIdx'[s] = 0 /\ fresh'[s] = n /\ n <= Len(b)
        /\ \A g \in 0 .. Depth : g < n => row'[g][c] = a \o SubSeq(b, 1, n - g)
    <3>1. /\ c \in Cells /\ cell'[c].seqs = {s} /\ cell'[c].pos = m + n /\ rsIdx'[s] = 0 /\ fresh'[s] = n /\ n <= Len(b)
          /\ Absorbs(s, n)
      BY <1>8, UbatchExtends
    <3>2. QED
      BY <3>1 DEF Absorbs
  <2>2. a \in Seq(Seqs) /\ Len(a) = m + 1 /\ m \in Int /\ b \in Seq(Seqs)
    BY StateFacts DEF States, MInv, MemTypes
  <2> HIDE DEF b, a, m
  <2>3. Alone(s)'
    <3>1. \A t \in Seqs : tailOf'[t] = tailOf'[s] => t = s
      BY <1>3, <2>1 DEF Linked
    <3>2. QED
      BY <3>1 DEF Alone
  <2>4. ~(c < 0)
    BY <2>1, SizeFact DEF Cells
  <2>5. row'[0][c] = a \o SubSeq(b, 1, n)
    <3>1. n - 0 = n /\ 0 < n
      BY <1>1
    <3>2. QED
      BY <2>1, <3>1, SizeFact
  <2> HIDE DEF c
  <2>6. Len(row'[0][c]) = m + n + 1
    <3>1. SubSeq(b, 1, n) \in Seq(Seqs) /\ Len(SubSeq(b, 1, n)) = n
      BY <1>1, <2>1, <2>2
    <3>2. QED
      <4> DEFINE v == SubSeq(b, 1, n)
                 x == row'[0][c]
      <4>1. v \in Seq(Seqs) /\ Len(v) = n /\ x = a \o v
        BY <2>5, <3>1
      <4> HIDE DEF v, x
      <4>2. Len(x) = Len(a) + Len(v)
        <5>1. a \in Seq(Seqs)
          BY <2>2
        <5>2. Len(a \o v) = Len(a) + Len(v)
          BY <4>1, <5>1
        <5>3. QED
          BY <4>1, <5>2
      <4>3. QED
        BY <1>1, <2>2, <4>1, <4>2 DEF x
  <2>7. ASSUME NEW k \in 1 .. Depth, k < n PROVE row'[k][c] = SubSeq(row'[0][c], 1, m + n + 1 - k)
    <3>1. k \in Nat /\ k \in 0 .. Depth
      BY SizeFact
    <3>2. row'[k][c] = a \o SubSeq(b, 1, n - k)
      BY <2>1, <2>7, <3>1
    <3>3. a \o SubSeq(b, 1, n - k) = SubSeq(a \o SubSeq(b, 1, n), 1, Len(a) + n - k)
      <4>1. n <= Len(b) /\ k < n
        BY <2>1, <2>7
      <4>2. QED
        BY <1>1, <2>2, <3>1, <4>1, TakenBack, Zenon
    <3>4. Len(a) + n - k = m + n + 1 - k
      BY <1>1, <2>2, <3>1
    <3>5. QED
      BY <2>5, <3>2, <3>3, <3>4
  <2>8. QED
    BY <2>1, <2>3, <2>4, <2>6, <2>7 DEF c
<1>9. ASSUME NEW s \in Seqs, s \notin ToSet(ss)
      PROVE  /\ fresh'[s] = 0 /\ (tailOf'[s] < 0 => rsIdx'[s] = 0) /\ (rsIdx'[s] # 0 => Alone(s)')
             /\ tailOf'[s] >= 0 => Len(row'[rsIdx'[s]][tailOf'[s]]) = cell'[tailOf'[s]].pos + 1
  <2>1. fresh'[s] = 0 /\ tailOf[s] \in -1 .. Size - 1
    BY <1>9, UbatchSpares, StateFacts
  <2>2. CASE tailOf[s] < 0
    <3>1. tailOf'[s] < 0 /\ tailOf'[s] \in -1 .. Size - 1 /\ rsIdx'[s] = 0
      BY <1>9, <2>2, UbatchSpares
    <3>2. ~(tailOf'[s] >= 0)
      BY <3>1, SizeFact
    <3>3. QED
      BY <2>1, <3>1, <3>2
  <2>3. CASE ~(tailOf[s] < 0)
    <3>1. tailOf[s] >= 0
      BY <2>1, <2>3, SizeFact
    <3>2. /\ tailOf'[s] \in Cells /\ cell'[tailOf'[s]].pos = cell[tailOf[s]].pos /\ rsIdx'[s] \in {0, rsIdx[s]}
          /\ row'[rsIdx'[s]][tailOf'[s]] = StateOf(s)
      BY <1>9, <3>1, UbatchSpares
    <3>3. Len(StateOf(s)) = cell[tailOf[s]].pos + 1
      BY <3>1, StateFacts
    <3>4. tailOf'[s] >= 0 /\ ~(tailOf'[s] < 0)
      BY <3>2, SizeFact DEF Cells
    <3>5. rsIdx'[s] # 0 => Alone(s)'
      <4>1. SUFFICES ASSUME rsIdx'[s] # 0, NEW t \in Seqs, tailOf'[t] = tailOf'[s], t # s PROVE FALSE
        BY DEF Alone
      <4>2. rsIdx[s] = 0
        BY <1>1, <3>4, <4>1, StillShared
      <4>3. QED
        BY <3>2, <4>1, <4>2
    <3>6. QED
      BY <2>1, <3>2, <3>3, <3>4, <3>5
  <2>4. QED
    BY <2>2, <2>3
<1>10. Pendings'
  <2>1. ASSUME NEW s \in Seqs
        PROVE  /\ tailOf'[s] < 0 => rsIdx'[s] = 0 /\ fresh'[s] = 0
               /\ rsIdx'[s] # 0 => Alone(s)'
               /\ fresh'[s] # 0 => Alone(s)' /\ rsIdx'[s] = 0
    BY <1>8, <1>9
  <2>2. QED
    BY <2>1 DEF Pendings
<1>11. Lengths'
  <2>1. ASSUME NEW s \in Seqs, tailOf'[s] >= 0 PROVE Len(row'[rsIdx'[s]][tailOf'[s]]) = cell'[tailOf'[s]].pos + 1
    BY <1>8, <1>9, <2>1
  <2>2. QED
    BY <2>1 DEF Lengths
<1>12. Snapshots'
  <2>1. ASSUME NEW s \in Seqs, NEW k \in 1 .. Depth, k < fresh'[s]
        PROVE  row'[k][tailOf'[s]] = SubSeq(row'[0][tailOf'[s]], 1, cell'[tailOf'[s]].pos + 1 - k)
    <3>1. s \in ToSet(ss)
      <4>1. fresh'[s] # 0
        BY <2>1, SizeFact
      <4>2. QED
        BY <1>9, <4>1
    <3>2. QED
      BY <1>8, <2>1, <3>1
  <2>2. QED
    BY <2>1 DEF Snapshots
<1>13. QED
  BY <1>2, <1>7, <1>10, <1>11, <1>12 DEF MInv

\* A ubatch extends the states of its sequences, each by its own tokens.
LEMMA UbatchStates ==
    ASSUME MInv, NEW ss, NEW n, NEW p, UbatchBy(ss, n, p), NEW s \in Seqs
    PROVE  \E k \in Nat : /\ k <= Len(batch[s])
                          /\ StateOf(s)' = StateOf(s) \o SubSeq(batch[s], 1, k)
<1>1. n \in Nat /\ n > 0
  BY DEF UbatchBy
<1>2. StateOf(s)' = IF tailOf'[s] < 0 THEN <<>> ELSE row'[rsIdx'[s]][cell'[tailOf'[s]].src]
  BY DEF StateOf
<1>3. StateOf(s) \in Seq(Seqs) /\ batch[s] \in Seq(Seqs) /\ tailOf[s] \in -1 .. Size - 1
  BY StateFacts DEF States, MInv, MemTypes
<1>4. CASE s \in ToSet(ss)
  <2>1. /\ tailOf'[s] \in Cells /\ cell'[tailOf'[s]].src = tailOf'[s] /\ rsIdx'[s] = 0 /\ n <= Len(batch[s])
        /\ Absorbs(s, n)
    BY <1>4, UbatchExtends
  <2>2. ~(tailOf'[s] < 0) /\ n - 0 = n /\ 0 < n
    BY <1>1, <2>1, SizeFact DEF Cells
  <2>3. StateOf(s)' = StateOf(s) \o SubSeq(batch[s], 1, n)
    BY <1>2, <2>1, <2>2, SizeFact DEF Absorbs
  <2>4. QED
    BY <1>1, <2>1, <2>3
<1>5. CASE s \notin ToSet(ss)
  <2>1. StateOf(s)' = StateOf(s)
    <3>1. CASE tailOf[s] < 0
      <4>1. tailOf'[s] < 0 /\ StateOf(s) = <<>>
        BY <1>5, <3>1, UbatchSpares DEF StateOf
      <4>2. QED
        BY <1>2, <4>1
    <3>2. CASE ~(tailOf[s] < 0)
      <4>1. tailOf[s] >= 0
        BY <1>3, <3>2, SizeFact
      <4>2. /\ tailOf'[s] \in Cells /\ cell'[tailOf'[s]].src = tailOf'[s]
            /\ row'[rsIdx'[s]][tailOf'[s]] = StateOf(s)
        BY <1>5, <4>1, UbatchSpares
      <4>3. ~(tailOf'[s] < 0)
        BY <4>2, SizeFact DEF Cells
      <4>4. QED
        BY <1>2, <4>2, <4>3
    <3>3. QED
      BY <3>1, <3>2
  <2> DEFINE a == StateOf(s)
             b == batch[s]
  <2>2. 0 \in Nat /\ 0 <= Len(b) /\ a \o SubSeq(b, 1, 0) = a
    <3>1. a \in Seq(Seqs) /\ b \in Seq(Seqs)
      BY <1>3
    <3> HIDE DEF a, b
    <3>2. SubSeq(b, 1, 0) = <<>>
      BY <3>1
    <3>3. QED
      BY <3>1, <3>2
  <2>3. QED
    BY <2>1, <2>2
<1>6. QED
  BY <1>4, <1>5

-----------------------------------------------------------------------------
(* The other operations.                                                    *)

\* What a sequence that other operations leave alone keeps.
Kept(s) ==
    /\ tailOf'[s] = tailOf[s] /\ rsIdx'[s] = rsIdx[s] /\ fresh'[s] \in {0, fresh[s]}
    /\ tailOf[s] >= 0 => /\ cell'[tailOf[s]].pos = cell[tailOf[s]].pos /\ cell'[tailOf[s]].src = cell[tailOf[s]].src
                         /\ \A g \in 0 .. Depth : row'[g][tailOf[s]] = row[g][tailOf[s]]
    /\ rsIdx'[s] # 0 \/ fresh'[s] # 0 => \A t \in Seqs : tailOf'[t] = tailOf[s] => tailOf[t] = tailOf[s]

SequenceHolds(s) ==
    /\ tailOf[s] < 0 => rsIdx[s] = 0 /\ fresh[s] = 0
    /\ rsIdx[s] # 0 => Alone(s)
    /\ fresh[s] # 0 => Alone(s) /\ rsIdx[s] = 0
    /\ tailOf[s] >= 0 => Len(row[rsIdx[s]][tailOf[s]]) = cell[tailOf[s]].pos + 1
    /\ \A k \in 1 .. Depth : k < fresh[s] =>
          row[k][tailOf[s]] = SubSeq(row[0][tailOf[s]], 1, cell[tailOf[s]].pos + 1 - k)

LEMMA AllHold == (\A s \in Seqs : SequenceHolds(s)) <=> Pendings /\ Lengths /\ Snapshots
BY DEF SequenceHolds, Pendings, Lengths, Snapshots

LEMMA AllHoldNext == (\A s \in Seqs : SequenceHolds(s)') => Pendings' /\ Lengths' /\ Snapshots'
BY DEF SequenceHolds, Pendings, Lengths, Snapshots, Alone

LEMMA KeptHolds ==
    ASSUME MInv, NEW s \in Seqs, Kept(s)
    PROVE  SequenceHolds(s)' /\ StateOf(s)' = StateOf(s)
<1>1. SequenceHolds(s)
  BY AllHold DEF MInv
<1>2. rsIdx[s] \in 0 .. Depth /\ tailOf[s] \in -1 .. Size - 1 /\ fresh[s] \in Nat
  BY DEF MInv, MemTypes
<1>3. tailOf'[s] = tailOf[s] /\ rsIdx'[s] = rsIdx[s] /\ fresh'[s] \in {0, fresh[s]}
  BY DEF Kept
<1>4. rsIdx'[s] # 0 \/ fresh'[s] # 0 => Alone(s)'
  <2>1. SUFFICES ASSUME rsIdx'[s] # 0 \/ fresh'[s] # 0, NEW t \in Seqs, tailOf'[t] = tailOf'[s] PROVE t = s
    BY DEF Alone
  <2>2. tailOf[t] = tailOf[s]
    BY <1>3, <2>1 DEF Kept
  <2>3. Alone(s)
    BY <1>1, <1>3, <2>1 DEF SequenceHolds
  <2>4. QED
    BY <2>2, <2>3 DEF Alone
<1>5. tailOf[s] < 0 => rsIdx'[s] = 0 /\ fresh'[s] = 0
  BY <1>1, <1>3 DEF SequenceHolds
<1>6. fresh'[s] # 0 => rsIdx'[s] = 0
  BY <1>1, <1>3 DEF SequenceHolds
<1>7. tailOf[s] >= 0 => Len(row'[rsIdx'[s]][tailOf'[s]]) = cell'[tailOf'[s]].pos + 1
  <2>1. SUFFICES ASSUME tailOf[s] >= 0 PROVE Len(row'[rsIdx'[s]][tailOf'[s]]) = cell'[tailOf'[s]].pos + 1
    OBVIOUS
  <2>2. Len(row[rsIdx[s]][tailOf[s]]) = cell[tailOf[s]].pos + 1
    BY <1>1, <2>1 DEF SequenceHolds
  <2>3. cell'[tailOf[s]].pos = cell[tailOf[s]].pos /\ row'[rsIdx[s]][tailOf[s]] = row[rsIdx[s]][tailOf[s]]
    BY <1>2, <2>1 DEF Kept
  <2>4. QED
    BY <1>3, <2>2, <2>3
<1>8. ASSUME NEW k \in 1 .. Depth, k < fresh'[s]
      PROVE  row'[k][tailOf'[s]] = SubSeq(row'[0][tailOf'[s]], 1, cell'[tailOf'[s]].pos + 1 - k)
  <2>1. fresh'[s] = fresh[s] /\ fresh[s] # 0 /\ k < fresh[s] /\ k \in 0 .. Depth
    BY <1>2, <1>3, <1>8, SizeFact
  <2>2. tailOf[s] >= 0
    <3>1. ~(tailOf[s] < 0)
      BY <1>1, <2>1 DEF SequenceHolds
    <3>2. QED
      BY <1>2, <3>1, SizeFact
  <2>3. row[k][tailOf[s]] = SubSeq(row[0][tailOf[s]], 1, cell[tailOf[s]].pos + 1 - k)
    BY <1>1, <2>1 DEF SequenceHolds
  <2>4. row'[k][tailOf[s]] = row[k][tailOf[s]] /\ row'[0][tailOf[s]] = row[0][tailOf[s]]
        /\ cell'[tailOf[s]].pos = cell[tailOf[s]].pos
    BY <2>1, <2>2, SizeFact DEF Kept
  <2>5. QED
    BY <1>3, <2>3, <2>4
<1>9. SequenceHolds(s)'
  BY <1>3, <1>4, <1>5, <1>6, <1>7, <1>8 DEF SequenceHolds
<1>10. StateOf(s)' = StateOf(s)
  <2>1. CASE tailOf[s] < 0
    BY <1>3, <2>1 DEF StateOf
  <2>2. CASE ~(tailOf[s] < 0)
    <3>1. tailOf[s] >= 0
      BY <1>2, <2>2, SizeFact
    <3>2. cell[tailOf[s]].src = tailOf[s]
      BY <3>1, StateFacts
    <3>3. cell'[tailOf[s]].src = tailOf[s] /\ row'[rsIdx[s]][tailOf[s]] = row[rsIdx[s]][tailOf[s]]
      BY <1>2, <3>1, <3>2 DEF Kept
    <3>4. QED
      BY <1>3, <2>2, <3>2, <3>3 DEF StateOf
  <2>3. QED
    BY <2>1, <2>2
<1>11. QED
  BY <1>9, <1>10

\* A sequence that has no cell afterwards.
LEMMA GoneHolds ==
    ASSUME NEW s \in Seqs, tailOf'[s] = -1, rsIdx'[s] = 0, fresh'[s] = 0
    PROVE  SequenceHolds(s)' /\ StateOf(s)' = <<>>
<1>1. tailOf'[s] < 0 /\ ~(tailOf'[s] >= 0)
  OBVIOUS
<1>2. \A k \in 1 .. Depth : ~(k < fresh'[s])
  BY SizeFact
<1>3. QED
  BY <1>1, <1>2 DEF SequenceHolds, StateOf

LEMMA DecodeKeeps ==
    ASSUME MInv, NEW added \in Additions, Decode(added)
    PROVE  MInv' /\ \A s \in Seqs : StateOf(s)' = StateOf(s)
<1>1. UNCHANGED <<cell, tailOf, searchFrom, rsIdx, row, saved>> /\ batch' = added /\ fresh' = [s \in Seqs |-> 0]
  BY DEF Decode
<1>2. ASSUME NEW s \in Seqs PROVE OwnTokens(added[s], s)
  <2>1. PICK n \in [Seqs -> 0 .. MaxBatch] : added = [t \in Seqs |-> [i \in 1 .. n[t] |-> TokenOf(t)]]
    BY DEF Additions
  <2>2. added[s] = [i \in 1 .. n[s] |-> s]
    BY <2>1 DEF TokenOf
  <2>3. n[s] \in Nat
    BY <2>1
  <2> DEFINE m == n[s]
             v == added[s]
  <2>4. m \in Nat /\ v = [i \in 1 .. m |-> s]
    BY <2>2, <2>3
  <2> HIDE DEF m, v
  <2>5. v \in [1 .. m -> Seqs]
    BY <2>4
  <2>6. v \in Seq(Seqs)
    BY <2>4, <2>5
  <2>7. QED
    BY <2>4, <2>6 DEF OwnTokens, States, v
<1>3. MemTypes'
  <2>1. added \in [Seqs -> States]
    <3>1. added = [s \in Seqs |-> added[s]]
      BY DEF Additions
    <3>2. QED
      BY <1>2, <3>1 DEF OwnTokens
  <2>2. fresh' \in [Seqs -> Nat]
    BY <1>1
  <2>3. QED
    BY <1>1, <1>2, <2>1, <2>2 DEF MInv, MemTypes, OwnTokens
<1>4. Linked(cell, tailOf)' /\ Homes'
  BY <1>1 DEF MInv, Linked, Homes, Empty, Clean
<1>5. \A s \in Seqs : Kept(s)
  BY <1>1 DEF Kept
<1>6. \A s \in Seqs : SequenceHolds(s)' /\ StateOf(s)' = StateOf(s)
  BY <1>5, KeptHolds
<1>7. QED
  BY <1>3, <1>4, <1>6, AllHoldNext DEF MInv

\* The tokens that are rolled back are the last ones of the last ubatch: the
\* snapshot before them is there, and no other sequence has the cell.
LEMMA RollbackKeeps ==
    ASSUME MInv, Trailing = FALSE, NEW s \in Seqs, NEW count \in 1 .. Depth, Rollback(s, count)
    PROVE  /\ MInv'
           /\ \E n \in 0 .. Len(StateOf(s)) : StateOf(s)' = SubSeq(StateOf(s), 1, n)
           /\ \A t \in Seqs \ {s} : StateOf(t)' = StateOf(t)
<1> DEFINE c == tailOf[s]
           pos == cell[c].pos
<1>1. /\ c >= 0 /\ count \in 1 .. pos /\ count < fresh[s]
      /\ rsIdx' = [rsIdx EXCEPT ![s] = count]
      /\ cell' = [cell EXCEPT ![c] = [cell[c] EXCEPT !.pos = pos - count]]
      /\ fresh' = [fresh EXCEPT ![s] = 0]
      /\ UNCHANGED <<tailOf, searchFrom, row, batch, saved>>
  BY DEF Rollback
<1>2. count \in Nat /\ count > 0 /\ count \in 0 .. Depth /\ fresh[s] # 0
  <2>1. fresh[s] \in Nat
    BY DEF MInv, MemTypes
  <2>2. QED
    BY <1>1, <2>1, SizeFact
<1>3. Alone(s) /\ rsIdx[s] = 0
  BY <1>2 DEF MInv, Pendings
<1>4. /\ c \in Cells /\ ~(c < 0) /\ s \in cell[c].seqs /\ cell[c].src = c /\ pos >= 0 /\ pos \in Int
      /\ StateOf(s) = row[0][c] /\ StateOf(s) \in Seq(Seqs) /\ Len(StateOf(s)) = pos + 1
  <2>1. c \in Cells /\ cell[c].pos \in Int
    BY <1>1, StateFacts DEF MInv, MemTypes, CellRecords
  <2>2. QED
    BY <1>1, <1>3, <2>1, StateFacts DEF States
<1>5. row[count][c] = SubSeq(row[0][c], 1, pos + 1 - count)
  BY <1>1 DEF MInv, Snapshots
<1>6. MemTypes'
  <2>1. [cell[c] EXCEPT !.pos = pos - count] \in CellRecords
    <3>1. pos - count \in Int /\ cell[c] \in CellRecords
      BY <1>2, <1>4 DEF MInv, MemTypes
    <3>2. QED
      BY <3>1 DEF CellRecords
  <2>2. cell' \in [Cells -> CellRecords]
    BY <1>1, <1>4, <2>1 DEF MInv, MemTypes
  <2>3. rsIdx' \in [Seqs -> 0 .. Depth] /\ fresh' \in [Seqs -> Nat]
    BY <1>1, <1>2 DEF MInv, MemTypes
  <2>4. QED
    BY <1>1, <2>2, <2>3 DEF MInv, MemTypes, OwnTokens
<1>7. \A d \in Cells : cell'[d].seqs = cell[d].seqs /\ cell'[d].src = cell[d].src /\ (d # c => cell'[d] = cell[d])
  BY <1>1 DEF MInv, MemTypes, CellRecords
<1>8. cell'[c].pos = pos - count /\ pos - count >= 0
  <2>1. cell'[c] = [cell[c] EXCEPT !.pos = pos - count]
    BY <1>1, <1>4 DEF MInv, MemTypes
  <2>2. cell[c] \in CellRecords
    BY <1>4 DEF MInv, MemTypes
  <2> HIDE DEF c
  <2>3. [cell[c] EXCEPT !.pos = pos - count].pos = pos - count
    BY <2>2 DEF CellRecords
  <2>4. cell'[c].pos = pos - count
    BY <2>1, <2>3
  <2>5. pos - count >= 0
    <3> HIDE DEF pos
    <3>1. QED
      BY <1>1, <1>4
  <2>6. QED
    BY <2>4, <2>5
<1>9. Linked(cell, tailOf)'
  BY <1>1, <1>7 DEF MInv, Linked
<1>10. Homes'
  <2>1. \A d \in Cells : Empty(cell', d) <=> Empty(cell, d)
    BY <1>7 DEF Empty
  <2>2. \A x : Clean(x)' <=> Clean(x)
    BY <1>1 DEF Clean
  <2>3. ~Empty(cell, c)
    BY <1>4 DEF Empty
  <2>4. ASSUME NEW d \in Cells
        PROVE IF Empty(cell', d) THEN cell'[d].pos < 0 /\ cell'[d].src \in {-1, d} /\ Clean(cell[d].src)'
                                 ELSE cell'[d].pos >= 0 /\ cell'[d].src = d
    <3>1. IF Empty(cell, d) THEN cell[d].pos < 0 /\ cell[d].src \in {-1, d} /\ Clean(cell[d].src)
                            ELSE cell[d].pos >= 0 /\ cell[d].src = d
      BY DEF MInv, Homes
    <3>2. cell'[d].src = cell[d].src
      BY <1>7
    <3>3. Clean(cell[d].src)' <=> Clean(cell[d].src)
      BY <1>1, <3>2 DEF Clean
    <3>4. CASE d = c
      BY <1>4, <1>8, <2>1, <2>3, <3>2, <3>4
    <3>5. CASE d # c
      BY <1>7, <2>1, <3>1, <3>2, <3>3, <3>5
    <3>6. QED
      BY <3>4, <3>5
  <2>5. QED
    BY <2>4 DEF Homes, Empty
<1>11. ASSUME NEW t \in Seqs \ {s} PROVE Kept(t)
  <2>1. tailOf[t] # c
    BY <1>3 DEF Alone
  <2>2. tailOf[t] >= 0 => tailOf[t] \in Cells
    BY StateFacts
  <2>3. rsIdx'[t] = rsIdx[t] /\ fresh'[t] = fresh[t]
    BY <1>1 DEF MInv, MemTypes
  <2>4. QED
    BY <1>1, <1>7, <2>1, <2>2, <2>3 DEF Kept
<1>12. rsIdx'[s] = count /\ fresh'[s] = 0 /\ tailOf'[s] = c /\ row' = row
  BY <1>1 DEF MInv, MemTypes
<1>13. StateOf(s)' = row[count][c]
  BY <1>4, <1>7, <1>12 DEF StateOf
<1>14. SequenceHolds(s)'
  <2>1. Alone(s)'
    BY <1>1, <1>3 DEF Alone
  <2>2. Len(row[count][c]) = pos - count + 1
    <3> DEFINE z == row[0][c]
               m == pos + 1 - count
    <3>1. z \in Seq(Seqs) /\ Len(z) = pos + 1 /\ m \in Nat /\ m <= Len(z) /\ m = pos - count + 1
      BY <1>1, <1>2, <1>4
    <3>2. Len(SubSeq(z, 1, m)) = m
      <4> HIDE DEF z, m
      <4>1. QED
        BY <3>1
    <3>3. QED
      BY <1>5, <3>1, <3>2
  <2>3. \A k \in 1 .. Depth : ~(k < fresh'[s])
    BY <1>12, SizeFact
  <2>4. QED
    BY <1>4, <1>8, <1>12, <2>1, <2>2, <2>3 DEF SequenceHolds
<1>15. \E n \in 0 .. Len(StateOf(s)) : StateOf(s)' = SubSeq(StateOf(s), 1, n)
  <2>1. pos + 1 - count \in 0 .. Len(StateOf(s))
    BY <1>1, <1>2, <1>4
  <2>2. QED
    BY <1>4, <1>5, <1>13, <2>1
<1>16. \A t \in Seqs \ {s} : SequenceHolds(t)' /\ StateOf(t)' = StateOf(t)
  BY <1>11, KeptHolds
<1>17. \A t \in Seqs : SequenceHolds(t)'
  BY <1>14, <1>16
<1>18. QED
  BY <1>6, <1>9, <1>10, <1>15, <1>16, <1>17, AllHoldNext DEF MInv

LEMMA RemovalKeeps ==
    ASSUME MInv, NEW s \in Seqs, SeqRm(s)
    PROVE  MInv' /\ StateOf(s)' = <<>> /\ \A t \in Seqs \ {s} : StateOf(t)' = StateOf(t)
<1>1. /\ cell' = [c \in Cells |-> IF cell[c].seqs = {s} THEN NoCell ELSE [cell[c] EXCEPT !.seqs = cell[c].seqs \ {s}]]
      /\ tailOf' = [tailOf EXCEPT ![s] = -1] /\ rsIdx' = [rsIdx EXCEPT ![s] = 0]
      /\ fresh' = [fresh EXCEPT ![s] = 0] /\ searchFrom' = FreedHead(s)
      /\ UNCHANGED <<row, batch, saved>>
  BY DEF SeqRm, Without
<1>2. /\ \A c \in Cells : cell[c] \in CellRecords
      /\ tailOf \in [Seqs -> -1 .. Size - 1] /\ rsIdx \in [Seqs -> 0 .. Depth] /\ fresh \in [Seqs -> Nat]
  BY DEF MInv, MemTypes
<1>3. \A t \in Seqs, c \in Cells : t \in cell[c].seqs <=> tailOf[t] = c
  BY DEF MInv, Linked
<1>4. ASSUME NEW c \in Cells, cell[c].seqs = {s}
      PROVE  cell'[c] = NoCell /\ NoCell \in CellRecords /\ cell'[c].seqs = {} /\ cell'[c].pos < 0 /\ cell'[c].src = -1
  BY <1>1, <1>4, SizeFact DEF NoCell, CellRecords
<1>5. ASSUME NEW c \in Cells, cell[c].seqs # {s}
      PROVE  /\ cell'[c] \in CellRecords /\ cell'[c].seqs = cell[c].seqs \ {s}
             /\ cell'[c].pos = cell[c].pos /\ cell'[c].src = cell[c].src
  <2>1. cell'[c] = [cell[c] EXCEPT !.seqs = cell[c].seqs \ {s}]
    BY <1>1, <1>5
  <2>2. QED
    BY <1>2, <2>1 DEF CellRecords
<1>6. MemTypes'
  <2>1. cell' \in [Cells -> CellRecords]
    <3>1. \A c \in Cells : cell'[c] \in CellRecords
      BY <1>4, <1>5
    <3>2. cell' = [c \in Cells |-> cell'[c]]
      BY <1>1
    <3>3. QED
      BY <3>1, <3>2
  <2>2. tailOf' \in [Seqs -> -1 .. Size - 1] /\ rsIdx' \in [Seqs -> 0 .. Depth] /\ fresh' \in [Seqs -> Nat]
    BY <1>1, <1>2, SizeFact
  <2>3. searchFrom' \in Cells
    <3> DEFINE F == {c \in Cells : cell[c].seqs = {s}} \union {searchFrom}
    <3>1. F \in SUBSET Nat /\ F # {} /\ F \subseteq Cells
      BY SizeFact DEF Cells, MInv, MemTypes
    <3>2. searchFrom' = Min(F)
      BY <1>1 DEF FreedHead
    <3> HIDE DEF F
    <3>3. QED
      BY <3>1, <3>2, SmallestExists
  <2>4. QED
    BY <1>1, <2>1, <2>2, <2>3 DEF MInv, MemTypes, OwnTokens
<1>7. ASSUME NEW t \in Seqs PROVE tailOf'[t] = IF t = s THEN -1 ELSE tailOf[t]
  BY <1>1, <1>2
<1>8. Linked(cell, tailOf)'
  <2>1. ASSUME NEW t \in Seqs, NEW c \in Cells PROVE t \in cell'[c].seqs <=> tailOf'[t] = c
    <3>1. cell'[c].seqs = cell[c].seqs \ {s}
      BY <1>4, <1>5
    <3>2. c # -1
      BY SizeFact DEF Cells
    <3>3. QED
      BY <1>3, <1>7, <3>1, <3>2
  <2>2. QED
    BY <2>1 DEF Linked
<1>9. Homes'
  <2>1. ASSUME NEW c \in Cells
        PROVE IF Empty(cell', c) THEN cell'[c].pos < 0 /\ cell'[c].src \in {-1, c} /\ Clean(cell[c].src)'
                                 ELSE cell'[c].pos >= 0 /\ cell'[c].src = c
    <3>1. IF Empty(cell, c) THEN cell[c].pos < 0 /\ cell[c].src \in {-1, c} /\ Clean(cell[c].src)
                            ELSE cell[c].pos >= 0 /\ cell[c].src = c
      BY DEF MInv, Homes
    <3>2. CASE cell[c].seqs = {s}
      <4>1. Empty(cell', c)
        BY <1>4, <3>2 DEF Empty
      <4>2. Clean(cell[c].src)'
        BY <1>4, <3>2 DEF Clean
      <4>3. QED
        BY <1>4, <3>2, <4>1, <4>2
    <3>3. CASE cell[c].seqs # {s}
      <4>1. Empty(cell', c) <=> Empty(cell, c)
        BY <1>5, <3>3 DEF Empty
      <4>2. Clean(cell[c].src)' <=> Clean(cell[c].src)
        BY <1>1, <1>5, <3>3 DEF Clean
      <4>3. QED
        BY <1>5, <3>1, <3>3, <4>1, <4>2
    <3>4. QED
      BY <3>2, <3>3
  <2>2. QED
    BY <2>1 DEF Homes, Empty
<1>10. ASSUME NEW t \in Seqs \ {s} PROVE Kept(t)
  <2>1. tailOf'[t] = tailOf[t] /\ rsIdx'[t] = rsIdx[t] /\ fresh'[t] = fresh[t] /\ row' = row
    BY <1>1, <1>2
  <2>2. tailOf[t] >= 0 => /\ tailOf[t] \in Cells /\ cell[tailOf[t]].seqs # {s}
    <3>1. tailOf[t] >= 0 => tailOf[t] \in Cells /\ t \in cell[tailOf[t]].seqs
      BY StateFacts
    <3>2. QED
      BY <3>1
  <2>3. ASSUME rsIdx'[t] # 0 \/ fresh'[t] # 0, NEW u \in Seqs, tailOf'[u] = tailOf[t] PROVE tailOf[u] = tailOf[t]
    <3>1. ~(tailOf[t] < 0)
      BY <2>1, <2>3 DEF MInv, Pendings
    <3>2. u # s
      BY <1>7, <2>3, <3>1
    <3>3. QED
      BY <1>7, <2>3, <3>2
  <2>4. QED
    BY <1>5, <2>1, <2>2, <2>3 DEF Kept
<1>11. \A t \in Seqs \ {s} : SequenceHolds(t)' /\ StateOf(t)' = StateOf(t)
  BY <1>10, KeptHolds
<1>12. SequenceHolds(s)' /\ StateOf(s)' = <<>>
  <2>1. tailOf'[s] = -1 /\ rsIdx'[s] = 0 /\ fresh'[s] = 0
    BY <1>1, <1>2
  <2>2. QED
    BY <2>1, GoneHolds
<1>13. \A t \in Seqs : SequenceHolds(t)'
  BY <1>11, <1>12
<1>14. QED
  BY <1>6, <1>8, <1>9, <1>11, <1>12, <1>13, AllHoldNext DEF MInv

LEMMA CopyKeeps ==
    ASSUME MInv, NEW s \in Seqs, NEW t \in Seqs, CopySeq(s, t)
    PROVE  MInv' /\ StateOf(t)' = StateOf(s) /\ \A u \in Seqs \ {t} : StateOf(u)' = StateOf(u)
<1> DEFINE c == tailOf[s]
<1>1. /\ s # t /\ c >= 0 /\ tailOf[t] < 0 /\ rsIdx[s] = 0
      /\ cell' = [cell EXCEPT ![c] = [cell[c] EXCEPT !.seqs = cell[c].seqs \union {t}]]
      /\ tailOf' = [tailOf EXCEPT ![t] = c] /\ fresh' = [fresh EXCEPT ![s] = 0]
      /\ UNCHANGED <<searchFrom, rsIdx, row, batch, saved>>
  BY DEF CopySeq
<1>2. /\ cell \in [Cells -> CellRecords]
      /\ tailOf \in [Seqs -> -1 .. Size - 1] /\ rsIdx \in [Seqs -> 0 .. Depth] /\ fresh \in [Seqs -> Nat]
  BY DEF MInv, MemTypes
<1>3. \A u \in Seqs, d \in Cells : u \in cell[d].seqs <=> tailOf[u] = d
  BY DEF MInv, Linked
<1>4. c \in Cells /\ ~(c < 0) /\ s \in cell[c].seqs /\ cell[c].src = c /\ cell[c].pos >= 0
      /\ StateOf(s) = row[0][c] /\ Len(StateOf(s)) = cell[c].pos + 1
  BY <1>1, StateFacts
<1>5. rsIdx[t] = 0 /\ fresh[t] = 0
  BY <1>1 DEF MInv, Pendings
<1>6. \A d \in Cells : /\ cell'[d] \in CellRecords /\ cell'[d].pos = cell[d].pos /\ cell'[d].src = cell[d].src
                       /\ cell'[d].seqs = IF d = c THEN cell[d].seqs \union {t} ELSE cell[d].seqs
  <2> TAKE d \in Cells
  <2>1. cell[d] \in CellRecords
    BY <1>2
  <2>2. CASE d = c
    <3>1. cell'[d] = [cell[d] EXCEPT !.seqs = cell[d].seqs \union {t}]
      BY <1>1, <1>2, <2>2
    <3>2. QED
      BY <2>1, <2>2, <3>1 DEF CellRecords
  <2>3. CASE d # c
    BY <1>1, <1>2, <2>1, <2>3
  <2>4. QED
    BY <2>2, <2>3
<1>7. \A u \in Seqs : tailOf'[u] = IF u = t THEN c ELSE tailOf[u]
  BY <1>1, <1>2
<1>8. MemTypes'
  <2>1. cell' \in [Cells -> CellRecords]
    <3>1. cell' = [d \in Cells |-> cell'[d]]
      BY <1>1, <1>2
    <3>2. QED
      BY <1>6, <3>1
  <2>2. tailOf' \in [Seqs -> -1 .. Size - 1] /\ fresh' \in [Seqs -> Nat]
    BY <1>1, <1>2
  <2>3. QED
    BY <1>1, <2>1, <2>2 DEF MInv, MemTypes, OwnTokens
<1>9. Linked(cell, tailOf)'
  <2>1. ASSUME NEW u \in Seqs, NEW d \in Cells PROVE u \in cell'[d].seqs <=> tailOf'[u] = d
    <3>1. ~(d < 0)
      BY SizeFact DEF Cells
    <3>2. QED
      BY <1>1, <1>3, <1>6, <1>7, <3>1
  <2>2. QED
    BY <2>1 DEF Linked
<1>10. Homes'
  <2>1. ASSUME NEW d \in Cells
        PROVE IF Empty(cell', d) THEN cell'[d].pos < 0 /\ cell'[d].src \in {-1, d} /\ Clean(cell[d].src)'
                                 ELSE cell'[d].pos >= 0 /\ cell'[d].src = d
    <3>1. IF Empty(cell, d) THEN cell[d].pos < 0 /\ cell[d].src \in {-1, d} /\ Clean(cell[d].src)
                            ELSE cell[d].pos >= 0 /\ cell[d].src = d
      BY DEF MInv, Homes
    <3>2. Empty(cell', d) <=> Empty(cell, d)
      BY <1>4, <1>6 DEF Empty
    <3>3. Clean(cell[d].src)' <=> Clean(cell[d].src)
      BY <1>1, <1>6 DEF Clean
    <3>4. QED
      BY <1>6, <3>1, <3>2, <3>3
  <2>2. QED
    BY <2>1 DEF Homes, Empty
<1>11. ASSUME NEW u \in Seqs \ {t} PROVE Kept(u)
  <2>1. tailOf'[u] = tailOf[u] /\ rsIdx'[u] = rsIdx[u] /\ fresh'[u] \in {0, fresh[u]} /\ row' = row
        /\ (u = s => fresh'[u] = 0)
    BY <1>1, <1>2
  <2>2. tailOf[u] >= 0 => tailOf[u] \in Cells
    BY StateFacts
  <2>3. ASSUME rsIdx'[u] # 0 \/ fresh'[u] # 0, NEW v \in Seqs, tailOf'[v] = tailOf[u] PROVE tailOf[v] = tailOf[u]
    <3>1. u # s
      BY <1>1, <2>1, <2>3
    <3>2. rsIdx[u] # 0 \/ fresh[u] # 0
      BY <2>1, <2>3
    <3>3. Alone(u)
      BY <3>2 DEF MInv, Pendings
    <3>4. tailOf[s] # tailOf[u]
      BY <3>1, <3>3 DEF Alone
    <3>5. v # t
      BY <1>7, <2>3, <3>4
    <3>6. QED
      BY <1>7, <2>3, <3>5
  <2>4. QED
    BY <1>6, <2>1, <2>2, <2>3 DEF Kept
<1>12. \A u \in Seqs \ {t} : SequenceHolds(u)' /\ StateOf(u)' = StateOf(u)
  BY <1>11, KeptHolds
<1>13. tailOf'[t] = c /\ rsIdx'[t] = 0 /\ fresh'[t] = 0 /\ row' = row /\ cell'[c].src = c /\ cell'[c].pos = cell[c].pos
  BY <1>1, <1>2, <1>4, <1>5, <1>6
<1>14. StateOf(t)' = StateOf(s)
  BY <1>4, <1>13 DEF StateOf
<1>15. SequenceHolds(t)'
  <2>1. \A k \in 1 .. Depth : ~(k < fresh'[t])
    BY <1>13, SizeFact
  <2>2. QED
    BY <1>4, <1>13, <2>1 DEF SequenceHolds
<1>16. \A u \in Seqs : SequenceHolds(u)'
  BY <1>12, <1>15
<1>17. QED
  BY <1>8, <1>9, <1>10, <1>12, <1>14, <1>16, AllHoldNext DEF MInv

\* The row that is written out is the sequence's: those that share its cell
\* wait for no rollback.
LEMMA WriteKeeps ==
    ASSUME MInv, NEW s \in Seqs, StateWrite(s)
    PROVE  MInv' /\ saved' = StateOf(s) /\ \A t \in Seqs : StateOf(t)' = StateOf(t)
<1> DEFINE c == tailOf[s]
           R == {0} \union {rsIdx[t] : t \in cell[c].seqs}
<1>1. /\ c >= 0 /\ saved' = row[Selected(c)][IF Selected(c) = 0 THEN c ELSE cell[c].src]
      /\ UNCHANGED <<cell, tailOf, searchFrom, rsIdx, row, batch, fresh>>
  BY DEF StateWrite
<1>2. c \in Cells /\ s \in cell[c].seqs /\ cell[c].src = c /\ StateOf(s) = row[rsIdx[s]][c] /\ StateOf(s) \in States
  BY <1>1, StateFacts
<1>3. \A t \in cell[c].seqs : t \in Seqs /\ tailOf[t] = c /\ rsIdx[t] \in 0 .. Depth
  <2>1. cell[c].seqs \subseteq Seqs
    BY <1>2 DEF MInv, MemTypes, CellRecords
  <2>2. QED
    BY <1>2, <2>1 DEF MInv, MemTypes, Linked
<1>4. Selected(c) = rsIdx[s]
  <2>1. \A t \in cell[c].seqs : rsIdx[t] = rsIdx[s] \/ (rsIdx[t] = 0 /\ rsIdx[s] = 0)
    <3> TAKE t \in cell[c].seqs
    <3>1. CASE t = s
      BY <3>1
    <3>2. CASE t # s
      <4>1. ~Alone(s) /\ ~Alone(t)
        BY <1>2, <1>3, <3>2 DEF Alone
      <4>2. QED
        BY <1>3, <4>1 DEF MInv, Pendings
    <3>3. QED
      BY <3>1, <3>2
  <2>2. R \in SUBSET (0 .. Depth) /\ R # {} /\ rsIdx[s] \in R /\ \A k \in R : k = 0 \/ k = rsIdx[s]
    BY <1>2, <1>3, <2>1, SizeFact
  <2>3. Selected(c) = Max(R)
    BY DEF Selected
  <2> HIDE DEF R
  <2>4. Max(R) \in R /\ \A k \in R : k <= Max(R)
    BY <2>2, SizeFact, LargestExists
  <2>5. (Max(R) = 0 \/ Max(R) = rsIdx[s]) /\ rsIdx[s] <= Max(R)
    BY <2>2, <2>4
  <2>6. rsIdx[s] \in 0 .. Depth
    BY <1>2, <1>3
  <2>7. Max(R) = rsIdx[s]
    BY <2>5, <2>6
  <2>8. QED
    BY <2>3, <2>7
<1>5. saved' = StateOf(s)
  BY <1>1, <1>2, <1>4
<1>6. MemTypes' /\ Linked(cell, tailOf)' /\ Homes' /\ Pendings' /\ Lengths' /\ Snapshots'
  <2>1. MemTypes'
    BY <1>1, <1>2, <1>5 DEF MInv, MemTypes, OwnTokens
  <2>2. Linked(cell, tailOf)' /\ Homes' /\ Pendings' /\ Lengths' /\ Snapshots'
    BY <1>1 DEF MInv, Linked, Homes, Empty, Clean, Pendings, Alone, Lengths, Snapshots
  <2>3. QED
    BY <2>1, <2>2
<1>7. \A t \in Seqs : StateOf(t)' = StateOf(t)
  BY <1>1 DEF StateOf
<1>8. QED
  BY <1>5, <1>6, <1>7 DEF MInv

LEMMA ReadKeeps ==
    ASSUME MInv, NEW s \in Seqs, StateRead(s)
    PROVE  MInv' /\ StateOf(s)' = saved /\ \A t \in Seqs \ {s} : StateOf(t)' = StateOf(t)
<1> DEFINE ss == <<s>>
           n == Len(saved)
           p == Placed(ss, n)
           lo == p.lo
<1>1. /\ tailOf[s] < 0 /\ saved # <<>> /\ cell' = Staged(p) /\ tailOf' = p.tail /\ searchFrom' = lo
      /\ row' = [row EXCEPT ![0] = [row[0] EXCEPT ![lo] = saved]]
      /\ rsIdx' = [rsIdx EXCEPT ![s] = 0] /\ fresh' = [fresh EXCEPT ![s] = 0]
      /\ UNCHANGED <<batch, saved>>
  BY DEF StateRead
<1>2. /\ tailOf \in [Seqs -> -1 .. Size - 1] /\ rsIdx \in [Seqs -> 0 .. Depth] /\ fresh \in [Seqs -> Nat]
      /\ row \in [0 .. Depth -> [Cells -> States]] /\ saved \in States
  BY DEF MInv, MemTypes
<1>3. n \in Nat /\ n > 0 /\ saved \in Seq(Seqs)
  BY <1>1, <1>2 DEF States
<1>4. ss \in Seq(Seqs) /\ ss # <<>> /\ IsInjective(ss) /\ ToSet(ss) = {s} /\ Len(ss) = 1 /\ ss[1] = s
  BY DEF IsInjective, ToSet
<1> HIDE DEF n, ss
<1>5. Placement(p, ss, n)
  BY <1>3, <1>4, PlacedFacts
<1> HIDE DEF p
<1>6. /\ lo \in Cells /\ p.hi = lo /\ lo \in Int
      /\ p.cell \in [Cells -> CellRecords] /\ p.tail \in [Seqs -> -1 .. Size - 1] /\ Linked(p.cell, p.tail)
  BY <1>4, <1>5, SizeFact DEF Placement, Cells
<1>7. p.tail[s] = lo /\ p.cell[lo].seqs = {s} /\ p.cell[lo].pos = n - 1
  <2>1. 1 \in 1 .. Len(ss) /\ lo + 1 - 1 = lo
    BY <1>4, <1>6
  <2>2. p.tail[s] = lo /\ p.cell[lo].seqs = {s} /\ p.cell[lo].pos = PosMax(s) + n
    BY <1>4, <1>5, <2>1 DEF Placement
  <2>3. PosMax(s) = -1
    BY <1>1 DEF PosMax
  <2>4. QED
    BY <1>3, <2>2, <2>3
<1>8. \A c \in Cells : c \in lo .. p.hi <=> c = lo
  BY <1>6, SizeFact DEF Cells
<1> HIDE DEF lo
<1>9. ASSUME NEW c \in Cells, c # lo
      PROVE  /\ p.cell[c].src = cell[c].src /\ p.cell[c].pos = cell[c].pos /\ (Empty(p.cell, c) <=> Empty(cell, c))
             /\ \A t \in Seqs : p.tail[t] = c => tailOf[t] = c
  BY <1>5, <1>8, <1>9 DEF Placement, lo
<1>10. \A c \in Cells : /\ cell'[c] \in CellRecords /\ cell'[c].seqs = p.cell[c].seqs /\ cell'[c].pos = p.cell[c].pos
                        /\ cell'[c].src = IF c = lo THEN c ELSE p.cell[c].src
  <2> TAKE c \in Cells
  <2>1. cell'[c] = IF c = lo THEN [p.cell[c] EXCEPT !.src = c] ELSE p.cell[c]
    BY <1>1, <1>8 DEF Staged, InRange, lo
  <2>2. p.cell[c] \in CellRecords /\ c \in -1 .. Size - 1
    BY <1>6, SizeFact DEF Cells
  <2>3. QED
    BY <2>1, <2>2 DEF CellRecords
<1>11. ASSUME NEW t \in Seqs \ {s}
       PROVE  IF tailOf[t] < 0 THEN p.tail[t] < 0 ELSE p.tail[t] = tailOf[t] /\ tailOf[t] \in Cells /\ tailOf[t] # lo
  <2>1. t \notin ToSet(ss)
    BY <1>4
  <2>2. CASE tailOf[t] < 0
    BY <1>5, <2>1, <2>2 DEF Placement
  <2>3. CASE ~(tailOf[t] < 0)
    <3>1. tailOf[t] >= 0
      BY <1>2, <2>3, SizeFact
    <3>2. p.tail[t] >= 0
      BY <1>5, <3>1 DEF Placement
    <3>3. p.tail[t] \in Cells
      BY <1>6, <3>2, SizeFact DEF Cells
    <3>4. p.tail[t] # lo
      <4>1. t \in p.cell[p.tail[t]].seqs
        BY <1>6, <3>3 DEF Linked
      <4>2. QED
        BY <1>7, <4>1
    <3>5. tailOf[t] = p.tail[t]
      BY <1>9, <3>3, <3>4
    <3>6. QED
      BY <2>3, <3>3, <3>4, <3>5
  <2>4. QED
    BY <2>2, <2>3
<1>12. \A g \in 0 .. Depth, c \in Cells : row'[g][c] = IF g = 0 /\ c = lo THEN saved ELSE row[g][c]
  BY <1>1, <1>2, SizeFact
<1>13. MemTypes'
  <2>1. cell' \in [Cells -> CellRecords]
    <3>1. cell' = [c \in Cells |-> cell'[c]]
      BY <1>1 DEF Staged
    <3>2. QED
      BY <1>10, <3>1
  <2>2. row' \in [0 .. Depth -> [Cells -> States]]
    <3>1. [row[0] EXCEPT ![lo] = saved] \in [Cells -> States]
      BY <1>2, SizeFact
    <3>2. QED
      BY <1>1, <1>2, <3>1
  <2>3. rsIdx' \in [Seqs -> 0 .. Depth] /\ fresh' \in [Seqs -> Nat]
    BY <1>1, <1>2, SizeFact
  <2>4. QED
    BY <1>1, <1>6, <2>1, <2>2, <2>3 DEF MInv, MemTypes, OwnTokens
<1>14. Linked(cell, tailOf)'
  BY <1>1, <1>6, <1>10 DEF Linked
<1>15. Homes'
  <2>1. ASSUME NEW c \in Cells
        PROVE IF Empty(cell', c) THEN cell'[c].pos < 0 /\ cell'[c].src \in {-1, c} /\ Clean(cell[c].src)'
                                 ELSE cell'[c].pos >= 0 /\ cell'[c].src = c
    <3>1. Empty(cell', c) <=> Empty(p.cell, c)
      BY <1>10 DEF Empty
    <3>2. CASE c = lo
      <4>1. ~Empty(p.cell, c)
        BY <1>7, <3>2 DEF Empty
      <4>2. cell'[c].pos >= 0
        BY <1>3, <1>7, <1>10, <3>2
      <4>3. QED
        BY <1>10, <3>1, <3>2, <4>1, <4>2
    <3>3. CASE c # lo
      <4>1. IF Empty(cell, c) THEN cell[c].pos < 0 /\ cell[c].src \in {-1, c} /\ Clean(cell[c].src)
                              ELSE cell[c].pos >= 0 /\ cell[c].src = c
        BY DEF MInv, Homes
      <4>2. cell'[c].pos = cell[c].pos /\ cell'[c].src = cell[c].src /\ (Empty(p.cell, c) <=> Empty(cell, c))
        BY <1>9, <1>10, <3>3
      <4>3. row'[0][c] = row[0][c]
        BY <1>12, <3>3, SizeFact
      <4>4. cell[c].src \in {-1, c} /\ Clean(cell[c].src) => Clean(cell[c].src)'
        BY <4>2, <4>3 DEF Clean
      <4>5. QED
        BY <3>1, <4>1, <4>2, <4>4
    <3>4. QED
      BY <3>2, <3>3
  <2>2. QED
    BY <2>1 DEF Homes, Empty
<1>16. ASSUME NEW t \in Seqs \ {s}, ~(tailOf[t] < 0) PROVE Kept(t)
  <2>1. tailOf'[t] = tailOf[t] /\ tailOf[t] \in Cells /\ tailOf[t] # lo
    BY <1>1, <1>11, <1>16
  <2>2. rsIdx'[t] = rsIdx[t] /\ fresh'[t] = fresh[t]
    BY <1>1, <1>2
  <2>3. cell'[tailOf[t]].pos = cell[tailOf[t]].pos /\ cell'[tailOf[t]].src = cell[tailOf[t]].src
    BY <1>9, <1>10, <2>1
  <2>4. \A g \in 0 .. Depth : row'[g][tailOf[t]] = row[g][tailOf[t]]
    BY <1>12, <2>1
  <2>5. \A u \in Seqs : tailOf'[u] = tailOf[t] => tailOf[u] = tailOf[t]
    BY <1>1, <1>9, <2>1
  <2>6. QED
    BY <2>1, <2>2, <2>3, <2>4, <2>5 DEF Kept
<1>17. ASSUME NEW t \in Seqs \ {s}, tailOf[t] < 0 PROVE SequenceHolds(t)' /\ StateOf(t)' = StateOf(t)
  <2>1. rsIdx[t] = 0 /\ fresh[t] = 0 /\ StateOf(t) = <<>>
    BY <1>17 DEF MInv, Pendings, StateOf
  <2>2. tailOf'[t] = -1
    <3>1. p.tail[t] < 0 /\ p.tail[t] \in -1 .. Size - 1
      BY <1>6, <1>11, <1>17
    <3>2. QED
      BY <1>1, <3>1, SizeFact
  <2>3. rsIdx'[t] = 0 /\ fresh'[t] = 0
    BY <1>1, <1>2, <2>1
  <2>4. QED
    BY <2>1, <2>2, <2>3, GoneHolds
<1>18. \A t \in Seqs \ {s} : SequenceHolds(t)' /\ StateOf(t)' = StateOf(t)
  BY <1>16, <1>17, KeptHolds
<1>19. /\ tailOf'[s] = lo /\ rsIdx'[s] = 0 /\ fresh'[s] = 0 /\ ~(lo < 0)
       /\ cell'[lo].src = lo /\ cell'[lo].pos = n - 1 /\ row'[0][lo] = saved
  BY <1>1, <1>2, <1>6, <1>7, <1>10, <1>12, SizeFact DEF Cells
<1>20. StateOf(s)' = saved
  BY <1>19 DEF StateOf
<1>21. SequenceHolds(s)'
  <2>1. \A k \in 1 .. Depth : ~(k < fresh'[s])
    BY <1>19, SizeFact
  <2>2. Len(saved) = n - 1 + 1
    BY <1>3 DEF n
  <2>3. QED
    BY <1>19, <2>1, <2>2 DEF SequenceHolds
<1>22. \A t \in Seqs : SequenceHolds(t)'
  BY <1>18, <1>21
<1>23. QED
  BY <1>13, <1>14, <1>15, <1>18, <1>20, <1>22, AllHoldNext DEF MInv

-----------------------------------------------------------------------------
(* The theorems.                                                            *)

LEMMA FirstState ==
    ASSUME MemInit
    PROVE  MInv /\ \A s \in Seqs : StateOf(s) = <<>>
<1>1. /\ cell = [c \in Cells |-> NoCell] /\ tailOf = [s \in Seqs |-> -1] /\ searchFrom = 0
      /\ rsIdx = [s \in Seqs |-> 0] /\ row = [g \in 0 .. Depth |-> [c \in Cells |-> <<>>]]
      /\ batch = [s \in Seqs |-> <<>>] /\ fresh = [s \in Seqs |-> 0] /\ saved = <<>>
  BY DEF MemInit
<1>2. NoCell \in CellRecords /\ NoCell.seqs = {} /\ NoCell.src = -1 /\ NoCell.pos < 0
  BY SizeFact DEF NoCell, CellRecords
<1>3. <<>> \in States /\ \A s \in Seqs : OwnTokens(<<>>, s)
  BY DEF States, OwnTokens
<1>4. MemTypes
  <2>1. cell \in [Cells -> CellRecords]
    BY <1>1, <1>2
  <2>2. tailOf \in [Seqs -> -1 .. Size - 1] /\ rsIdx \in [Seqs -> 0 .. Depth] /\ fresh \in [Seqs -> Nat]
    BY <1>1, SizeFact
  <2>3. row \in [0 .. Depth -> [Cells -> States]] /\ batch \in [Seqs -> States] /\ saved \in States
    BY <1>1, <1>3
  <2>4. \A s \in Seqs : OwnTokens(batch[s], s)
    BY <1>1, <1>3
  <2>5. QED
    BY <1>1, <2>1, <2>2, <2>3, <2>4, SizeFact DEF MemTypes
<1>5. Linked(cell, tailOf)
  <2>1. \A c \in Cells : c # -1
    BY SizeFact DEF Cells
  <2>2. QED
    BY <1>1, <1>2, <2>1 DEF Linked
<1>6. Homes
  BY <1>1, <1>2 DEF Homes, Empty, Clean
<1>7. \A s \in Seqs : /\ tailOf[s] < 0 /\ ~(tailOf[s] >= 0) /\ rsIdx[s] = 0 /\ fresh[s] = 0
                      /\ \A k \in 1 .. Depth : ~(k < fresh[s])
  BY <1>1, SizeFact
<1>8. Pendings /\ Lengths /\ Snapshots
  BY <1>7 DEF Pendings, Lengths, Snapshots
<1>9. \A s \in Seqs : StateOf(s) = <<>>
  BY <1>7 DEF StateOf
<1>10. QED
  BY <1>4, <1>5, <1>6, <1>8, <1>9 DEF MInv

LEMMA StaysAsItWas ==
    ASSUME MInv, UNCHANGED memVars
    PROVE  MInv' /\ saved' = saved /\ \A s \in Seqs : StateOf(s)' = StateOf(s)
<1>1. UNCHANGED <<cell, tailOf, searchFrom, rsIdx, row, batch, fresh, saved>>
  BY DEF memVars
<1>2. MemTypes' /\ Linked(cell, tailOf)' /\ Homes' /\ Pendings' /\ Lengths' /\ Snapshots'
  BY <1>1 DEF MInv, MemTypes, OwnTokens, Linked, Homes, Empty, Clean, Pendings, Alone, Lengths, Snapshots
<1>3. QED
  BY <1>1, <1>2 DEF MInv, StateOf

LEMMA MemoryStep ==
    ASSUME MInv, Trailing = FALSE, [MemNext]_memVars
    PROVE  MInv'
<1>1. CASE UNCHANGED memVars
  BY <1>1, StaysAsItWas
<1>2. ASSUME NEW added \in Additions, Decode(added) PROVE MInv'
  BY <1>2, DecodeKeeps
<1>3. CASE Ubatch
  <2>1. PICK ss, n, p : UbatchBy(ss, n, p)
    BY <1>3, UbatchIs
  <2>2. QED
    BY <2>1, UbatchKeeps
<1>4. ASSUME NEW s \in Seqs, NEW count \in 1 .. Depth, Rollback(s, count) PROVE MInv'
  BY <1>4, RollbackKeeps
<1>5. ASSUME NEW s \in Seqs, SeqRm(s) PROVE MInv'
  BY <1>5, RemovalKeeps
<1>6. ASSUME NEW s \in Seqs, StateWrite(s) PROVE MInv'
  BY <1>6, WriteKeeps
<1>7. ASSUME NEW s \in Seqs, StateRead(s) PROVE MInv'
  BY <1>7, ReadKeeps
<1>8. ASSUME NEW s \in Seqs, NEW t \in Seqs, CopySeq(s, t) PROVE MInv'
  BY <1>8, CopyKeeps
<1>9. QED
  BY <1>1, <1>2, <1>3, <1>4, <1>5, <1>6, <1>7, <1>8 DEF MemNext

LEMMA InvariantIsCoherent == MInv => CellsCoherent
<1> SUFFICES ASSUME MInv PROVE CellsCoherent
  OBVIOUS
<1>1. \A c \in Cells : ~Empty(cell, c) <=> cell[c].pos >= 0
  <2> TAKE c \in Cells
  <2>1. cell[c].pos \in Int
    BY DEF MInv, MemTypes, CellRecords
  <2>2. Empty(cell, c) => cell[c].pos < 0
    BY DEF MInv, Homes
  <2>3. ~Empty(cell, c) => cell[c].pos >= 0
    BY DEF MInv, Homes
  <2>4. QED
    BY <2>1, <2>2, <2>3
<1>2. \A s \in Seqs, c \in Cells : s \in cell[c].seqs <=> tailOf[s] = c
  BY DEF MInv, Linked
<1>3. \A s \in Seqs : Len(StateOf(s)) = PosMax(s) + 1
  BY StateFacts
<1>4. QED
  BY <1>1, <1>2, <1>3 DEF CellsCoherent, TailsMatch, PositionIsLength

LEMMA MemoryInvariant ==
    ASSUME Trailing = FALSE
    PROVE  MemSpec => []MInv
<1>1. MemInit => MInv
  BY FirstState
<1>2. MInv /\ [MemNext]_memVars => MInv'
  BY MemoryStep
<1>3. QED
  BY <1>1, <1>2, PTL DEF MemSpec

\* However the cells of sequences are shared, moved, zeroed, rolled back and
\* restored, tails and cells agree and the position of a cell is the number of
\* tokens that its state has absorbed (find_slot, seq_rm, state_read of
\* llama-memory-recurrent.cpp and the rows of build_rs), for any number of
\* cells and snapshots, provided that what is rolled back are tokens of the
\* last ubatch.
THEOREM CellsStayCoherent ==
    ASSUME Trailing = FALSE
    PROVE  MemSpec => []CellsCoherent
<1>1. MInv => CellsCoherent
  BY InvariantIsCoherent
<1>2. QED
  BY <1>1, MemoryInvariant, PTL

\* A step of the memory is a step of the states, or changes none.
LEMMA PrivateStep ==
    ASSUME MInv, Trailing = FALSE, [MemNext]_memVars
    PROVE  [Private!SequencesNext]_(Private!sequenceVars)
<1> DEFINE state == [s \in Seqs |-> StateOf(s)]
           next == [s \in Seqs |-> StateOf(s)']
<1>1. ASSUME saved' = saved, next = state PROVE [Private!SequencesNext]_(Private!sequenceVars)
  BY <1>1 DEF Private!sequenceVars
<1>2. ASSUME NEW s \in Seqs, saved' = saved, NEW n \in 0 .. Len(StateOf(s)), StateOf(s)' = SubSeq(StateOf(s), 1, n),
             \A t \in Seqs \ {s} : StateOf(t)' = StateOf(t)
      PROVE  Private!SequencesNext
  <2>1. next = [state EXCEPT ![s] = SubSeq(state[s], 1, n)]
    BY <1>2
  <2>2. Private!Truncate(s)
    BY <1>2, <2>1 DEF Private!Truncate
  <2>3. QED
    BY <2>2 DEF Private!SequencesNext
<1>3. CASE UNCHANGED memVars
  BY <1>1, <1>3, StaysAsItWas
<1>4. ASSUME NEW added \in Additions, Decode(added) PROVE [Private!SequencesNext]_(Private!sequenceVars)
  <2>1. saved' = saved
    BY <1>4 DEF Decode
  <2>2. QED
    BY <1>1, <1>4, <2>1, DecodeKeeps
<1>5. CASE Ubatch
  <2>1. PICK ss, n, p : UbatchBy(ss, n, p)
    BY <1>5, UbatchIs
  <2>2. saved' = saved
    BY <1>5 DEF Ubatch
  <2>3. ASSUME NEW s \in Seqs PROVE \E k \in 0 .. Len(StateOf(s)') : StateOf(s)' = StateOf(s) \o [i \in 1 .. k |-> s]
    <3>1. PICK k \in Nat : k <= Len(batch[s]) /\ StateOf(s)' = StateOf(s) \o SubSeq(batch[s], 1, k)
      BY <2>1, UbatchStates
    <3> DEFINE a == StateOf(s)
               b == batch[s]
               v == SubSeq(b, 1, k)
    <3>2. a \in Seq(Seqs) /\ b \in Seq(Seqs) /\ \A i \in 1 .. Len(b) : b[i] = s
      <4>1. a \in Seq(Seqs)
        BY StateFacts DEF States
      <4>2. b \in Seq(Seqs) /\ \A i \in DOMAIN b : b[i] = s
        BY DEF States, MInv, MemTypes, OwnTokens
      <4> HIDE DEF a, b
      <4>3. DOMAIN b = 1 .. Len(b)
        BY <4>2
      <4>4. QED
        BY <4>1, <4>2, <4>3
    <3>3. StateOf(s)' = a \o v /\ k <= Len(b)
      BY <3>1
    <3> HIDE DEF a, b
    <3>4. v \in Seq(Seqs) /\ Len(v) = k /\ v = [i \in 1 .. k |-> s]
      BY <3>2, <3>3
    <3> HIDE DEF v
    <3>5. Len(a \o v) = Len(a) + k
      BY <3>2, <3>4
    <3>6. k \in 0 .. Len(StateOf(s)')
      BY <3>2, <3>3, <3>5
    <3>7. QED
      BY <3>3, <3>4, <3>6 DEF a
  <2>4. Private!Extend
    BY <2>2, <2>3 DEF Private!Extend
  <2>5. QED
    BY <2>4 DEF Private!SequencesNext
<1>6. ASSUME NEW s \in Seqs, NEW count \in 1 .. Depth, Rollback(s, count) PROVE Private!SequencesNext
  <2>1. saved' = saved
    BY <1>6 DEF Rollback
  <2>2. PICK n \in 0 .. Len(StateOf(s)) : StateOf(s)' = SubSeq(StateOf(s), 1, n)
    BY <1>6, RollbackKeeps
  <2>3. \A t \in Seqs \ {s} : StateOf(t)' = StateOf(t)
    BY <1>6, RollbackKeeps
  <2>4. QED
    BY <1>2, <2>1, <2>2, <2>3
<1>7. ASSUME NEW s \in Seqs, SeqRm(s) PROVE Private!SequencesNext
  <2>1. saved' = saved
    BY <1>7 DEF SeqRm
  <2>2. StateOf(s)' = <<>> /\ \A t \in Seqs \ {s} : StateOf(t)' = StateOf(t)
    BY <1>7, RemovalKeeps
  <2>3. 0 \in 0 .. Len(StateOf(s)) /\ SubSeq(StateOf(s), 1, 0) = <<>>
    <3>1. StateOf(s) \in Seq(Seqs)
      BY StateFacts DEF States
    <3>2. QED
      BY <3>1
  <2>4. QED
    BY <1>2, <2>1, <2>2, <2>3
<1>8. ASSUME NEW s \in Seqs, StateWrite(s) PROVE Private!SequencesNext
  <2>1. saved' = state[s] /\ next = state
    BY <1>8, WriteKeeps
  <2>2. Private!Save(s)
    BY <2>1 DEF Private!Save
  <2>3. QED
    BY <2>2 DEF Private!SequencesNext
<1>9. ASSUME NEW s \in Seqs, StateRead(s) PROVE Private!SequencesNext
  <2>1. saved' = saved
    BY <1>9 DEF StateRead
  <2>2. next = [state EXCEPT ![s] = saved]
    BY <1>9, ReadKeeps
  <2>3. Private!Load(s)
    BY <2>1, <2>2 DEF Private!Load
  <2>4. QED
    BY <2>3 DEF Private!SequencesNext
<1>10. ASSUME NEW s \in Seqs, NEW t \in Seqs, CopySeq(s, t) PROVE Private!SequencesNext
  <2>1. saved' = saved
    BY <1>10 DEF CopySeq
  <2>2. next = [state EXCEPT ![t] = state[s]]
    BY <1>10, CopyKeeps
  <2>3. Private!Copy(s, t)
    BY <2>1, <2>2 DEF Private!Copy
  <2>4. QED
    BY <2>3 DEF Private!SequencesNext
<1>11. QED
  BY <1>3, <1>4, <1>5, <1>6, <1>7, <1>8, <1>9, <1>10 DEF MemNext

\* Every sequence behaves as if its state were its own: the memory implements
\* SequenceStates, where a ubatch extends states, an accepted removal
\* truncates one, and no operation on some sequences changes another.
THEOREM StatesArePrivate ==
    ASSUME Trailing = FALSE
    PROVE  MemSpec => StatesPrivate
<1>1. MemInit => Private!SequencesInit
  <2>1. SUFFICES ASSUME MemInit PROVE Private!SequencesInit
    OBVIOUS
  <2>2. saved = <<>>
    BY <2>1 DEF MemInit
  <2>3. QED
    BY <2>1, <2>2, FirstState DEF Private!SequencesInit
<1>2. MInv /\ [MemNext]_memVars => [Private!SequencesNext]_(Private!sequenceVars)
  BY PrivateStep
<1>3. QED
  BY <1>1, <1>2, MemoryInvariant, PTL DEF MemSpec, StatesPrivate, Private!SequencesSpec

\* Wherever find_slot is called for sequences ss, a cell of the range that has no
\* state to read finds a row that may be zeroed.
ZeroRowIsThere == \A ss \in Seq(Seqs), n \in Nat : ss # <<>> /\ IsInjective(ss) =>
    LET p == Placed(ss, n)
    IN  \A c \in p.lo .. p.hi : p.cell[c].src < 0 => Unreferenced(p) # {}

\* The assertion of find_slot that there is such a row, GGML_ASSERT(rs_z >= 0)
\* (llama-memory-recurrent.cpp:674), never fails: with a row of the range
\* that starts from nothing, another row of the range is read by nobody.
THEOREM ZeroRowIsFound ==
    ASSUME Trailing = FALSE
    PROVE  MemSpec => []ZeroRowIsThere
<1>1. MInv => ZeroRowIsThere
  <2>1. SUFFICES ASSUME MInv, NEW ss \in Seq(Seqs), NEW n \in Nat, ss # <<>>, IsInjective(ss),
                        NEW c \in Placed(ss, n).lo .. Placed(ss, n).hi, Placed(ss, n).cell[c].src < 0
                 PROVE  Unreferenced(Placed(ss, n)) # {}
    BY DEF ZeroRowIsThere
  <2>2. Placement(Placed(ss, n), ss, n)
    BY <2>1, PlacedFacts
  <2>3. QED
    BY <2>1, <2>2, ZeroRow
<1>2. QED
  BY <1>1, MemoryInvariant, PTL

\* A sequence that waits for a rollback has its cell to itself.
OneRollback == \A c \in Cells : \A s, t \in cell[c].seqs : rsIdx[s] # 0 => s = t

\* The abort of state_write_data, "recurrent state shared by multiple rollback
\* indices" (llama-memory-recurrent.cpp:859), is never reached: the state that is
\* written for a cell is that of each of its sequences.
THEOREM WritesOneState ==
    ASSUME Trailing = FALSE
    PROVE  MemSpec => []OneRollback
<1>1. MInv => OneRollback
  <2>1. SUFFICES ASSUME MInv, NEW c \in Cells, NEW s \in cell[c].seqs, NEW t \in cell[c].seqs, rsIdx[s] # 0 PROVE s = t
    BY DEF OneRollback
  <2>2. s \in Seqs /\ t \in Seqs
    BY <2>1 DEF MInv, MemTypes, CellRecords
  <2>3. tailOf[s] = c /\ tailOf[t] = c
    BY <2>1, <2>2 DEF MInv, Linked
  <2>4. Alone(s)
    BY <2>1, <2>2 DEF MInv, Pendings
  <2>5. QED
    BY <2>2, <2>3, <2>4 DEF Alone
<1>2. QED
  BY <1>1, MemoryInvariant, PTL
=============================================================================
