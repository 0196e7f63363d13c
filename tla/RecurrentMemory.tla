--------------------------- MODULE RecurrentMemory ---------------------------
(***************************************************************************)
(* The memory of a recurrent model (src/llama-memory-recurrent.cpp): one   *)
(* cell holds the state of a whole sequence, and each ubatch gathers the   *)
(* cells of its sequences into neighbours.  A cell has Depth further rows, *)
(* the states after the tokens before the last one, for a rollback that    *)
(* the next ubatch carries out (rs_idx).  A state is the tokens that it    *)
(* has absorbed.  One thread: an operation is one action, a decode one per *)
(* ubatch.  The rows are those of the delta-net layers: what               *)
(* src/models/delta-net-base.cpp reads and writes around an ubatch.        *)
(***************************************************************************)
EXTENDS Integers, Sequences, FiniteSets, SequencesExt, FiniteSetsExt

CONSTANTS
    Size,      \* the cells, and the sequences (n_seq_max)
    Depth,     \* n_rs_seq
    MaxLen,    \* bound: tokens in a sequence
    MaxBatch,  \* bound: tokens a batch adds to a sequence
    MaxOps,    \* bound: operations
    Trailing   \* whether tokens of earlier ubatches are rolled back

ASSUME SizeAssumption == Size \in Nat \ {0} /\ Depth \in Nat

VARIABLES
    cell,   \* per cell: pos, seq_id and src
    tailOf,   \* per sequence: the cell of its state, or -1 (tail)
    searchFrom, \* where the search for a cell starts (head)
    rsIdx,  \* per sequence: how far the next ubatch rolls it back
    row,    \* row[g][c]: the state g tokens before the last of cell c
    batch,  \* per sequence: the tokens of the batch that wait for an ubatch
    recent, \* per sequence: how many tokens the last batch added to it
    fresh,  \* per sequence: how many tokens the last ubatch added to it
    saved,  \* the state written by state_write
    ops     \* how many operations there were

memVars == <<cell, tailOf, searchFrom, rsIdx, row, batch, recent, fresh, saved, ops>>

Cells == 0 .. Size - 1
Seqs == Cells
Empty(cs, c) == cs[c].seqs = {}
NoCell == [pos |-> -1, seqs |-> {}, src |-> -1]

MemInit ==
    /\ cell = [c \in Cells |-> NoCell]
    /\ tailOf = [s \in Seqs |-> -1]
    /\ searchFrom = 0
    /\ rsIdx = [s \in Seqs |-> 0]
    /\ row = [g \in 0 .. Depth |-> [c \in Cells |-> <<>>]]
    /\ batch = [s \in Seqs |-> <<>>]
    /\ recent = [s \in Seqs |-> 0]
    /\ fresh = [s \in Seqs |-> 0]
    /\ saved = <<>>
    /\ ops = 0

(* Between operations: every ubatch of the last batch was computed.        *)
Begin == (\A s \in Seqs : batch[s] = <<>>) /\ ops < MaxOps /\ ops' = ops + 1
Used == Cardinality({c \in Cells : ~Empty(cell, c)})
PosMax(s) == IF tailOf[s] < 0 THEN -1 ELSE cell[tailOf[s]].pos

(***************************************************************************)
(* find_slot, for sequences ss that take n tokens each.                    *)
(***************************************************************************)
NextEmpty(cs, from) ==
    LET at(k) == (from + k) % Size
        found == {k \in Cells : Empty(cs, at(k))}
    IN IF found = {} THEN from ELSE at(Min(found))

(* A sequence that shares its cell, or has none, gets an empty one.        *)
Own(acc, s) ==
    LET old == acc.tail[s]
        new == acc.next
        copied == [acc.cell EXCEPT ![new] = [acc.cell[old] EXCEPT !.seqs = {s}]]
        taken == IF old < 0 THEN [acc.cell EXCEPT ![new].seqs = {s}] ELSE [copied EXCEPT ![old].seqs = @ \ {s}]
    IN IF old >= 0 /\ acc.cell[old].seqs = {s}
       THEN acc
       ELSE [cell |-> taken, tail |-> [acc.tail EXCEPT ![s] = new], next |-> NextEmpty(taken, new)]

(* The cell of s trades places with cell dst.                              *)
Neighbour(acc, s, dst) ==
    LET src == acc.tail[s]
    IN [cell |-> [acc.cell EXCEPT ![dst] = acc.cell[src], ![src] = acc.cell[dst]],
        tail |-> [t \in Seqs |-> IF acc.tail[t] = src THEN dst ELSE IF acc.tail[t] = dst THEN src ELSE acc.tail[t]]]

(* The cells of the sequences become neighbours, from cell lo on.          *)
Gathered(owned, lo, ss) ==
    FoldLeftDomain(LAMBDA acc, i : Neighbour(acc, ss[i], lo + i - 1), [cell |-> owned.cell, tail |-> owned.tail], ss)

Placed(ss, n) ==
    LET from == IF searchFrom > Used + 2 * Len(ss) THEN 0 ELSE searchFrom
        owned == FoldLeft(Own, [cell |-> cell, tail |-> tailOf, next |-> NextEmpty(cell, from)], ss)
        tails == {owned.tail[s] : s \in ToSet(ss)}
        gathered == Gathered(owned, Min(tails), ss)
    IN [lo |-> Min(tails), hi |-> Max(tails), tail |-> gathered.tail,
        cell |-> [c \in Cells |->
            IF c - Min(tails) \in 0 .. Len(ss) - 1
            THEN [gathered.cell[c] EXCEPT !.pos = PosMax(ss[c - Min(tails) + 1]) + n]
            ELSE gathered.cell[c]]]

(* rs_z: the first cell of the range that no cell takes its state from.    *)
Unreferenced(p) == {c \in p.lo .. p.hi : \A d \in Cells : p.cell[d].src # c}

(* The row that cell c of the range reads: s_copy, build_rs                *)
Source(p, c) == IF p.cell[c].src < 0 THEN Min(Unreferenced(p)) ELSE p.cell[c].src
RolledBack(p, c) == IF Empty(p.cell, c) THEN 0 ELSE rsIdx[Min(p.cell[c].seqs)]
MutReads(p, c) == row[RolledBack(p, c)][Source(p, c)]
Reads(p, c) ==
    IF RolledBack(p, c) = 0 /\ Unreferenced(p) # {} /\ Source(p, c) = Min(Unreferenced(p))
    THEN <<>>
    ELSE row[RolledBack(p, c)][Source(p, c)]

InRange(p, c) == c \in p.lo .. p.hi
Staged(p) == [c \in Cells |-> IF InRange(p, c) THEN [p.cell[c] EXCEPT !.src = c] ELSE p.cell[c]]
FirstSeqs(p) == {Min(p.cell[c].seqs) : c \in {d \in p.lo .. p.hi : ~Empty(p.cell, d)}}

(***************************************************************************)
(* The operations.                                                         *)
(***************************************************************************)
(* llama_decode: a batch adds tokens to some sequences, from their ends on *)
Decode(added) ==
    /\ Begin
    /\ \E s \in Seqs : added[s] # <<>>
    /\ \A s \in Seqs : PosMax(s) + 1 + Len(added[s]) <= MaxLen
    /\ batch' = added
    /\ recent' = [s \in Seqs |-> Len(added[s])]
    /\ fresh' = [s \in Seqs |-> 0]
    /\ UNCHANGED <<cell, tailOf, searchFrom, rsIdx, row, saved>>

(* split_equal: the sequences that follow each other in the batch, each    *)
(* with as many tokens as the one with the fewest.                         *)
Waiting == {s \in Seqs : batch[s] # <<>>}
Together == {s \in Waiting : \A t \in Min(Waiting) .. s : t \in Waiting}

(* One ubatch: the states of its sequences are read, and the last          *)
(* Depth + 1 states of each are written; the other cells of the range are  *)
(* copied into place.                                                      *)
Ubatch ==
    LET ss == [i \in 1 .. Cardinality(Together) |-> Min(Waiting) + i - 1]
        n == Min({Len(batch[s]) : s \in Together})
        p == Placed(ss, n)
        among(c) == c - p.lo \in 0 .. Len(ss) - 1
        after(g, c) == Reads(p, c) \o SubSeq(batch[ss[c - p.lo + 1]], 1, n - g)
    IN /\ Waiting # {}
       /\ row' = [g \in 0 .. Depth |-> [c \in Cells |->
                    CASE among(c) /\ g < n -> after(g, c)
                      [] InRange(p, c) /\ ~among(c) /\ g = 0 -> Reads(p, c)
                      [] OTHER -> row[g][c]]]
       /\ cell' = Staged(p)
       /\ tailOf' = p.tail
       /\ searchFrom' = p.lo
       /\ rsIdx' = [s \in Seqs |-> IF Depth > 0 /\ s \in FirstSeqs(p) THEN 0 ELSE rsIdx[s]]
       /\ batch' = [s \in Seqs |-> IF s \in Together THEN SubSeq(batch[s], n + 1, Len(batch[s])) ELSE batch[s]]
       /\ fresh' = [s \in Seqs |-> IF s \in Together THEN n ELSE 0]
       /\ UNCHANGED <<recent, saved, ops>>

(* seq_rm of the end of a sequence: accepted up to n_rs_seq tokens.  After *)
(* a verification those are tokens of the last batch, and of its last      *)
(* ubatch if one took it all (SnapshotsValid); a prompt that is reused in  *)
(* part removes tokens of earlier batches as well.                         *)
Rollback(s, count) ==
    /\ Begin
    /\ tailOf[s] >= 0
    /\ count \in 1 .. cell[tailOf[s]].pos /\ count <= Depth
    /\ Trailing \/ count < fresh[s]
    /\ rsIdx' = [rsIdx EXCEPT ![s] = count]
    /\ cell' = [cell EXCEPT ![tailOf[s]].pos = @ - count]
    /\ recent' = [recent EXCEPT ![s] = 0]
    /\ fresh' = [fresh EXCEPT ![s] = 0]
    /\ UNCHANGED <<tailOf, searchFrom, row, batch, saved>>

(* seq_rm of a whole sequence                                              *)
Without(cs, s) == [c \in Cells |-> IF cs[c].seqs = {s} THEN NoCell ELSE [cs[c] EXCEPT !.seqs = @ \ {s}]]
FreedHead(s) == Min({c \in Cells : cell[c].seqs = {s}} \union {searchFrom})

MutSeqRm(s) ==
    /\ Begin
    /\ tailOf[s] >= 0
    /\ cell' = Without(cell, s)
    /\ tailOf' = [tailOf EXCEPT ![s] = -1]
    /\ searchFrom' = FreedHead(s)
    /\ recent' = [recent EXCEPT ![s] = 0]
    /\ fresh' = [fresh EXCEPT ![s] = 0]
    /\ UNCHANGED <<rsIdx, row, batch, saved>>

SeqRm(s) ==
    /\ Begin
    /\ tailOf[s] >= 0
    /\ rsIdx' = [rsIdx EXCEPT ![s] = 0]
    /\ cell' = Without(cell, s)
    /\ tailOf' = [tailOf EXCEPT ![s] = -1]
    /\ searchFrom' = FreedHead(s)
    /\ recent' = [recent EXCEPT ![s] = 0]
    /\ fresh' = [fresh EXCEPT ![s] = 0]
    /\ UNCHANGED <<row, batch, saved>>

(* copy_state_to removes the sequence t first, and copies one whose prompt *)
(* was just decoded, so that no rollback is pending: they share the cell.  *)
CopySeq(s, t) ==
    /\ Begin
    /\ s # t /\ tailOf[s] >= 0 /\ tailOf[t] < 0
    /\ rsIdx[s] = 0
    /\ cell' = [cell EXCEPT ![tailOf[s]].seqs = @ \union {t}]
    /\ tailOf' = [tailOf EXCEPT ![t] = tailOf[s]]
    /\ recent' = [recent EXCEPT ![s] = 0]
    /\ fresh' = [fresh EXCEPT ![s] = 0]
    /\ UNCHANGED <<searchFrom, rsIdx, row, batch, saved>>

(* state_write: the row that the rollback selects                          *)
Selected(c) == Max({0} \union {rsIdx[s] : s \in cell[c].seqs})
StateWrite(s) ==
    /\ Begin
    /\ tailOf[s] >= 0
    /\ saved' = row[Selected(tailOf[s])][IF Selected(tailOf[s]) = 0 THEN tailOf[s] ELSE cell[tailOf[s]].src]
    /\ UNCHANGED <<cell, tailOf, searchFrom, rsIdx, row, batch, recent, fresh>>

(* state_read: the sequence was removed; find_slot gives it a cell.        *)
StateRead(s) ==
    LET p == Placed(<<s>>, Len(saved))
    IN /\ Begin
       /\ tailOf[s] < 0 /\ saved # <<>>
       /\ cell' = Staged(p)
       /\ tailOf' = p.tail
       /\ searchFrom' = p.lo
       /\ row' = [row EXCEPT ![0][p.lo] = saved]
       /\ rsIdx' = [rsIdx EXCEPT ![s] = 0]
       /\ recent' = [recent EXCEPT ![s] = 0]
       /\ fresh' = [fresh EXCEPT ![s] = 0]
       /\ UNCHANGED <<batch, saved>>

(* A token is known by the sequence it is added to.                        *)
TokenOf(s) == s

Additions ==
    {[s \in Seqs |-> [i \in 1 .. n[s] |-> TokenOf(s)]] : n \in [Seqs -> 0 .. MaxBatch]}

MemNext ==
    \/ \E added \in Additions : Decode(added)
    \/ Ubatch
    \/ \E s \in Seqs : \/ \E count \in 1 .. Depth : Rollback(s, count)
                       \/ SeqRm(s) \/ StateWrite(s) \/ StateRead(s)
                       \/ \E t \in Seqs : CopySeq(s, t)

MemSpec == MemInit /\ [][MemNext]_memVars

(***************************************************************************)
(* Properties.                                                             *)
(***************************************************************************)
(* The state the next ubatch of a sequence starts from                     *)
StateOf(s) == IF tailOf[s] < 0 THEN <<>> ELSE row[rsIdx[s]][cell[tailOf[s]].src]

(* The verification in find_slot that only debug builds make: tails and    *)
(* the sets of the cells say the same; and a cell's position is the number *)
(* of tokens its state has absorbed.                                       *)
TailsMatch ==
    /\ \A s \in Seqs, c \in Cells : s \in cell[c].seqs <=> tailOf[s] = c
    /\ \A c \in Cells : ~Empty(cell, c) <=> cell[c].pos >= 0
PositionIsLength == \A s \in Seqs : Len(StateOf(s)) = PosMax(s) + 1
CellsCoherent == TailsMatch /\ PositionIsLength

(* The tokens that the last batch added to a sequence can be taken back,   *)
(* up to Depth of them: "the trailing (1 + n_rs_seq) tokens of each seq    *)
(* must stay in the same ubatch so that the rollback snapshots remain      *)
(* valid" (llama-memory-hybrid-idx.cpp), which split_equal does not see to.*)
SnapshotsValid ==
    \A s \in Seqs, k \in 1 .. Depth :
        tailOf[s] >= 0 /\ k < recent[s] /\ (\A t \in Seqs : batch[t] = <<>>) =>
            row[k][cell[tailOf[s]].src] = SubSeq(StateOf(s), 1, Len(StateOf(s)) - k)

(* Every sequence behaves as if its state were its own: sharing, moving,   *)
(* zeroing and rolling back rows never shows.                              *)
Private == INSTANCE SequenceStates WITH Seqs <- Seqs, state <- [s \in Seqs |-> StateOf(s)], saved <- saved
StatesPrivate == Private!SequencesSpec
=============================================================================
