------------------------------- MODULE KvCache -------------------------------
(***************************************************************************)
(* The attention memory (src/llama-kv-cache.cpp, llama-kv-cells.h) under   *)
(* the main loop of the server: how cells are found for a batch, tried and *)
(* given back, taken by another sequence once the window has passed them,  *)
(* shared, copied between streams, shifted, saved and restored.            *)
(*                                                                         *)
(* A memory is a record: per stream and cell its metadata (position,       *)
(* sequences, the shift not yet applied to its key) and its row (the token *)
(* it was computed for, the position its key is rotated to), the heads of  *)
(* the searches, and the copies between streams that an update will do.    *)
(* A mode is a configuration: one stream for all or one for each slot, the *)
(* cells of a stream, n_ctx of a slot (more than the cells under a window),*)
(* the window (0: none), which of several completions of a prompt, context *)
(* shifts and a prompt cache in RAM the server uses, and whether a task    *)
(* may repeat exactly what its slot holds.                                 *)
(***************************************************************************)
EXTENDS Integers, Sequences, SequencesExt, FiniteSetsExt, Subsequences

CONSTANTS
    KvSeqs,       \* 0 .. n_parallel - 1: the slots, each with its sequence
    UBatch, FullBatch, \* n_ubatch and n_batch
    NKeep,        \* n_keep of a shift
    Texts,        \* bound: the prompts of the tasks, none of whose tokens is a slot
    Modes,        \* bound: the configurations
    MaxLaunches,  \* bound: how many tasks arrive
    MaxEntries    \* bound: the prompts that the cache in RAM holds

(* Slots are numbered from 0; a prompt has tokens and leaves room in the    *)
(* context ("exceeds the available context size" otherwise); a shift keeps  *)
(* at least three tokens less than it (n_keep is cut to n_ctx - 4).         *)
ASSUME KvAssumption ==
    /\ IsFiniteSet(KvSeqs) /\ KvSeqs # {} /\ KvSeqs = 0 .. Cardinality(KvSeqs) - 1
    /\ UBatch \in Nat \ {0} /\ FullBatch \in Nat \ {0} /\ NKeep \in Nat
    /\ Texts \subseteq Seq(Int) \ {<<>>}
    /\ Modes \subseteq [unified : BOOLEAN, window : Nat, several : BOOLEAN, shifts : BOOLEAN, ram : BOOLEAN,
                        repeats : BOOLEAN, cells : Nat \ {0}, context : Nat]
    /\ \A x \in Modes : /\ x.shifts => NKeep + 3 <= x.context
                        /\ \A text \in Texts : Len(text) < x.context

VARIABLES mode, kv, kvSlot, kvSaved, kvBatch, nBatch, launched,
          blind        \* history: a token has attended to rows that are not its text's

kvVars == <<mode, kv, kvSlot, kvSaved, kvBatch, nBatch, launched, blind>>

KvCells == 0 .. mode.cells - 1
All == mode.context + 1  \* a position that no token reaches
Free == [pos |-> -1, seqs |-> {}, shift |-> 0]
NoRow == [token |-> -1, at |-> -1]

StreamOf(s) == IF mode.unified THEN 0 ELSE s
Holding(m, s) == {i \in KvCells : s \in m.cells[StreamOf(s)][i].seqs}
PosOf(m, s) == {m.cells[StreamOf(s)][i].pos : i \in Holding(m, s)}
KvPosMax(m, s) == Max({-1} \union PosOf(m, s))
KvPosMin(m, s) == IF PosOf(m, s) = {} THEN -1 ELSE Min(PosOf(m, s))
Masked(p0, p1) == mode.window > 0 /\ p1 - p0 >= mode.window
InOrder == [k \in 1 .. Cardinality(KvSeqs) |-> k - 1]

-----------------------------------------------------------------------------
(* A cell without a sequence, or with one more, or moved                   *)
WithoutSeq(c, s) == [c EXCEPT !.seqs = @ \ {s}]
WithSeq(c, s) == [c EXCEPT !.seqs = @ \union {s}]
Moved(c, d) == [c EXCEPT !.pos = @ + d, !.shift = @ + d]
Rotated(row, d) == [row EXCEPT !.at = @ + d]

(* seq_rm: positions from p0, before p1                                    *)
SeqRmRange(m, s, p0, p1) ==
    LET st == StreamOf(s)
        hit == {i \in Holding(m, s) : m.cells[st][i].pos \in p0 .. p1 - 1}
        freed == {i \in hit : m.cells[st][i].seqs = {s}}
    IN [m EXCEPT !.cells[st] = [i \in KvCells |-> IF i \in freed THEN Free
                                                  ELSE IF i \in hit THEN WithoutSeq(@[i], s)
                                                  ELSE @[i]],
                 !.head[st] = Min({@} \union freed)]

(* of several sequences: of each from a position of its own on             *)
SeqRmFrom(m, from) ==
    LET left(c) == {s \in c.seqs : c.pos < from[s]}
        freed(st) == {i \in KvCells : m.cells[st][i].seqs # {} /\ left(m.cells[st][i]) = {}}
    IN [m EXCEPT !.cells = [st \in KvSeqs |-> [i \in KvCells |->
                               IF i \in freed(st) THEN Free
                               ELSE [@[st][i] EXCEPT !.seqs = left(m.cells[st][i])]]],
                 !.head = [st \in KvSeqs |-> Min({@[st]} \union freed(st))]]

ClearedSeqs(m, gone) == SeqRmFrom(m, [s \in KvSeqs |-> IF s \in gone THEN 0 ELSE All])

(* seq_cp of a whole sequence: within a stream the cells are shared, else  *)
(* the metadata is copied now and the rows by the next update.             *)
SeqCp(m, s, t) ==
    IF mode.unified
    THEN [m EXCEPT !.cells[0] = [i \in KvCells |-> IF s \in @[i].seqs THEN WithSeq(@[i], t)
                                                   ELSE @[i]]]
    ELSE [m EXCEPT !.cells = [st \in KvSeqs |->
                       IF st # t THEN m.cells[st]
                       ELSE [i \in KvCells |-> IF s \in m.cells[s][i].seqs THEN [m.cells[s][i] EXCEPT !.seqs = {t}]
                                               ELSE Free]],
                   !.head[t] = m.head[s],
                   !.copies = Append(@, [from |-> s, to |-> t])]

(* seq_add, of positions from p0: the cells move at once, their keys later *)
SeqAdd(m, s, p0, d) ==
    LET st == StreamOf(s)
    IN [m EXCEPT !.cells[st] = [i \in KvCells |-> IF s \in @[i].seqs /\ @[i].pos >= p0
                                                  THEN Moved(@[i], d)
                                                  ELSE @[i]],
                 !.head[st] = 0]

(* update: the copies between streams, then the shifts                     *)
Copied(m) == FoldLeft(LAMBDA n, c : [n EXCEPT !.rows[c.to] = n.rows[c.from]], m, m.copies)
Updated(m) ==
    LET n == Copied(m)
    IN [n EXCEPT !.copies = <<>>,
                 !.rows = [st \in KvSeqs |-> [i \in KvCells |-> Rotated(@[st][i], n.cells[st][i].shift)]],
                 !.cells = [st \in KvSeqs |-> [i \in KvCells |-> [@[st][i] EXCEPT !.shift = 0]]]]

-----------------------------------------------------------------------------
(* A token of a batch is a record: its sequence, position and token.       *)
At(ub, k) == StreamOf(ub[k].seq)
StreamsOf(ub) == {At(ub, k) : k \in DOMAIN ub}
CountIn(ub, st) == Cardinality({k \in DOMAIN ub : At(ub, k) = st})
Rank(ub, k) == Cardinality({j \in 1 .. k : At(ub, j) = At(ub, k)})

(* find_slot: the first cells from the head on, around the ring, that are  *)
(* empty, or that one sequence holds and its next token will not see       *)
CanUse(m, st, i) ==
    LET c == m.cells[st][i]
    IN \/ c.pos = -1
       \/ \E s \in KvSeqs : c.seqs = {s} /\ Masked(c.pos, KvPosMax(m, s) + 1)

FindIn(m, st, n) ==
    LET used == Cardinality({i \in KvCells : m.cells[st][i].pos # -1})
        from == IF m.head[st] > used + 2 * n THEN 0 ELSE m.head[st]
        ring == [k \in 1 .. mode.cells |-> (from + k - 1) % mode.cells]
        found == SubseqAt(ring, {k \in DOMAIN ring : CanUse(m, st, ring[k])})
    IN SubSeq(found, 1, Min({n, Len(found)}))

FindSlot(m, ub) ==
    LET found == [st \in StreamsOf(ub) |-> FindIn(m, st, CountIn(ub, st))]
    IN IF \A st \in StreamsOf(ub) : Len(found[st]) = CountIn(ub, st)
       THEN [k \in DOMAIN ub |-> found[At(ub, k)][Rank(ub, k)]]
       ELSE <<>>

(* apply_ubatch: what a sequence has at or before the last position taken  *)
(* from it goes too, so that it has no holes.                              *)
MutApplyUbatch(m, ub, idx) ==
    LET new(st, i) == {k \in DOMAIN ub : At(ub, k) = st /\ idx[k] = i}
    IN [m EXCEPT
        !.cells = [st \in KvSeqs |-> [i \in KvCells |->
                      IF new(st, i) # {}
                      THEN LET k == Min(new(st, i)) IN [pos |-> ub[k].pos, seqs |-> {ub[k].seq}, shift |-> 0]
                      ELSE @[st][i]]],
        !.head = [st \in KvSeqs |-> IF st \in StreamsOf(ub)
                                    THEN 1 + idx[Max({k \in DOMAIN ub : At(ub, k) = st})] ELSE @[st]]]

ApplyUbatch(m, ub, idx) ==
    LET new(st, i) == {k \in DOMAIN ub : At(ub, k) = st /\ idx[k] = i}
        taken == [s \in KvSeqs |-> Max({-1} \union {m.cells[At(ub, k)][idx[k]].pos :
                            k \in {j \in DOMAIN ub : m.cells[At(ub, j)][idx[j]].seqs = {s}}})]
        left(c) == {s \in c.seqs : c.pos > taken[s]}
    IN [m EXCEPT
        !.cells = [st \in KvSeqs |-> [i \in KvCells |->
                      IF new(st, i) # {}
                      THEN LET k == Min(new(st, i)) IN [pos |-> ub[k].pos, seqs |-> {ub[k].seq}, shift |-> 0]
                      ELSE IF left(@[st][i]) = {} THEN Free ELSE [@[st][i] EXCEPT !.seqs = left(m.cells[st][i])]]],
        !.head = [st \in KvSeqs |-> IF st \in StreamsOf(ub)
                                    THEN 1 + idx[Max({k \in DOMAIN ub : At(ub, k) = st})] ELSE @[st]]]

(* prepare: the ubatches are placed one after the other, then the cells    *)
(* they were placed in get back what they held, the last one first.        *)
Try(t, ub) ==
    LET idx == FindSlot(t.m, ub)
    IN IF ~t.ok \/ idx = <<>> THEN [t EXCEPT !.ok = FALSE]
       ELSE [m |-> ApplyUbatch(t.m, ub, idx), ok |-> TRUE, found |-> Append(t.found, idx),
             undo |-> <<[ub |-> ub, idx |-> idx, old |-> t.m]>> \o t.undo]

Tried(m, ubs) == FoldLeft(Try, [m |-> m, ok |-> TRUE, found |-> <<>>, undo |-> <<>>], ubs)

Undone(m, u) ==
    LET back(st, i) == \E k \in DOMAIN u.ub : At(u.ub, k) = st /\ u.idx[k] = i
        ordinal(st) == Cardinality({x \in StreamsOf(u.ub) : x < st})
    IN [m EXCEPT !.cells = [st \in KvSeqs |-> [i \in KvCells |-> IF back(st, i) THEN u.old.cells[st][i] ELSE @[st][i]]],
                 !.head = [st \in KvSeqs |-> IF st \in StreamsOf(u.ub) THEN u.old.head[ordinal(st)] ELSE @[st]]]

Prepared(m, ubs) ==
    LET t == Tried(m, ubs)
    IN [m |-> FoldLeft(Undone, t.m, t.undo), ok |-> t.ok, found |-> t.found, ubs |-> ubs]

-----------------------------------------------------------------------------
(* split_simple: consecutive tokens.  split_equal: as many tokens of every *)
(* sequence it takes, which are all, or those with consecutive ids.        *)
SimpleSplit(b) ==
    [u \in 1 .. (Len(b) + UBatch - 1) \div UBatch |->
        SubSeq(b, (u - 1) * UBatch + 1, Min({u * UBatch, Len(b)}))]

Of(b, s) == SubseqAt(b, {k \in DOMAIN b : b[k].seq = s})
TakeSeq(who, t) ==
    IF \/ t.seq \in ToSet(who) \/ Len(who) > UBatch
       \/ (~mode.unified /\ who # <<>> /\ t.seq # Last(who) + 1)
    THEN who ELSE Append(who, t.seq)
Taken(b) == FoldLeft(TakeSeq, <<>>, b)

EqualUbatch(b) ==
    LET who == Taken(b)
        n == Min({Len(Of(b, s)) : s \in ToSet(who)} \union {Max({1, UBatch \div Len(who)})})
    IN [j \in 1 .. n * Len(who) |-> Of(b, who[1 + (j - 1) \div n])[1 + ((j - 1) % n)]]

NextUbatch(f, t) ==
    LET ub == EqualUbatch(f.left)
    IN IF f.left = <<>> THEN f
       ELSE [ubs |-> Append(f.ubs, ub),
             left |-> SubseqAt(f.left, {k \in DOMAIN f.left : f.left[k] \notin ToSet(ub)})]
EqualSplit(b) == FoldLeft(NextUbatch, [ubs |-> <<>>, left |-> b], b).ubs

(* init_batch: a cache with a window (half of an iswa cache) is tried with *)
(* a simple split, then with an equal one; the others have one split.      *)
Splits(b) == IF mode.window > 0 /\ mode.unified THEN <<SimpleSplit(b), EqualSplit(b)>>
             ELSE IF mode.unified THEN <<SimpleSplit(b)>> ELSE <<EqualSplit(b)>>

InitBatch(m, b) ==
    LET first == Prepared(m, Splits(b)[1])
    IN IF first.ok \/ Len(Splits(b)) = 1 THEN first ELSE Prepared(first.m, Splits(b)[2])

(* process_ubatch writes the rows of its tokens and lets each attend to    *)
(* what the mask shows it; it should be the slot's own text.               *)
Computed(m, ub, idx) ==
    LET n == ApplyUbatch(m, ub, idx)
        mine(st, i) == {k \in DOMAIN ub : At(ub, k) = st /\ idx[k] = i}
    IN [n EXCEPT !.rows = [st \in KvSeqs |-> [i \in KvCells |->
           IF mine(st, i) = {} THEN @[st][i]
           ELSE LET k == Min(mine(st, i)) IN [token |-> ub[k].token, at |-> ub[k].pos]]]]

SeesItsText(m, t, text) ==
    LET st == StreamOf(t.seq)
        seen == {i \in Holding(m, t.seq) : m.cells[st][i].pos <= t.pos /\ ~Masked(m.cells[st][i].pos, t.pos)}
        due == {q \in 0 .. t.pos : ~Masked(q, t.pos)}
    IN /\ Cardinality(seen) = Cardinality(due)
       /\ {<<m.cells[st][i].pos, m.rows[st][i]>> : i \in seen}
            = {<<q, [token |-> text[q + 1], at |-> q]>> : q \in due}

-----------------------------------------------------------------------------
(* The slots.  A slot is idle, has a task to start ("start"), waits for    *)
(* its parent ("wait"), has its whole prompt in the batch ("done"), or     *)
(* generates ("gen"); its boss is the slot of its task's parent, or none.  *)
Unrelated == -1
IdleSlot == [state |-> "idle", prompt |-> <<>>, text |-> <<>>, boss |-> Unrelated]
Busy(sl, s) == sl[s].state # "idle"
IdleOnes == {s \in KvSeqs : ~Busy(kvSlot, s)}
Lcp(s, t) == Len(LongestCommonPrefix({s, t}))
Range1(tokens, s, from) == [k \in 1 .. Len(tokens) - from |->
                               [seq |-> s, pos |-> from + k - 1, token |-> tokens[from + k]]]

KvInit ==
    /\ mode \in Modes
    /\ kv = [cells |-> [st \in KvSeqs |-> [i \in KvCells |-> Free]],
             rows |-> [st \in KvSeqs |-> [i \in KvCells |-> NoRow]],
             head |-> [st \in KvSeqs |-> 0], copies |-> <<>>]
    /\ kvSlot = [s \in KvSeqs |-> IdleSlot]
    /\ kvSaved = {} /\ kvBatch = <<>> /\ nBatch = FullBatch /\ launched = 0
    /\ blind = FALSE

(* state_write: the cells of a sequence in the order of their indices      *)
Entry(m, s, tokens) ==
    LET st == StreamOf(s)
        all == [k \in 1 .. mode.cells |-> [pos |-> m.cells[st][k - 1].pos, row |-> m.rows[st][k - 1]]]
    IN [tokens |-> tokens, cells |-> SubseqAt(all, {k \in DOMAIN all : k - 1 \in Holding(m, s)})]

(* prompt_save: what may be in the cache afterwards                        *)
SavedWith(list, m, s, tokens) ==
    IF tokens = <<>> \/ \E e \in list : IsPrefix(tokens, e.tokens) THEN {list}
    ELSE LET others == {e \in list : ~IsPrefix(e.tokens, tokens)}
             new == Entry(m, s, tokens)
         IN IF Cardinality(others) < MaxEntries THEN {others \union {new}}
            ELSE {(others \ {e}) \union {new} : e \in others}

(* state_read: the sequence is removed, its cells are found like those of  *)
(* a batch, and the rows are written at once; without room nothing is left.*)
LoadedEntry(m, s, e) ==
    LET m0 == SeqRmRange(m, s, 0, All)
        ub == [k \in DOMAIN e.cells |-> [seq |-> s, pos |-> e.cells[k].pos, token |-> e.cells[k].row.token]]
        idx == FindSlot(m0, ub)
        st == StreamOf(s)
        mine(i) == {k \in DOMAIN ub : idx[k] = i}
    IN IF ub # <<>> /\ idx = <<>> THEN [ok |-> FALSE, m |-> m0]
       ELSE [ok |-> TRUE,
             m |-> [ApplyUbatch(m0, ub, idx) EXCEPT !.rows[st] =
                       [i \in KvCells |-> IF mine(i) = {} THEN @[i] ELSE e.cells[Min(mine(i))].row]]]

(* get_available_slot and the launch of a task, with a child or without.   *)
(* Which slot, whether its prompt is saved and which entry is better than  *)
(* it is left open (see PromptCache).  In a unified memory with a cache in *)
(* RAM the other idle slots are saved and cleared.                         *)
Refreshed(s, text) ==
    {<<[m |-> kv, prompt |-> kvSlot[s].prompt], kvSaved>>}
    \union (IF ~mode.ram THEN {}
            ELSE UNION {{<<[m |-> kv, prompt |-> kvSlot[s].prompt], list>>}
                        \union {LET l == LoadedEntry(kv, s, e)
                                IN IF l.ok THEN <<[m |-> l.m, prompt |-> e.tokens], list \ {e}>>
                                   ELSE <<[m |-> SeqRmRange(l.m, s, 0, All), prompt |-> <<>>], list>> :
                                e \in {x \in list : Lcp(x.tokens, text) > Lcp(kvSlot[s].prompt, text)}} :
                        list \in SavedWith(kvSaved, kv, s, kvSlot[s].prompt)})

Launch(s, children, text) ==
    /\ kvBatch = <<>> /\ launched < MaxLaunches
    /\ s \in IdleOnes /\ children \subseteq IdleOnes \ {s}
    /\ children # {} => mode.several
    /\ \E r \in {x \in Refreshed(s, text) : mode.repeats \/ x[1].prompt # text} :
          LET rest == IF mode.ram /\ mode.unified THEN IdleOnes \ (children \union {s}) ELSE {}
          IN /\ kv' = ClearedSeqs(r[1].m, rest)
             /\ kvSlot' = [t \in KvSeqs |->
                   IF t = s THEN [state |-> "start", prompt |-> r[1].prompt, text |-> text,
                                  boss |-> IF children = {} THEN Unrelated ELSE s]
                   ELSE IF t \in children THEN [kvSlot[t] EXCEPT !.state = "wait", !.text = text, !.boss = s]
                   ELSE IF t \in rest THEN IdleSlot ELSE kvSlot[t]]
             /\ kvSaved' \in FoldLeft(LAMBDA lists, t : IF t \notin rest THEN lists
                                       ELSE UNION {SavedWith(l, r[1].m, t, kvSlot[t].prompt) : l \in lists},
                                      {r[2]}, InOrder)
    /\ launched' = launched + 1
    /\ UNCHANGED <<mode, kvBatch, nBatch, blind>>

-----------------------------------------------------------------------------
(* update_slots, before the decoding: [m, slot, batch], slot after slot.   *)
(* A slot that reaches the context is shifted, or released.                *)
ShiftContext(f, s) ==
    LET sl == f.slot[s]
        n == Len(sl.prompt)
        discard == (n - NKeep) \div 2
        m1 == SeqRmRange(f.m, s, NKeep, NKeep + discard)
    IN IF sl.state # "gen" \/ n + 1 < mode.context THEN f
       ELSE IF ~mode.shifts \/ sl.boss # Unrelated
       THEN [f EXCEPT !.slot[s] = IF sl.boss \in {Unrelated, s} THEN [IdleSlot EXCEPT !.prompt = sl.prompt] ELSE IdleSlot,
                      !.m = IF sl.boss \in {Unrelated, s} THEN f.m ELSE SeqRmRange(f.m, s, 0, All)]
       ELSE [f EXCEPT !.slot[s].prompt = SubSeq(@, 1, NKeep) \o SubSeq(@, NKeep + discard + 1, n),
                      !.m = SeqAdd(m1, s, NKeep + discard, -discard)]

(* A generating slot decodes the token it sampled last, its own number     *)
SampledToken(f, s) ==
    IF f.slot[s].state # "gen" THEN f
    ELSE [f EXCEPT !.slot[s].prompt = Append(@, s),
                   !.batch = Append(@, [seq |-> s, pos |-> Len(f.slot[s].prompt), token |-> s])]

(* A prompt starts at n_past: what it has in common with the slot's tokens,*)
(* if the window before it is in the memory, and a token less if it is all *)
MutNPast(m, s, prompt, text) ==
    LET common == Lcp(prompt, text) IN IF common = Len(text) THEN common - 1 ELSE common

NPast(m, s, prompt, text) ==
    LET common == Lcp(prompt, text)
        thold == Max({0, common - mode.window - (IF common < Len(text) THEN 0 ELSE 1)})
        kept == IF common > 0 /\ common < Len(prompt) /\ KvPosMin(m, s) >= thold THEN 0 ELSE common
    IN IF kept = Len(text) THEN kept - 1 ELSE kept

StartPrompt(f, s) ==
    LET sl == f.slot[s]
        past == NPast(f.m, s, sl.prompt, sl.text)
    IN IF sl.state # "start" THEN f
       ELSE [f EXCEPT !.slot[s] = [sl EXCEPT !.state = "done", !.prompt = sl.text],
                      !.m = SeqRmRange(f.m, s, past, All),
                      !.batch = @ \o Range1(sl.text, s, past)]

FillBatch ==
    /\ kvBatch = <<>>
    /\ LET shifted == FoldLeft(ShiftContext, [m |-> kv, slot |-> kvSlot, batch |-> <<>>], InOrder)
           filled == FoldLeft(StartPrompt, FoldLeft(SampledToken, shifted, InOrder), InOrder)
       IN /\ filled # [m |-> kv, slot |-> kvSlot, batch |-> <<>>]
          /\ kv' = filled.m /\ kvSlot' = filled.slot /\ kvBatch' = filled.batch
    /\ UNCHANGED <<mode, kvSaved, nBatch, launched, blind>>

-----------------------------------------------------------------------------
(* The decoding of a view of the batch                                     *)
View == SubSeq(kvBatch, 1, Min({nBatch, Len(kvBatch)}))
Rest == SubSeq(kvBatch, Len(View) + 1, Len(kvBatch))

(* llama_batch_allocr::init: a sequence goes on where its memory ends      *)
Inconsistent ==
    \E s \in KvSeqs : /\ Of(View, s) # <<>> /\ KvPosMax(kv, s) >= 0
                      /\ Of(View, s)[1].pos # KvPosMax(kv, s) + 1

(* An error ends all tasks, and clears the slots they had                  *)
Failed(m) ==
    /\ kv' = ClearedSeqs(m, KvSeqs \ IdleOnes)
    /\ kvSlot' = [s \in KvSeqs |-> IF s \in IdleOnes THEN kvSlot[s] ELSE IdleSlot]
    /\ kvBatch' = <<>> /\ nBatch' = FullBatch
    /\ UNCHANGED <<mode, kvSaved, launched>>

Refused ==
    /\ kvBatch # <<>> /\ Inconsistent
    /\ Failed(kv)
    /\ UNCHANGED blind

(* No room: an idle slot is cleared, or the view halved, or all fails      *)
NoRoom(t) ==
    LET purged == {s \in IdleOnes : kvSlot[s].prompt # <<>>}
    IN /\ ~t.ok
       /\ IF nBatch = 1 THEN Failed(t.m)
          ELSE IF mode.unified /\ purged # {}
          THEN /\ kv' = SeqRmRange(t.m, Min(purged), 0, All)
               /\ kvSlot' = [kvSlot EXCEPT ![Min(purged)] = IdleSlot]
               /\ UNCHANGED <<mode, kvSaved, launched, kvBatch, nBatch>>
          ELSE /\ kv' = t.m /\ nBatch' = nBatch \div 2
               /\ UNCHANGED <<mode, kvSaved, launched, kvBatch, kvSlot>>
       /\ UNCHANGED blind

(* The ubatches of a view up to the n-th: the memory, and whether a token  *)
(* attended to anything but its text                                       *)
Decoded(t, n) ==
    FoldLeft(LAMBDA d, u : LET m == Computed(d.m, t.ubs[u], t.found[u])
                           IN [m |-> m, blind |-> \/ d.blind
                                                  \/ \E k \in DOMAIN t.ubs[u] :
                                                        LET tok == t.ubs[u][k]
                                                        IN ~SeesItsText(m, tok, kvSlot[tok.seq].prompt)],
             [m |-> t.m, blind |-> blind], [u \in 1 .. n |-> u])

(* copy_state_to: a parent whose prompt is in the batch activates children *)
CopyState(f, t) ==
    [m |-> SeqCp(SeqRmRange(f.m, t, 0, All), f.slot[t].boss, t),
     slot |-> [f.slot EXCEPT ![t].state = "done", ![t].prompt = f.slot[f.slot[t].boss].prompt]]

ActivatedChildren(m, slot) ==
    LET waits(t) == slot[t].state = "wait" /\ slot[slot[t].boss].state = "done"
    IN FoldLeft(CopyState, [m |-> m, slot |-> slot], SubseqAt(InOrder, {k \in DOMAIN InOrder : waits(InOrder[k])}))

(* A slot whose last token was in the view has sampled; it may be released,*)
(* and a child that is released is cleared.                                *)
Release(f, ended) ==
    LET children == {s \in ended : f.slot[s].boss \notin {Unrelated, s}}
    IN [m |-> ClearedSeqs(f.m, children),
        slot |-> [s \in KvSeqs |-> IF s \in children THEN IdleSlot
                                   ELSE IF s \in ended THEN [IdleSlot EXCEPT !.prompt = f.slot[s].prompt]
                                   ELSE f.slot[s]]]

DecodeView(t) ==
    LET d == Decoded(t, Len(t.ubs))
        f == ActivatedChildren(d.m, kvSlot)
        last == {s \in KvSeqs : Of(View, s) # <<>> /\ Of(Rest, s) = <<>>}
        ibatch(s) == IF f.slot[s].state = "done" /\ f.slot[s].boss # Unrelated THEN f.slot[s].boss ELSE s
        sampled == {s \in KvSeqs : f.slot[s].state \in {"done", "gen"} /\ ibatch(s) \in last}
    IN /\ t.ok
       /\ \E ended \in SUBSET sampled :
             LET g == Release(f, ended)
             IN /\ kv' = g.m
                /\ kvSlot' = [s \in KvSeqs |-> IF s \in sampled \ ended THEN [g.slot[s] EXCEPT !.state = "gen"]
                                               ELSE g.slot[s]]
       /\ kvBatch' = Rest /\ nBatch' = FullBatch
       /\ blind' = d.blind
       /\ UNCHANGED <<mode, kvSaved, launched>>

(* A ubatch that cannot be computed takes its positions with it            *)
DecodeFails(t) ==
    /\ t.ok
    /\ \E n \in DOMAIN t.ubs :
          Failed(SeqRmFrom(Decoded(t, n).m,
                           [s \in KvSeqs |-> IF Of(t.ubs[n], s) = <<>> THEN All ELSE Of(t.ubs[n], s)[1].pos]))
    /\ UNCHANGED blind

DecodeBatch ==
    /\ kvBatch # <<>> /\ ~Inconsistent
    /\ LET t == InitBatch(Updated(kv), View) IN NoRoom(t) \/ DecodeView(t) \/ DecodeFails(t)

KvNext ==
    \/ \E s \in KvSeqs, children \in SUBSET KvSeqs, text \in Texts : Launch(s, children, text)
    \/ FillBatch \/ Refused \/ DecodeBatch

KvSpec == KvInit /\ [][KvNext]_kvVars

-----------------------------------------------------------------------------
(* Whatever was tried, taken, shared, shifted, copied and restored before, *)
(* a token attends to the rows of its own slot's text and to all of them   *)
(* that its window holds, each computed for its position.                  *)
AttendsToItsText == ~blind

(* Between two batches the memory of a slot ends where its prompt does and *)
(* has no hole ("we want to preserve the invariant that all positions      *)
(* between [pos_min, pos_max] for each sequence will be present in the     *)
(* cache"), so that the next batch is not refused.                         *)
EndsWithPrompt ==
    kvBatch = <<>> => \A s \in KvSeqs : kvSlot[s].prompt # <<>> => KvPosMax(kv, s) = Len(kvSlot[s].prompt) - 1

NoHoles == \A s \in KvSeqs : PosOf(kv, s) # {} =>
              /\ PosOf(kv, s) = KvPosMin(kv, s) .. KvPosMax(kv, s)
              /\ Cardinality(Holding(kv, s)) = Cardinality(PosOf(kv, s))

(* What the cache in RAM holds of a prompt is what was computed for it,    *)
(* shifted keys included.                                                  *)
EntriesTrue == \A e \in kvSaved : \A k \in DOMAIN e.cells :
                  e.cells[k].row = [token |-> e.tokens[e.cells[k].pos + 1], at |-> e.cells[k].pos]

(* The cells of a slot account for its prompt, those saved of it too,      *)
(* through trials, purges, shifts, copies and failures.                    *)
MemoryWhole == EndsWithPrompt /\ NoHoles /\ EntriesTrue
=============================================================================
