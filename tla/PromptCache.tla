----------------------------- MODULE PromptCache -----------------------------
(***************************************************************************)
(* The prompt cache in memory and the slots that fill and empty it         *)
(* (server_prompt_cache in tools/server/server-task.cpp; get_available_slot*)
(* and the start of a prompt in server-context.cpp), of a server without a *)
(* cache on disk.  Everything runs on the main loop: an action is the      *)
(* choice of a slot for a task, or the work of a slot on its task.         *)
(*                                                                         *)
(* A memory is the set of its rows, <<position, token>>; the rows of a     *)
(* draft context also say which drafter wrote them.  An entry's size is    *)
(* the number of its rows.                                                 *)
(***************************************************************************)
EXTENDS Integers, Subsequences, SequencesExt, FiniteSetsExt

CONSTANTS
    CacheSlots,
    Prompts,      \* bound: the prompts of the tasks
    Answer,       \* the token an answer consists of
    Drafters,     \* the loaded drafters, if two (one of them has a state)
    Default,      \* the drafter of a server that has one without a state, or none
    Observing,    \* the drafters that see the batches of all tasks (MTP)
    CacheIdle,    \* cache_idle_slots
    Unified,      \* kv_unified
    LimitRows,    \* limit_size
    Similarity,   \* slot_prompt_similarity, in percent
    Failing,      \* what may fail: a subset of {"alloc", "main", "draft", "spec"}
    MaxTasks      \* bound: how many tasks arrive

ASSUME CacheSlotsAssumption == CacheSlots \subseteq Nat
ASSUME DraftersAssumption == Default \in Drafters
ASSUME PromptsAssumption == \A p \in Prompts : p \in Seq(Range(p))

VARIABLES
    stateful,     \* spec_state_required, and every saved entry has a state
    states,       \* the saved prompts, the oldest first
    limit,        \* limit_size, which a failing allocation lowers
    slot,
    toSave,       \* the slots that the loop over idle slots has still to look at
    arrived       \* how many tasks have arrived

cacheVars == <<stateful, states, limit, slot, toSave, arrived>>

Routes == IF stateful THEN Drafters ELSE {Default}

Prefix(s, t) == Len(LongestCommonPrefix({s, t}))
Rows(tokens) == {<<i, tokens[i]>> : i \in DOMAIN tokens}
UpTo(rows, n) == {r \in rows : r[1] <= n}
By(d, rows) == {<<r[1], r[2], d>> : r \in rows}

(* An idle slot, whose prompt and memories stay until its next task        *)
NoSlot == [tokens |-> <<>>, main |-> {}, draft |-> [d \in Drafters |-> {}],
           drafter |-> Default, task |-> <<>>]

CacheInit ==
    /\ stateful \in BOOLEAN
    /\ states = <<>> /\ limit = LimitRows
    /\ slot = [s \in CacheSlots |-> NoSlot]
    /\ toSave = {} /\ arrived = 0

(* prompt_clear: the target, both draft contexts and the tokens            *)
MutCleared(sl) == [sl EXCEPT !.main = {}, !.draft = [d \in Drafters |-> {}]]
Cleared(sl) == [sl EXCEPT !.main = {}, !.draft = [d \in Drafters |-> {}], !.tokens = <<>>]

EntrySize(e) == Cardinality(e.main) + Cardinality(e.draft)
TotalSize(list) == FoldLeft(LAMBDA sum, e : sum + EntrySize(e), 0, list)

(* Eviction of the oldest, until an entry of n rows fits                   *)
MakeRoom(list, n, max) ==
    LET fits == {k \in 0 .. Len(list) : TotalSize(SubSeq(list, k + 1, Len(list))) + n <= max}
    IN IF fits = {} THEN <<>> ELSE SubSeq(list, Min(fits) + 1, Len(list))

(* alloc: the entry is not needed if the same drafter's entry holds it, and*)
(* replaces those whose prompt it extends; stateful ones hold and extend   *)
(* nothing but themselves.                                                 *)
Holds(e, sl) == /\ e.drafter = sl.drafter
                /\ IF stateful THEN e.tokens = sl.tokens ELSE IsPrefix(sl.tokens, e.tokens)
Obsolete(e, sl) == ~stateful /\ e.drafter = sl.drafter /\ IsPrefix(e.tokens, sl.tokens)

(* prompt_save and save_ram: what may become of the cache and its limit,  *)
(* and whether the prompt was saved                                        *)
Saved(sl) ==
    LET new == [tokens |-> sl.tokens, main |-> sl.main, draft |-> sl.draft[sl.drafter],
                drafter |-> sl.drafter]
        room == MakeRoom(SubseqAt(states, {i \in DOMAIN states : ~Obsolete(states[i], sl)}), EntrySize(new), limit)
        less == Max({1, (4 * TotalSize(room)) \div 10})
    IN IF \/ sl.tokens = <<>> \/ EntrySize(new) > limit
          \/ \E i \in DOMAIN states : Holds(states[i], sl)
       THEN {<<states, limit, FALSE>>}
       ELSE {<<Append(room, new), limit, TRUE>>}
            \union (IF "alloc" \in Failing THEN {<<MakeRoom(room, 0, less), less, FALSE>>} ELSE {})

(* A boundary at which the state of the drafter can be used: an exact one, *)
(* or any if the memories can take the tail back, which is left out.       *)
BoundaryValid(tokens, wanted) == ~stateful \/ IsPrefix(tokens, wanted)

Base(sl, wanted) ==
    LET lcp == Prefix(sl.tokens, wanted)
        valid == BoundaryValid(sl.tokens, wanted)
    IN [entry |-> 0, lcp |-> IF valid THEN lcp ELSE -1,
        keep |-> IF valid /\ sl.tokens # <<>> THEN lcp ELSE -1, len |-> Max({1, Len(sl.tokens)}),
        boundary |-> IF valid THEN Len(sl.tokens) ELSE 0]

(* server_prompt_cache_candidate_better: f_keep of at least a quarter; with*)
(* a state the longest boundary, else more kept and more of the new prompt *)
Better(e, wanted, best) ==
    LET lcp == Prefix(e.tokens, wanted)
        len == Len(e.tokens)
    IN /\ 4 * lcp >= len
       /\ IF stateful THEN len > best.boundary
          ELSE best.keep * len < lcp * best.len /\ best.lcp < lcp

Best(list, sl, wanted) ==
    FoldLeft(LAMBDA best, i :
                 IF BoundaryValid(list[i].tokens, wanted) /\ Better(list[i], wanted, best)
                 THEN [entry |-> i, lcp |-> Prefix(list[i].tokens, wanted),
                       keep |-> Prefix(list[i].tokens, wanted), len |-> Len(list[i].tokens),
                       boundary |-> Len(list[i].tokens)]
                 ELSE best,
             Base(sl, wanted), [i \in DOMAIN list |-> i])

(* What the slot holds once the rows of an entry were restored: the target,*)
(* and the draft context if the same drafter saved it.  An entry whose rows*)
(* are gone restores nothing, and "succeeds".                              *)
Restored(sl, e) ==
    [sl EXCEPT !.tokens = e.tokens, !.main = IF e.main = {} THEN @ ELSE e.main,
               !.draft[sl.drafter] = IF e.drafter = sl.drafter /\ e.draft # {} THEN e.draft ELSE @]

(* load, prompt_load and the cold fallback: the outcomes <<slot, cache>>  *)
Loaded(list, sl, wanted) ==
    LET best == Best(list, sl, wanted)
        i == best.entry
        cold == Cleared(sl)
    IN IF i = 0
       THEN {<<IF BoundaryValid(sl.tokens, wanted) THEN sl ELSE cold, list>>}
       ELSE {<<Restored(sl, list[i]), RemoveAt(list, i)>>}
            \union {<<cold, list>> : x \in Failing \intersect {"main"}}
            \union {<<cold, RemoveAt(list, i)>> : x \in {y \in Failing : y = "spec" /\ stateful /\ list[i].drafter = sl.drafter}}
            \union {<<cold, [list EXCEPT ![i].main = {}]>> :
                       x \in {y \in Failing : y = "draft" /\ list[i].drafter = sl.drafter /\ list[i].draft # {}}}

(* get_available_slot: the most similar idle slot, whose prompt is saved if*)
(* the task keeps less than half of it; else the least recently used one   *)
(* (any), whose prompt is always saved.                                    *)
IdleSlots == {s \in CacheSlots : slot[s].task = <<>>}
Likeness(s, p) == Prefix(slot[s].tokens, p)
Similar(p) == {s \in IdleSlots : 100 * Likeness(s, p) > Similarity * Len(p)
                                 /\ \A t \in IdleSlots : Likeness(t, p) <= Likeness(s, p)}

Choose(s, p, d) ==
    LET old == slot[s]
        update == Similar(p) = {} \/ 2 * Likeness(s, p) < Len(old.tokens)
        routed == [old EXCEPT !.drafter = d]
    IN /\ arrived < MaxTasks /\ toSave = {} /\ s \in IdleSlots
       /\ Similar(p) # {} => s \in Similar(p)
       /\ arrived' = arrived + 1
       /\ toSave' = IF CacheIdle THEN IdleSlots \ {s} ELSE {}
       /\ IF update
          THEN \E saved \in Saved(old) : \E loaded \in Loaded(saved[1], routed, p) :
                  /\ slot' = [slot EXCEPT ![s] = [loaded[1] EXCEPT !.task = p]]
                  /\ states' = MakeRoom(loaded[2], 0, saved[2])
                  /\ limit' = saved[2]
          ELSE /\ slot' = [slot EXCEPT ![s] = [routed EXCEPT !.task = p]]
               /\ UNCHANGED <<states, limit>>
       /\ UNCHANGED stateful

(* The same handler then saves the prompts of the other idle slots, one    *)
(* after the other; in a unified memory it clears what it has saved.       *)
SaveIdle ==
    /\ toSave # {}
    /\ LET s == Min(toSave) IN
       /\ toSave' = toSave \ {s}
       /\ \E saved \in Saved(slot[s]) :
             /\ states' = MakeRoom(saved[1], 0, saved[2])
             /\ limit' = saved[2]
             /\ slot' = IF saved[3] /\ Unified THEN [slot EXCEPT ![s] = Cleared(@)] ELSE slot
    /\ UNCHANGED <<stateful, arrived>>

(* try_clear_idle_slots, when the memory has no room for a batch           *)
Purge(s) ==
    /\ Unified /\ toSave = {}
    /\ s \in IdleSlots /\ slot[s].tokens # <<>>
    /\ slot' = [slot EXCEPT ![s] = Cleared(@)]
    /\ UNCHANGED <<stateful, states, limit, toSave, arrived>>

(* The prompt starts at n_past, of which the whole common prefix is the    *)
(* most: all contexts forget what comes after it; the rest of the prompt   *)
(* and the answer go into the target and into the drafter's context.       *)
Keeps(sl) == 0 .. Min({Prefix(sl.tokens, sl.task), Len(sl.task) - 1})

Continued(sl, n, tokens) ==
    [sl EXCEPT !.tokens = tokens, !.task = <<>>,
               !.main = UpTo(@, n) \union (Rows(tokens) \ UpTo(Rows(tokens), n)),
               !.draft = [d \in Drafters |-> UpTo(@[d], n)
                             \union (IF d \in {sl.drafter} \union Observing THEN By(d, Rows(tokens) \ UpTo(Rows(tokens), n)) ELSE {})]]

Serve(s) ==
    /\ slot[s].task # <<>> /\ toSave = {}
    /\ \E n \in Keeps(slot[s]), answer \in {<<>>, <<Answer>>} :
          slot' = [slot EXCEPT ![s] = Continued(slot[s], n, slot[s].task \o answer)]
    /\ UNCHANGED <<stateful, states, limit, toSave, arrived>>

(* A decode that fails: the slot is cleared and released.                  *)
Abandon(s) ==
    /\ slot[s].task # <<>> /\ toSave = {}
    /\ slot' = [slot EXCEPT ![s] = [Cleared(@) EXCEPT !.task = <<>>]]
    /\ UNCHANGED <<stateful, states, limit, toSave, arrived>>

CacheNext ==
    \/ SaveIdle
    \/ \E s \in CacheSlots : Serve(s) \/ Abandon(s) \/ Purge(s)
                             \/ \E p \in Prompts, d \in Routes : Choose(s, p, d)

CacheSpec == CacheInit /\ [][CacheNext]_cacheVars

(***************************************************************************)
(* Properties.                                                             *)
(***************************************************************************)
(* What a slot takes for its prompt is what the memory of the model holds  *)
(* of its sequence, and what an entry calls its prompt is what it can      *)
(* restore; the rows of one drafter never get into the context of another. *)
MemoryHoldsPrompt ==
    /\ \A s \in CacheSlots :
          /\ slot[s].main = Rows(slot[s].tokens)
          /\ \A d \in Drafters : \A r \in slot[s].draft[d] : r[3] = d
    /\ \A i \in DOMAIN states :
          /\ states[i].main = Rows(states[i].tokens)
          /\ \A r \in states[i].draft : r[3] = states[i].drafter

(* "The active drafter's own context keeps whatever valid prefix it has":  *)
(* a draft context holds rows of the slot's prompt and no others.          *)
DraftsFollowPrompt ==
    \A s \in IdleSlots, d \in Drafters : slot[s].draft[d] \subseteq By(d, Rows(slot[s].tokens))
=============================================================================
