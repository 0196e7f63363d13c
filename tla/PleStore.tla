------------------------------ MODULE PleStore ------------------------------
(***************************************************************************)
(* The disk-resident embedding table (src/llama-ple-store.cpp): rows are   *)
(* served from a cache of whole blocks, split into shards that each have a *)
(* mutex, an LRU list, a map and a byte budget.  A fetch is serialised by  *)
(* fetch_mutex and makes three passes over the distinct blocks of its      *)
(* rows; every action is one critical section of a shard, or a read.       *)
(***************************************************************************)
EXTENDS Integers, Sequences, SequencesExt, FiniteSetsExt

CONSTANTS
    RowsPerBlock, NumRows,  \* the table
    Shards,                 \* k_ple_shards
    ShardBudget,            \* shard_budget, in rows
    Callers,                \* the threads that fetch
    Wanted,                 \* bound: the rows a fetch may ask for
    MaxFetches,             \* bound: how many fetches begin
    NoCaller

ASSUME TableAssumption == RowsPerBlock \in Nat \ {0} /\ NumRows \in Nat \ {0}
\* ple_store_open: a multiple of a block's size, at least one block
ASSUME ShardAssumption == Shards \in Nat \ {0} /\ ShardBudget \in Nat
                          /\ ShardBudget >= RowsPerBlock
                          /\ ShardBudget % RowsPerBlock = 0
ASSUME FetchAssumption == NoCaller \notin Callers /\ \A rows \in Wanted : rows \in Seq(Int)

VARIABLES
    lru,       \* per shard: its blocks, the most recently used first
    blockMap,  \* per shard: block -> the rows of its data
    used,      \* per shard: bytes_used, in rows
    flight,    \* who holds fetch_mutex
    fetch,     \* what each caller is doing
    fetches    \* how many fetches have begun

pleVars == <<lru, blockMap, used, flight, fetch, fetches>>

Shard == 0 .. Shards - 1
Block == 0 .. (NumRows - 1) \div RowsPerBlock
ShardFor(b) == b % Shards
BlockOf(row) == row \div RowsPerBlock
InBlock(row) == row % RowsPerBlock

(* read_block: the last block may be partial.                              *)
DataOf(b) == [i \in 1 .. (IF (b + 1) * RowsPerBlock <= NumRows THEN RowsPerBlock ELSE NumRows - b * RowsPerBlock)
                |-> b * RowsPerBlock + i - 1]

(* The distinct blocks of the rows, in the order of their first occurrence *)
Distinct(rows) ==
    FoldLeft(LAMBDA acc, row : IF Contains(acc, BlockOf(row)) THEN acc ELSE Append(acc, BlockOf(row)),
             <<>>, rows)

NoFetch == [at |-> "idle", rows |-> <<>>, blocks |-> <<>>, missing |-> <<>>, dst |-> <<>>]

PleInit ==
    /\ lru = [s \in Shard |-> <<>>]
    /\ blockMap = [s \in Shard |-> <<>>]
    /\ used = [s \in Shard |-> 0]
    /\ flight = NoCaller
    /\ fetch = [p \in Callers |-> NoFetch]
    /\ fetches = 0

(* A hit moves the block to the front of its shard's list.                 *)
Bumped(s, b) == [lru EXCEPT ![s] = <<b>> \o RemoveFirst(@, b)]
IsCached(b) == b \in DOMAIN blockMap[ShardFor(b)]
Cache == <<lru, blockMap, used>>

(* Rows out of range are refused before the lock is taken.                 *)
BeginFetch(p, rows) ==
    /\ fetch[p].at \in {"idle", "done"}
    /\ fetches < MaxFetches
    /\ rows # <<>> /\ \A i \in DOMAIN rows : rows[i] \in 0 .. NumRows - 1
    /\ fetches' = fetches + 1
    /\ fetch' = [fetch EXCEPT ![p] = [NoFetch EXCEPT !.at = "lock", !.rows = rows,
                                             !.dst = [i \in DOMAIN rows |-> -1]]]
    /\ UNCHANGED <<Cache, flight>>

MutLockFetch(p) ==
    /\ fetch[p].at = "lock"
    /\ flight' = p
    /\ fetch' = [fetch EXCEPT ![p].at = "classify", ![p].blocks = Distinct(fetch[p].rows)]
    /\ UNCHANGED <<Cache, fetches>>

LockFetch(p) ==
    /\ fetch[p].at = "lock"
    /\ flight = NoCaller
    /\ flight' = p
    /\ fetch' = [fetch EXCEPT ![p].at = "classify", ![p].blocks = Distinct(fetch[p].rows)]
    /\ UNCHANGED <<Cache, fetches>>

(* Pass 1: bump the blocks that are cached, collect the others.            *)
Classify(p) ==
    LET b == Head(fetch[p].blocks) IN
    /\ fetch[p].at = "classify" /\ fetch[p].blocks # <<>>
    /\ lru' = IF IsCached(b) THEN Bumped(ShardFor(b), b) ELSE lru
    /\ fetch' = [fetch EXCEPT ![p].blocks = Tail(@),
                              ![p].missing = IF IsCached(b) THEN @ ELSE Append(@, b)]
    /\ UNCHANGED <<blockMap, used, flight, fetches>>

InFileOrder(S) ==
    CHOOSE seq \in [1 .. Cardinality(S) -> S] :
        \A i, j \in 1 .. Cardinality(S) : i < j => seq[i] < seq[j]

Classified(p) ==
    /\ fetch[p].at = "classify" /\ fetch[p].blocks = <<>>
    /\ fetch' = [fetch EXCEPT ![p].at = "prefetch",
                              ![p].missing = InFileOrder(ToSet(@)),
                              ![p].blocks = Distinct(fetch[p].rows)]
    /\ UNCHANGED <<Cache, flight, fetches>>

(* Pass 2 caches the missing blocks in the order of the file, pass 3 each  *)
(* block again before its rows are gathered: ensure_cached finds it ...    *)
Needed(p) == IF fetch[p].missing # <<>> THEN Head(fetch[p].missing) ELSE Head(fetch[p].blocks)
Ensured(p) == IF fetch[p].missing # <<>>
              THEN [fetch[p] EXCEPT !.at = "prefetch", !.missing = Tail(@)]
              ELSE [fetch[p] EXCEPT !.at = "gather"]

FindCached(p) ==
    /\ fetch[p].at = "prefetch" /\ fetch[p].missing \o fetch[p].blocks # <<>>
    /\ LET b == Needed(p) IN
       IF IsCached(b)
       THEN /\ lru' = Bumped(ShardFor(b), b)
            /\ fetch' = [fetch EXCEPT ![p] = Ensured(p)]
       ELSE /\ fetch' = [fetch EXCEPT ![p].at = "read"]
            /\ UNCHANGED lru
    /\ UNCHANGED <<blockMap, used, flight, fetches>>

(* ... or reads it without the shard's lock, evicts from the back of the   *)
(* list until it fits, and inserts it, unless it is there by now.          *)
Freed(s, kept) ==
    FoldLeft(LAMBDA sum, x : sum + Len(blockMap[s][x]), 0, SubSeq(lru[s], kept + 1, Len(lru[s])))

Kept(s, b) ==
    LET fits == {k \in 0 .. Len(lru[s]) : used[s] - Freed(s, k) + Len(DataOf(b)) <= ShardBudget}
    IN IF fits = {} THEN 0 ELSE Max(fits)

Insert(p) ==
    LET b == Needed(p)
        s == ShardFor(b)
        kept == SubSeq(lru[s], 1, Kept(s, b))
    IN /\ fetch[p].at = "read"
       /\ fetch' = [fetch EXCEPT ![p] = Ensured(p)]
       /\ IF IsCached(b)
          THEN UNCHANGED Cache
          ELSE /\ lru' = [lru EXCEPT ![s] = <<b>> \o kept]
               /\ blockMap' = [blockMap EXCEPT ![s] = [x \in ToSet(kept) \union {b} |->
                                                       IF x = b THEN DataOf(b) ELSE @[x]]]
               /\ used' = [used EXCEPT ![s] = @ - Freed(s, Kept(s, b)) + Len(DataOf(b))]
       /\ UNCHANGED <<flight, fetches>>

(* The second error of a read, or the end of a truncated file              *)
ReadFails(p) ==
    /\ fetch[p].at = "read"
    /\ fetch' = [fetch EXCEPT ![p] = NoFetch]
    /\ flight' = NoCaller
    /\ UNCHANGED <<Cache, fetches>>

(* Pass 3: the rows of the block are dequantised under the shard's lock.   *)
Gather(p) ==
    LET b == Head(fetch[p].blocks)
        data == blockMap[ShardFor(b)][b]
    IN /\ fetch[p].at = "gather" /\ IsCached(b)
       /\ fetch' = [fetch EXCEPT ![p].at = "prefetch", ![p].blocks = Tail(@),
                                 ![p].dst = [i \in DOMAIN @ |->
                                     IF BlockOf(fetch[p].rows[i]) = b
                                     THEN data[InBlock(fetch[p].rows[i]) + 1] ELSE @[i]]]
       /\ UNCHANGED <<Cache, flight, fetches>>

(* "missing after ensure_cached": an error no fetch meets (RowsServed), so *)
(* that there is no action for it.                                         *)
Vanished(p) == fetch[p].at = "gather" /\ ~IsCached(Head(fetch[p].blocks))

Served(p) ==
    /\ fetch[p].at = "prefetch" /\ fetch[p].missing \o fetch[p].blocks = <<>>
    /\ fetch' = [fetch EXCEPT ![p].at = "done"]
    /\ flight' = NoCaller
    /\ UNCHANGED <<Cache, fetches>>

PleNext ==
    \E p \in Callers :
        \/ \E rows \in Wanted : BeginFetch(p, rows)
        \/ LockFetch(p) \/ Classify(p) \/ Classified(p) \/ FindCached(p)
        \/ Insert(p) \/ ReadFails(p) \/ Gather(p) \/ Served(p)

PleSpec == PleInit /\ [][PleNext]_pleVars

(***************************************************************************)
(* Properties.                                                             *)
(***************************************************************************)
(* In every shard the list and the map name the same blocks, each once,    *)
(* bytes_used is what the map holds, and it is within the budget: the sum  *)
(* that an eviction subtracts from never goes below zero or drifts.        *)
ShardCoherent ==
    \A s \in Shard :
        /\ IsInjective(lru[s]) /\ ToSet(lru[s]) = DOMAIN blockMap[s]
        /\ used[s] = Freed(s, 0) /\ used[s] <= ShardBudget

(* A fetch that succeeds returns the rows it was asked for, in their order *)
(* and with repetitions, though its blocks may evict one another, other    *)
(* fetches may run before and after it, and blocks are gathered by group;  *)
(* and it never fails because nobody may evict a block between the locked  *)
(* section that caches it and the one that gathers its rows.               *)
RowsServed ==
    \A p \in Callers : /\ fetch[p].at = "done" => fetch[p].dst = fetch[p].rows
                       /\ ~Vanished(p)

(* What is evicted and what is served agree, for every interleaving of     *)
(* fetches and read errors.                                                *)
StoreCoherent == ShardCoherent /\ RowsServed
=============================================================================
