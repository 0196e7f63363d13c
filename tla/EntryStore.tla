----------------------------- MODULE EntryStore -----------------------------
(***************************************************************************)
(* What a persistent prompt-cache library promises of its entry            *)
(* directories, whatever crashes: an entry is there entire or not at all,  *)
(* it appears and disappears in one step and alone, what it holds never    *)
(* changes, and only its usage bookkeeping moves, and only forward.        *)
(***************************************************************************)
EXTENDS Naturals

CONSTANTS Ids,      \* entry ids
          Contents, \* what an entry holds
          Absent    \* no entry

VARIABLE store      \* the entries a boot would see

Record == [content : Contents, hits : Nat, lastUsed : Nat]

Init == store = [id \in Ids |-> Absent]

Commit(id, r) ==
    /\ store[id] = Absent
    /\ store' = [store EXCEPT ![id] = r]

Use(id, r) ==
    /\ store[id] # Absent
    /\ r.content = store[id].content
    /\ r.hits > store[id].hits /\ r.lastUsed >= store[id].lastUsed
    /\ store' = [store EXCEPT ![id] = r]

Drop(id) ==
    /\ store[id] # Absent
    /\ store' = [store EXCEPT ![id] = Absent]

\* The record of a step is the one the step leaves, so that a checker need
\* not enumerate Record.
Next == \E id \in Ids :
    \/ \E r \in {store'[id]} \ {Absent} : Commit(id, r) \/ Use(id, r)
    \/ Drop(id)

Spec == Init /\ [][Next]_store
=============================================================================
