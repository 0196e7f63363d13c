--------------------------- MODULE SequenceStates ---------------------------
(***************************************************************************)
(* What the recurrent memory promises (llama-memory.h): every sequence has *)
(* a state of its own, the tokens it has absorbed, and an operation on     *)
(* some sequences changes no other.  A removal that the memory accepts     *)
(* leaves the state as it was before the removed tokens.                   *)
(***************************************************************************)
EXTENDS Naturals, Sequences

CONSTANT Seqs

VARIABLES
    state,  \* per sequence: the tokens its state has absorbed
    saved   \* the state that was written out last

sequenceVars == <<state, saved>>

SequencesInit == state = [s \in Seqs |-> <<>>] /\ saved = <<>>

(* A decode extends some sequences, each by tokens of its own: a token is  *)
(* known by the sequence that decodes it.                                  *)
Extend ==
    /\ DOMAIN state' = Seqs
    /\ \A s \in Seqs : \E n \in 0 .. Len(state'[s]) :
          state'[s] = state[s] \o [i \in 1 .. n |-> s]
    /\ UNCHANGED saved

Truncate(s) ==
    /\ \E n \in 0 .. Len(state[s]) : state' = [state EXCEPT ![s] = SubSeq(@, 1, n)]
    /\ UNCHANGED saved

Copy(s, t) == state' = [state EXCEPT ![t] = state[s]] /\ UNCHANGED saved
Save(s) == saved' = state[s] /\ UNCHANGED state
Load(s) == state' = [state EXCEPT ![s] = saved] /\ UNCHANGED saved

SequencesNext ==
    \/ Extend
    \/ \E s, t \in Seqs : Truncate(s) \/ Copy(s, t) \/ Save(s) \/ Load(s)

SequencesSpec == SequencesInit /\ [][SequencesNext]_sequenceVars
=============================================================================
