----------------------------- MODULE ServerTask -----------------------------
(* server_task: what the queues and the scheduling of slots read of it.    *)
EXTENDS Integers, Subsequences, SequencesExt

CONSTANTS
    Tasks,      \* posted tasks and their children, by id
    NoTask,
    Slots,      \* slot ids
    AnySlot,    \* id_slot = -1
    Kind,       \* server_task_type: a completion, a slot save, restore or
                \* erase ("slotAction"), or a high-priority "metrics" task
    IdSlot,     \* id_slot: the slot a completion asks for
    ActionSlot, \* slot_action.id_slot: the slot of a slot action
    Children    \* child_tasks of a completion with n_cmpl > 1

\* params_from_json_cmpl refuses more completions than there are slots.
ASSUME ServerTaskAssumption ==
    /\ IsFiniteSet(Slots) /\ Slots # {} /\ AnySlot \notin Slots
    /\ NoTask \notin Tasks
    /\ Kind \in [Tasks -> {"completion", "slotAction", "metrics"}]
    /\ IdSlot \in [Tasks -> Slots \cup {AnySlot}]
    /\ ActionSlot \in [Tasks -> Slots \cup {AnySlot}]
    /\ \A t \in Tasks : Kind[t] = "slotAction" => ActionSlot[t] \in Slots
    /\ Children \in [Tasks -> SUBSET Tasks]
    /\ \A t \in Tasks : /\ IsFiniteSet(Children[t])
                        /\ Cardinality(Children[t]) < Cardinality(Slots)
                        /\ Kind[t] # "completion" => Children[t] = {}
=============================================================================
