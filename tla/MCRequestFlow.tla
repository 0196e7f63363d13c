--------------------------- MODULE MCRequestFlow ---------------------------
(* Small instances of RequestFlow. *)
EXTENDS RequestFlow, TLC

OneSlot == {"s1"}
TwoSlots == {"s1", "s2"}
NoChildren == [t \in Tasks |-> {}]
AllCompletions == [t \in Tasks |-> "completion"]
NoAction == [t \in Tasks |-> AnySlot]
NoWish == [t \in Tasks |-> AnySlot]
OneEach == [c \in Clients |-> <<c>>]

\* "a" posts two prompts, the second of which asks for the first slot.
TwoOfA == [k \in Clients |-> IF k = "a" THEN <<"a", "c">> ELSE <<k>>]

\* "b" has a child.
ParentChild == [t \in Tasks |-> IF t = "b" THEN {"b1"} ELSE {}]
WishFirst == [t \in Tasks |-> IF t = "c" THEN "s1" ELSE AnySlot]

\* "c" saves the first slot, "d" asks for metrics.
MixedKinds == [t \in Tasks |-> CASE t = "c" -> "slotAction"
                                 [] t = "d" -> "metrics"
                                 [] OTHER   -> "completion"]
SaveFirst == [t \in Tasks |-> IF t = "c" THEN "s1" ELSE AnySlot]
=============================================================================
