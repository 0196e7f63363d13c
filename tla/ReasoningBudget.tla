--------------------------- MODULE ReasoningBudget ---------------------------
(***************************************************************************)
(* The reasoning-budget sampler (common/reasoning-budget.cpp): it watches  *)
(* the tokens of an answer, counts those of a thinking block, forces a     *)
(* warning once in it and the end of the block when the budget is used up. *)
(* Its state is a record, its operations are operators on it.              *)
(***************************************************************************)
EXTENDS Integers, Sequences

CONSTANTS
    StartTokens, EndTokens,    \* the tags of a thinking block
    ForcedTokens, WarnTokens,  \* what is forced at the end of the budget, and before it
    Budget,                    \* common_reasoning_budget_ctx::budget
    WarnAt,                    \* warn_at: where the warning is due
    Partial                    \* the tokens that end inside a UTF-8 sequence

ASSUME BudgetAssumption == Budget \in Nat /\ WarnAt \in Nat
ASSUME TagAssumption == StartTokens # <<>> /\ EndTokens # <<>>

(* token_matcher::advance                                                  *)
Matches(tokens, pos, token) == token = tokens[pos + 1] /\ pos + 1 = Len(tokens)
Advance(tokens, pos, token) ==
    CASE Matches(tokens, pos, token) -> 0
      [] token = tokens[pos + 1] /\ pos + 1 < Len(tokens) -> pos + 1
      [] token # tokens[pos + 1] /\ token = tokens[1] -> 1
      [] OTHER -> 0

(* common_reasoning_budget_init_state                                      *)
InitState(state) ==
    [state |-> IF state = "COUNTING" /\ Budget <= 0 THEN "FORCING" ELSE state,
     start |-> 0, end |-> 0, remaining |-> Budget, warned |-> FALSE, warnPos |-> 0, forcePos |-> 0]

Starts(b, token) == Matches(StartTokens, b.start, token)
Ends(b, token) == Matches(EndTokens, b.end, token)
Complete(token) == token \notin Partial

(* A block begins: at once the forced end, when the budget is 0.           *)
Activated(b) ==
    IF Budget <= 0 THEN [b EXCEPT !.state = "FORCING", !.remaining = Budget, !.forcePos = 0]
    ELSE [b EXCEPT !.state = "COUNTING", !.remaining = Budget]

InIdle(b, token) ==
    LET seen == [b EXCEPT !.start = Advance(StartTokens, b.start, token)]
    IN IF Starts(b, token) THEN Activated(seen) ELSE seen

(* A later block has a budget and a warning of its own.                    *)
InDone(b, token) ==
    LET seen == [b EXCEPT !.start = Advance(StartTokens, b.start, token)]
    IN IF Starts(b, token)
       THEN Activated([seen EXCEPT !.end = 0, !.warned = FALSE, !.warnPos = 0])
       ELSE seen

(* One token of the budget is spent; neither the warning nor the end is    *)
(* forced inside a UTF-8 sequence.                                         *)
Spent(b, token) ==
    LET left == b.remaining - 1
        warns == ~b.warned /\ WarnTokens # <<>> /\ Complete(token) /\ left <= WarnAt /\ left > 0
    IN CASE warns -> [b EXCEPT !.remaining = left, !.warned = TRUE, !.warnPos = 0, !.end = 0,
                               !.state = "WARN_FORCING"]
         [] ~warns /\ left <= 0 /\ Complete(token) ->
                [b EXCEPT !.remaining = left, !.state = "FORCING", !.forcePos = 0, !.end = 0]
         [] ~warns /\ left <= 0 /\ ~Complete(token) ->
                [b EXCEPT !.remaining = left, !.state = "WAITING_UTF8", !.end = 0]
         [] ~warns /\ left > 0 -> [b EXCEPT !.remaining = left]

InThinking(b, token) ==
    LET seen == [b EXCEPT !.end = Advance(EndTokens, b.end, token)]
    IN CASE Ends(b, token) -> [seen EXCEPT !.state = "DONE"]
         [] ~Ends(b, token) /\ b.state = "COUNTING" -> Spent(seen, token)
         [] ~Ends(b, token) /\ b.state = "WAITING_UTF8" ->
                IF Complete(token) THEN [seen EXCEPT !.state = "FORCING", !.forcePos = 0, !.end = 0] ELSE seen

InWarning(b) ==
    IF b.warnPos + 1 >= Len(WarnTokens)
    THEN [b EXCEPT !.warnPos = @ + 1, !.state = "COUNTING", !.end = 0]
    ELSE [b EXCEPT !.warnPos = @ + 1]

InForcing(b) ==
    IF b.forcePos + 1 >= Len(ForcedTokens)
    THEN [b EXCEPT !.forcePos = @ + 1, !.state = "DONE"]
    ELSE [b EXCEPT !.forcePos = @ + 1]

(* common_reasoning_budget_accept                                          *)
BudgetAccept(b, token) ==
    CASE b.state = "IDLE" -> InIdle(b, token)
      [] b.state \in {"COUNTING", "WAITING_UTF8"} -> InThinking(b, token)
      [] b.state = "WARN_FORCING" -> InWarning(b)
      [] b.state = "FORCING" -> InForcing(b)
      [] b.state = "DONE" -> InDone(b, token)

BudgetAfter(b, tokens) ==
    LET after[i \in 0 .. Len(tokens)] ==
            IF i = 0 THEN b ELSE LET before == after[i - 1] IN BudgetAccept(before, tokens[i])
    IN after[Len(tokens)]

(* common_reasoning_budget_apply: the one token it leaves a chance, or     *)
(* none when it leaves the choice alone                                    *)
BudgetForces(b) ==
    CASE b.state = "WARN_FORCING" /\ b.warnPos < Len(WarnTokens) -> <<WarnTokens[b.warnPos + 1]>>
      [] b.state = "FORCING" /\ b.forcePos < Len(ForcedTokens) -> <<ForcedTokens[b.forcePos + 1]>>
      [] OTHER -> <<>>

(* common_reasoning_budget_clone                                           *)
MutClone(b) == [InitState(b.state) EXCEPT !.start = b.start, !.end = b.end, !.forcePos = b.forcePos,
                                          !.warned = b.warned, !.warnPos = b.warnPos]
Clone(b) == [InitState(b.state) EXCEPT !.remaining = b.remaining, !.start = b.start, !.end = b.end,
                                       !.forcePos = b.forcePos, !.warned = b.warned, !.warnPos = b.warnPos]
=============================================================================
