----------------------------- MODULE SpecDecode -----------------------------
(***************************************************************************)
(* Speculative decoding of one slot (tools/server/server-context.cpp,      *)
(* update_slots; common/sampling.cpp): a drafter guesses tokens, one       *)
(* decode computes the model's choice after each of them, and the guesses  *)
(* up to the first wrong one are kept.  What the memory absorbed for the   *)
(* rest is removed; when it cannot be, the checkpoint taken before the     *)
(* guess and a copy of the sampler are restored, and the tokens that were  *)
(* accepted are decoded again as a guess.                                  *)
(*                                                                         *)
(* The model's own choice at each position of the answer is fixed (truth); *)
(* a noisy model may choose otherwise whenever it is asked, because other  *)
(* batch shapes round differently.  The sampler holds the reasoning        *)
(* budget, which overrides the choice.                                     *)
(***************************************************************************)
EXTENDS ReasoningBudget, SequencesExt

CONSTANTS
    Prompt,      \* the token that stands for the decoded prompt
    Prefill,     \* the tokens of the answer that the template put in the prompt
    Truths,      \* bound: the answers the model may have in mind
    Noise,       \* the token a noisy model may choose instead
    Miss,        \* a guess the model never makes
    Stop,        \* the end of generation
    RsDepth,     \* llama_n_rs_seq of the target
    RmTypes,     \* what kinds of memory: "PART", "FULL", "RS"
    MaxDraft,    \* n_max
    MaxPredict   \* n_predict

ASSUME TextAssumption ==
    \A text \in Truths \union {Prefill, WarnTokens, ForcedTokens} : text \in Seq(Range(text))
ASSUME MemoryAssumption == RmTypes \subseteq {"PART", "FULL", "RS"} /\ RsDepth \in Nat
ASSUME PredictAssumption ==
    /\ MaxDraft \in Nat /\ MaxPredict \in Nat \ {0}
    /\ \A text \in Truths : Len(text) >= MaxPredict + MaxDraft

VARIABLES
    kind,     \* common_context_seq_rm_type of the memory
    truth, noisy,
    phase,    \* "sample", "draft", "done", or "aborted"
    prompt,   \* slot.prompt.tokens
    sampled,  \* slot.sampled
    draft,    \* slot.spec_draft
    memory,   \* the tokens in the target's memory
    ckpt,     \* slot.spec_ckpt: the length of prompt, and the memory (or nothing)
    sampler,  \* slot.smpl: the budget and the tokens it accepted
    ids, original, \* while sampling: the accepted tokens, and the sampler before them
    replayPos, stall, skip, \* the guard against a replay that repeats
    out       \* the tokens that process_token saw

specVars == <<kind, truth, noisy, phase, prompt, sampled, draft, memory, ckpt, sampler,
              ids, original, replayPos, stall, skip, out>>

NoCheckpoint == [n |-> -1, memory |-> <<>>]

FreshSampler ==
    [budget |-> BudgetAfter(InitState("IDLE"), Prefill), prev |-> <<>>]
Accepted(smpl, token) ==
    [budget |-> BudgetAccept(smpl.budget, token), prev |-> Append(smpl.prev, token)]
Cloned(smpl) == [smpl EXCEPT !.budget = Clone(smpl.budget)]

(* common_sampler_sample: the model chooses, unless a token is forced.     *)
Sampled(smpl, choice) ==
    IF BudgetForces(smpl.budget) # <<>> THEN Head(BudgetForces(smpl.budget)) ELSE choice

SpecInit ==
    /\ kind \in RmTypes
    /\ truth \in Truths /\ noisy \in BOOLEAN
    /\ phase = "sample"
    /\ prompt = <<Prompt>> /\ memory = <<Prompt>>
    /\ sampled = Prompt
    /\ draft = <<>>
    /\ ckpt = NoCheckpoint
    /\ sampler = FreshSampler /\ original = FreshSampler /\ ids = <<>>
    /\ replayPos = -1 /\ stall = 0 /\ skip = FALSE
    /\ out = <<>>

(* process_token for some tokens in a row: the ones up to the first that   *)
(* ends the answer                                                         *)
Finals(tokens) ==
    {i \in DOMAIN tokens : tokens[i] = Stop \/ Len(out) + i >= MaxPredict}
Emitted(tokens) == IF Finals(tokens) = {} THEN tokens
                   ELSE SubSeq(tokens, 1, CHOOSE i \in Finals(tokens) : \A j \in Finals(tokens) : i <= j)
Emit(tokens) ==
    /\ out' = out \o Emitted(tokens)
    /\ phase' = IF Finals(tokens) = {} THEN "draft" ELSE "done"

(***************************************************************************)
(* Drafting and decoding                                                   *)
(***************************************************************************)
(* Guesses: what plain decoding would go on with, then misses.             *)
Plain(smpl, choices) ==
    LET acc[i \in 0 .. Len(choices)] ==
            IF i = 0 THEN [smpl |-> smpl, ids |-> <<>>]
            ELSE LET was == acc[i - 1]
                     id == Sampled(was.smpl, choices[i])
                 IN [smpl |-> Accepted(was.smpl, id), ids |-> Append(was.ids, id)]
    IN acc[Len(choices)].ids
Onwards == Plain(sampler, SubSeq(truth, Len(out) + 1, Len(out) + MaxDraft))
Guesses(n) == {SubSeq(Onwards, 1, right) \o [i \in 1 .. wrong |-> Miss] :
                 right \in 0 .. n, wrong \in 0 .. n}

MutDraftMax == Min({MaxDraft, MaxPredict - Len(out) - 1})
DraftMax == IF skip THEN 0 ELSE Min({MaxDraft, MaxPredict - Len(out) - 1})

(* A checkpoint is needed where the memory may have to forget more than it *)
(* can: it is taken once, before the draft is decoded the first time.      *)
NeedsCheckpoint(n) == kind = "FULL" \/ (kind = "RS" /\ n > RsDepth)

Pass(guess) ==
    /\ prompt' = prompt \o <<sampled>> \o guess
    /\ memory' = memory \o <<sampled>> \o guess
    /\ draft' = guess
    /\ original' = Cloned(sampler) /\ ids' = <<>>
    /\ skip' = FALSE
    /\ phase' = "sample"

DecodeNew(guess) ==
    /\ phase = "draft" /\ draft = <<>>
    /\ Len(guess) <= DraftMax
    /\ ckpt' = IF DraftMax = 0 THEN ckpt
               ELSE [n |-> Len(prompt),
                     memory |-> IF guess # <<>> /\ NeedsCheckpoint(Len(guess)) THEN memory ELSE ckpt.memory]
    /\ Pass(guess)
    /\ UNCHANGED <<kind, truth, noisy, sampled, sampler, replayPos, stall, out>>

DecodeReplay ==
    /\ phase = "draft" /\ draft # <<>>
    /\ Pass(draft)
    /\ UNCHANGED <<kind, truth, noisy, sampled, ckpt, sampler, replayPos, stall, out>>

(***************************************************************************)
(* Sampling                                                                *)
(***************************************************************************)
(* common_sampler_sample_and_accept_n, one token a step: the choice after  *)
(* the token before the draft, then after each guess, until one differs    *)
(* from its guess.  Nothing else runs between these steps.                 *)
Position == Len(out) + Len(ids) + 1
ModelChoices == {truth[Position]} \union (IF noisy THEN {Noise} ELSE {})

MoreToSample == Len(ids) <= Len(draft) /\ ids = SubSeq(draft, 1, Len(ids))

SampleNext(choice) ==
    LET id == Sampled(sampler, choice)
    IN /\ phase = "sample" /\ MoreToSample
       /\ sampler' = Accepted(sampler, id)
       /\ ids' = Append(ids, id)
       /\ UNCHANGED <<kind, truth, noisy, phase, prompt, sampled, draft, memory, ckpt, original,
                      replayPos, stall, skip, out>>

(* common_context_seq_rm of everything from a position on                  *)
Removable(mem, n) == kind = "PART" \/ Len(mem) <= n \/ (kind = "RS" /\ Len(mem) - n <= RsDepth)

(* The accepted tokens enter the prompt, all but the last.                 *)
KeptPrompt == SubSeq(prompt, 1, Len(prompt) - Len(draft)) \o SubSeq(ids, 1, Len(ids) - 1)
Keep ==
    /\ prompt' = KeptPrompt
    /\ memory' = SubSeq(memory, 1, Min({Len(KeptPrompt), Len(memory)}))
    /\ sampled' = ids[Len(ids)]
    /\ draft' = <<>>
    /\ IF Removable(memory, Len(KeptPrompt))
       THEN Emit(ids)
       ELSE phase' = "aborted" /\ UNCHANGED out
    /\ UNCHANGED <<ckpt, sampler, replayPos, stall, skip>>

(* The checkpoint and the copy of the sampler are put back; the second     *)
(* time in a row at a position the draft is dropped and the next pass      *)
(* decodes one token without a guess.                                      *)
Stalls == replayPos = ckpt.n /\ stall + 1 >= 2
MutRestore ==
    /\ memory' = ckpt.memory
    /\ prompt' = SubSeq(prompt, 1, ckpt.n)
    /\ draft' = IF Stalls THEN <<>> ELSE ids
    /\ replayPos' = IF Stalls THEN -1 ELSE ckpt.n
    /\ stall' = CASE Stalls -> 0 [] ~Stalls /\ replayPos = ckpt.n -> stall + 1 [] OTHER -> 1
    /\ skip' = Stalls
    /\ phase' = "draft"
    /\ UNCHANGED <<sampled, sampler, ckpt, out>>
Restore ==
    /\ memory' = ckpt.memory
    /\ prompt' = SubSeq(prompt, 1, ckpt.n)
    /\ sampler' = Cloned(original)
    /\ draft' = IF Stalls THEN <<>> ELSE ids
    /\ replayPos' = IF Stalls THEN -1 ELSE ckpt.n
    /\ stall' = CASE Stalls -> 0 [] ~Stalls /\ replayPos = ckpt.n -> stall + 1 [] OTHER -> 1
    /\ skip' = Stalls
    /\ phase' = "draft"
    /\ UNCHANGED <<sampled, ckpt, out>>

Restores == kind = "FULL" \/ (kind = "RS" /\ Len(draft) + 1 - Len(ids) > RsDepth)

Verify ==
    /\ phase = "sample" /\ ~MoreToSample
    /\ ids' = <<>> /\ original' = FreshSampler
    /\ IF Len(draft) + 1 > Len(ids) /\ Restores THEN Restore ELSE Keep
    /\ UNCHANGED <<kind, truth, noisy>>

SpecNext ==
    \/ \E guess \in Guesses(MaxDraft) : DecodeNew(guess)
    \/ DecodeReplay
    \/ \E choice \in ModelChoices : SampleNext(choice)
    \/ Verify

(* The loop goes on; a drafter may also have nothing to propose, so that   *)
(* the third conjunct says no more than that the pass is made.             *)
SpecFairness ==
    /\ WF_specVars(\E choice \in ModelChoices : SampleNext(choice))
    /\ WF_specVars(Verify)
    /\ WF_specVars(DecodeNew(<<>>))
    /\ WF_specVars(DecodeReplay)

SpecSpec == SpecInit /\ [][SpecNext]_specVars /\ SpecFairness

(***************************************************************************)
(* Properties.                                                             *)
(***************************************************************************)
(* Speculation does not change the answer: unless the model is noisy, what *)
(* is emitted is what decoding one token at a time emits.                  *)
OutputUnchanged ==
    ~noisy => IsPrefix(out, Plain(FreshSampler, truth))

(* The sampler that goes into the next pass has accepted the tokens of the *)
(* answer, each once: a copy that is put back has forgotten the rejected   *)
(* guesses, and remembers the budget that was spent before them.           *)
SamplerFollowsOutput ==
    phase = "draft" =>
        sampler = [budget |-> BudgetAfter(FreshSampler.budget, out), prev |-> out]

(* The memory has absorbed the tokens of the prompt and no others, at the  *)
(* end of an answer too, when the slot keeps both for the next request;    *)
(* and before each pass the prompt and the token to decode are the answer. *)
(* common_context_seq_rm is never asked for what the memory cannot do,     *)
(* which aborts the server.                                                *)
MemoryIsPrompt ==
    /\ phase # "aborted"
    /\ memory = prompt
    /\ phase = "draft" => prompt \o <<sampled>> = <<Prompt>> \o out

(* Both: what a pass leaves to the next is what the answer says, whatever  *)
(* was drafted, rejected and put back.                                     *)
PassesJoin == SamplerFollowsOutput /\ MemoryIsPrompt

(* A thinking block is closed, by the model or by force, within the budget,*)
(* the warning and the forced end, unless it waits for the end of a UTF-8  *)
(* sequence: a restored sampler does not refill the budget.                *)
Window == Budget + Len(WarnTokens) + Len(ForcedTokens)
Tagged(i) == out[i] \in Range(StartTokens) \union Range(EndTokens)
Opens(s) ==
    IF s = 0 THEN Prefill = StartTokens
    ELSE out[s] \in Range(StartTokens)
         /\ \E e \in 1 .. s - 1 : out[e] \in Range(EndTokens) /\ \A i \in e + 1 .. s - 1 : ~Tagged(i)
ThinkingEnds ==
    \A s \in 0 .. Len(out) - Window :
        Opens(s) /\ (\A i \in s + 1 .. s + Window : Complete(out[i])) =>
            \E e \in s + 1 .. s + Window : out[e] \in Range(EndTokens)

(* However often the model changes its mind about a guess, the answer      *)
(* ends: the guard lets no draft be replayed for ever.                     *)
AnswerEnds == <>(phase = "done")
=============================================================================
