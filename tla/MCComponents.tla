---------------------------- MODULE MCComponents ----------------------------
(* Eight components that share no state: a behaviour belongs to one of      *)
(* them, and the variables of the others rest in one initial state.  The   *)
(* router's properties of safety have a run of their own (MCRouter).       *)
EXTENDS LogRing, PleStore, RecurrentMemory, SpecDecode, RunDirectories, PromptCache, KvCache, TLC

CONSTANTS Models, Requests, Asks, MaxModels, Sources, MaxLines, MayFail, NoModel, a, r1, r2

VARIABLES part, router, known, inst, stopping, reloading, h

Children == INSTANCE Router

(* The texts of the tasks of the attention memory and its configurations:  *)
(* one stream with context shifts, a stream for each slot with shifts and  *)
(* a cache in RAM, the same with a window, one stream with a window,        *)
(* several completions of a prompt, and one stream with a cache in RAM,    *)
(* where the idle slots are saved and cleared.                             *)
KvTexts == {<<10>>, <<10, 11>>, <<11, 10, 10>>}
Mode(unified, window, several, shifts, ram, cells, context) ==
    [unified |-> unified, window |-> window, several |-> several, shifts |-> shifts,
     ram |-> ram, repeats |-> window = 0, cells |-> cells, context |-> context]
KvModes == {Mode(TRUE, 0, FALSE, TRUE, FALSE, 4, 4), Mode(FALSE, 0, FALSE, TRUE, TRUE, 4, 4),
            Mode(FALSE, 2, FALSE, FALSE, TRUE, 4, 6), Mode(TRUE, 2, FALSE, FALSE, FALSE, 5, 6),
            Mode(FALSE, 0, TRUE, FALSE, FALSE, 4, 4), Mode(TRUE, 0, FALSE, FALSE, TRUE, 5, 5)}

routerVars == <<router, known, inst, stopping, reloading, h>>

logPart == part = "log"
plePart == part = "ple"
memPart == part = "mem"
routerPart == part = "router"
specPart == part = "spec"
dirPart == part = "dirs"
cachePart == part = "cache"
kvPart == part = "kv"

(* The tags, one token each, and the answers the model has in mind: blocks *)
(* within and over the budget, open at an incomplete sequence, two blocks. *)
OpenTag == <<"S">>
CloseTag == <<"E">>
WarnTag == <<"w">>
Minds == {mind \o <<"a", "a", "a", "a">> : mind \in
             {<<"a", "a", "a", "a", "a", "a">>, <<"a", "u", "u", "u", "a", "a">>,
              <<"a", "E", "a", "S", "a", "a">>, <<"u", "u", "u", "u", "u", "u">>,
              <<"E", "a", "z", "a", "a", "a">>, <<"E", "S", "a", "u", "a", "a">>,
              <<"a", "a", "u", "u", "a", "a">>, <<"a", "E", "S", "a", "E", "a">>}}

OnlyA == {{a}}
AsksOf == r1 :> {"proxy"} @@ r2 :> {"load", "unload"}

(* Within a block and over several, repeated, out of order, out of range   *)
RowLists == {<<0>>, <<3, 6, 3>>, <<0, 4, 8>>, <<8, 1>>, <<5, 2, 7>>, <<9>>}

(* Prompts that share a prefix, extend one another, and differ at once     *)
TaskPrompts == {<<"a">>, <<"a", "b">>, <<"b", "a", "a">>}

DirsAtRest == DirInit /\ (dirPart \/ dirs[1].name = "run")
KvAtRest == KvInit /\ (kvPart \/ mode = CHOOSE x \in KvModes : TRUE)
CacheAtRest == CacheInit /\ (cachePart \/ stateful)
SpecAtRest ==
    /\ SpecInit
    /\ (kind = "PART" /\ ~noisy /\ truth = CHOOSE t \in Truths : TRUE) \/ specPart

Init == /\ part \in {"log", "ple", "mem", "spec", "router", "dirs", "cache", "kv"}
        /\ LogInit /\ PleInit /\ MemInit /\ SpecAtRest /\ Children!Init
        /\ DirsAtRest /\ CacheAtRest /\ KvAtRest

Others == <<part, dirVars, cacheVars, kvVars>>
Small == <<part, logVars, pleVars, memVars, specVars, routerVars>>
OfLog(action) == logPart /\ action /\ UNCHANGED <<Others, pleVars, memVars, specVars, routerVars>>
OfPle(action) == plePart /\ action /\ UNCHANGED <<Others, logVars, memVars, specVars, routerVars>>
OfMem(action) == memPart /\ action /\ UNCHANGED <<Others, logVars, pleVars, specVars, routerVars>>
OfSpec(action) == specPart /\ action /\ UNCHANGED <<Others, logVars, pleVars, memVars, routerVars>>
OfRouter(action) == routerPart /\ action /\ UNCHANGED <<Others, logVars, pleVars, memVars, specVars>>
OfDirs(action) == dirPart /\ action /\ UNCHANGED <<Small, cacheVars, kvVars>>
OfCache(action) == cachePart /\ action /\ UNCHANGED <<Small, dirVars, kvVars>>
OfKv(action) == kvPart /\ action /\ UNCHANGED <<Small, dirVars, cacheVars>>

Next == \/ OfLog(LogNext) \/ OfPle(PleNext) \/ OfMem(MemNext) \/ OfSpec(SpecNext)
        \/ OfRouter(Children!Next) \/ OfDirs(DirNext) \/ OfCache(CacheNext)
        \/ OfKv(KvNext)

allVars == <<Small, dirVars, cacheVars, kvVars>>

Spec ==
    /\ Init /\ [][Next]_allVars
    /\ WF_logVars(logPart /\ Take) /\ WF_logVars(logPart /\ PrintEntry) /\ WF_logVars(logPart /\ Joined)
    /\ WF_specVars(specPart /\ \E choice \in ModelChoices : SampleNext(choice))
    /\ WF_specVars(specPart /\ Verify)
    /\ WF_specVars(specPart /\ DecodeNew(<<>>))
    /\ WF_specVars(specPart /\ DecodeReplay)
    /\ \A r \in Requests : WF_routerVars(routerPart /\ Children!Handle(r))
    /\ \A m \in Models : /\ WF_routerVars(routerPart /\ Children!Manager(m))
                         /\ WF_routerVars(routerPart /\ Children!Monitor(m))
                         /\ WF_routerVars(routerPart /\ Children!Exits(m))
                         /\ WF_routerVars(routerPart /\ Children!EndsStart(m))
    /\ WF_routerVars(routerPart /\ Children!UnloadAll) /\ WF_routerVars(routerPart /\ Children!End)
    /\ \A p \in Servers : WF_dirVars(dirPart /\ Cleans(p))

(* An answer that is being generated ends, however often the model changes *)
(* its mind about a guess: no draft is replayed for ever (AnswerEnds, of   *)
(* the behaviours that decode speculatively).                              *)
SpeculationEnds == specPart => AnswerEnds

UnloadEnds == Children!UnloadEnds
ShutdownEnds == Children!ShutdownEnds
=============================================================================
