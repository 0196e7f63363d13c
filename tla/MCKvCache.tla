------------------------------ MODULE MCKvCache ------------------------------
(* Small instances of KvCache.                                             *)
EXTENDS KvCache

KvTexts == {<<10>>, <<10, 11>>, <<11, 10, 10>>}

Mode(unified, window, several, shifts, ram, repeats, cells, context) ==
    [unified |-> unified, window |-> window, several |-> several, shifts |-> shifts,
     ram |-> ram, repeats |-> repeats, cells |-> cells, context |-> context]

(* A stream for each slot, several completions of a prompt and a cache in  *)
(* RAM: a copy between streams may be pending when a prompt is restored.   *)
StreamsOfSeveral == {Mode(FALSE, 0, TRUE, FALSE, TRUE, TRUE, 4, 4)}
=============================================================================
