--------------------------- MODULE ServerResponse ---------------------------
(***************************************************************************)
(* server_response: which tasks somebody waits for, and the results not    *)
(* yet taken.  Every operator is what one method does while it holds       *)
(* mutex_results.  The condition variable is left out: every wait on it    *)
(* has a timeout after which the waiting thread looks again.               *)
(***************************************************************************)
EXTENDS ServerTask

VARIABLES waiting,      \* waiting_task_ids
          results       \* queue_results

responseVars == <<waiting, results>>

Outcomes == {"partial", "final", "error"}
Result == [task : Tasks, outcome : Outcomes]

ResponseInit == waiting = {} /\ results = << >>

AddWaiting(ids) ==
    /\ waiting' = waiting \cup ids
    /\ UNCHANGED results

\* remove_waiting_task_ids: queued results stay.
RemoveWaiting(ids) ==
    /\ waiting' = waiting \ ids
    /\ UNCHANGED results

\* remove_waiting_task_id, of each id.
MutPurge(ids) == RemoveWaiting(ids)
Purge(ids) ==
    /\ waiting' = waiting \ ids
    /\ results' = SubseqAt(results, {i \in DOMAIN results : results[i].task \notin ids})

\* send: a result nobody waits for is dropped.
Send(t, outcome) ==
    /\ results' = IF t \in waiting
                  THEN Append(results, [task |-> t, outcome |-> outcome])
                  ELSE results
    /\ UNCHANGED waiting

\* recv_with_timeout: the first queued result of one of the ids.
FirstOf(ids) == SelectInSeq(results, LAMBDA r : r.task \in ids)
Take(ids) ==
    /\ FirstOf(ids) # 0
    /\ results' = RemoveAt(results, FirstOf(ids))
    /\ UNCHANGED waiting
=============================================================================
