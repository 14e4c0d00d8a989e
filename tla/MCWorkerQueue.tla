--------------------------- MODULE MCWorkerQueue ----------------------------
(* Small instances of WorkerQueue.  Tasks 1 and 2 share a task_id, as      *)
(* a.json and a.b.json do; the document of task 2 does not validate.       *)
EXTENDS WorkerQueue

IdOfTwo == <<"a", "a">>
DocMixed == <<"runnable", "invalid">>
=============================================================================
