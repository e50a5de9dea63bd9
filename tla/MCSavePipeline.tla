--------------------------- MODULE MCSavePipeline ---------------------------
(***************************************************************************)
(* SavePipeline for TLC: the refinement of LatestWins by the one process   *)
(* of an instance that does not quit.                                      *)
(***************************************************************************)
EXTENDS SavePipeline

TheProc == CHOOSE p \in Proc : TRUE

\* The snapshot that one of these tasks has still to write, if one has.
BeingWritten(ts) ==
    LET toWrite == {ts[i] : i \in {j \in DOMAIN ts : ts[j].stage = "write"}}
    IN  IF toWrite = {} THEN NoSnapshot ELSE (CHOOSE t \in toWrite : TRUE).snap

Coalescer == INSTANCE LatestWins WITH
    stored  <- [s \in Session |-> Recovered(json[s], rounds[s])],
    current <- ui[TheProc].sess,
    writing <- BeingWritten(tasks[TheProc]),
    waiting <- ui[TheProc].pending,
    busy    <- ui[TheProc].inFlight

\* The pipeline with its journal, cursor and tasks writes whole snapshots, one
\* at a time and the newest next (session.rs, enqueue_save and on_save_done).
ImplementsLatestWins == Coalescer!Spec
=============================================================================
