--------------------------- MODULE MCBulkWatchers ---------------------------
(***************************************************************************)
(* A small instance of BulkWatchers for TLC.                               *)
(***************************************************************************)
EXTENDS BulkWatchers

MCTexts == [t \in Templates |-> SeededTemplates[t]]

\* States that differ only in what nothing reads any more: the result of a row that
\* has been logged, the template of a run past its last row, the kind of an event.
ViewOf(run) ==
  IF run = NULL THEN NULL
  ELSE [run EXCEPT !.result = IF run.pc = "log" THEN @ ELSE "FAILED",
                   !.template = IF run.pc \in {"complete", "emitCompleted"} THEN NULL ELSE @]

View ==
  <<bulkJobs, logs, settings, uploads, queue, mails, styles, clients,
    [r \in RunIds |-> ViewOf(runs[r])],
    [j \in JobIds |-> <<room[j].successCount, room[j].failCount>>]>>
=============================================================================
