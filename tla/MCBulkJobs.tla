----------------------------- MODULE MCBulkJobs -----------------------------
(***************************************************************************)
(* Small instances of BulkJobs for TLC.                                    *)
(***************************************************************************)
EXTENDS BulkJobs, TLC

MCTexts == [t \in Templates |-> SeededTemplates[t]]

Symmetry == Permutations(JobIds)
=============================================================================
