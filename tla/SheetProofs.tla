----------------------------- MODULE SheetProofs -----------------------------
(***************************************************************************)
(* Proofs about a bulk job as a sheet: what a job that never stalled ends  *)
(* with, and that every bulk job, stalled or not, keeps the promise of     *)
(* module Sheet.                                                           *)
(***************************************************************************)
EXTENDS BulkJobsProofs

\* No stall so far has led, or will lead, to a second run of the job.
Alone(j) == LeastOf(queue[j].stalls, MaxStalledCount) = 0

\* What the table, the log and the mails say of a job while its first run is `run`, as
\* in the code read alone.
FirstRunFits(j, run) ==
  /\ run.pc = "start" => bulkJobs[j].status = "PENDING"
  /\ run.pc = "emitCompleted" => bulkJobs[j].status = "COMPLETED"
  /\ run.pc \notin {"start", "emitCompleted"} => bulkJobs[j].status = "PROCESSING"
  /\ \A row \in Rows :
       logs[j][row]["SUCCESS"] + logs[j][row]["FAILED"] = IF row < LoggedBy(run) THEN 1 ELSE 0
  /\ run.successCount = Cardinality(Logged(j, "SUCCESS"))
  /\ bulkJobs[j].processedCount = IF run.pc = "count" THEN run.i ELSE LoggedBy(run)
  /\ run.pc # "count" => bulkJobs[j].successCount = run.successCount
  /\ run.pc \in {"start", "emitStarted", "getSettings"} => styles[j] = {}
  /\ styles[j] \subseteq {run.template}

FirstRunsFit == \A j \in JobIds : Alone(j) /\ runs[<<j, 0>>] # NULL => FirstRunFits(j, runs[<<j, 0>>])

\* Before its first run nothing has happened to a sheet.
Untouched(j) ==
  /\ \A row \in Rows, status \in Statuses : logs[j][row][status] = 0
  /\ styles[j] = {}
  /\ bulkJobs[j] # NULL => /\ bulkJobs[j].status = "PENDING"
                           /\ bulkJobs[j].processedCount = 0
                           /\ bulkJobs[j].successCount = 0

UntouchedBeforeRun ==
  \A j \in JobIds :
    queue[j].state \in {"none", "waiting"} /\ queue[j].stalls = 0 => Untouched(j)

\* One template is all the rows of a single run are written with.
OneStyle ==
  \A j \in JobIds : Alone(j) => \E template \in Styles : styles[j] \subseteq {template}

AloneInv == FirstRunsFit /\ UntouchedBeforeRun /\ FinishedSheets /\ OneStyle

-----------------------------------------------------------------------------
\* What the queue says of a job that is alone

\* A job that is alone has one run at most, its first.
LEMMA AloneHasOneRun ==
  ASSUME Base, NEW j \in JobIds, Alone(j)
  PROVE  /\ \A r \in Running : r[1] = j => r = <<j, 0>>
         /\ 0 \in 0 .. MaxStalledCount /\ <<j, 0>> \in RunIds
         /\ queue[j].state \in {"waiting", "active", "completed"} => queue[j].stalls = 0
<1>1. queue[j] \in QueueJob
  BY DEF Base, TypeOK
<1>2. queue[j].stalls \in Nat /\ MaxStalledCount \in Nat
  BY <1>1, BulkAssumption DEF QueueJob
<1>3. ASSUME NEW r \in Running, r[1] = j
      PROVE  r = <<j, 0>>
  <2>1. /\ r = <<j, r[2]>> /\ r[2] \in 0 .. MaxStalledCount
        /\ runs[<<j, r[2]>>] # NULL
    BY <1>3, JobOfRun DEF Running
  <2>2. r[2] < queue[j].stalls \/ r[2] = queue[j].stalls
    BY <2>1 DEF Base, QueueFits
  <2>3. r[2] = 0
    BY <1>2, <2>1, <2>2 DEF Alone, LeastOf
  <2> QED BY <2>1, <2>3
<1>4. 0 \in 0 .. MaxStalledCount
  BY <1>2
<1>5. <<j, 0>> \in RunIds
  BY <1>4 DEF RunIds
<1>6. queue[j].state \in {"waiting", "active", "completed"} => queue[j].stalls = 0
  BY <1>2 DEF Base, QueueFits, Alone, LeastOf
<1> QED BY <1>3, <1>4, <1>5, <1>6

\* A job is alone from the start or never; it waits for its first run only before it, and
\* is filed as completed only by the end of a run.
LEMMA AloneStaysAlone ==
  ASSUME Base, [Next]_vars, NEW j \in JobIds
  PROVE  /\ Alone(j)' => Alone(j)
         /\ queue'[j].stalls = 0 => queue[j].stalls = 0
         /\ queue'[j].state \in {"none", "waiting"} /\ queue'[j].stalls = 0
              => queue[j].state \in {"none", "waiting"}
         /\ queue'[j].state = "completed"
              => \/ queue[j].state = "completed"
                 \/ \E r \in RunIds : r[1] = j /\ Current(r) /\ EmitCompleted(r)
<1>1. queue[j] \in QueueJob
  BY DEF Base, TypeOK
<1>2. queue[j].stalls \in Nat /\ MaxStalledCount \in Nat
  BY <1>1, BulkAssumption DEF QueueJob
<1> USE DEF Alone, LeastOf
<1>3. CASE queue'[j] = queue[j]
  BY <1>3
<1>4. CASE TakeBulk(j)
  <2>1. queue[j].state = "waiting"
        /\ queue'[j].state = "active" /\ queue'[j].stalls = queue[j].stalls
    BY <1>1, <1>4, TakeStep DEF Base, TypeOK, QueueJob
  <2> QED BY <2>1
<1>5. CASE Stall(j)
  <2>1. PICK job \in QueueJob :
          /\ queue' = [queue EXCEPT ![j] = job]
          /\ job.state \in {"waiting", "failed"}
          /\ job.stalls = queue[j].stalls + 1
    BY <1>5, StallMoves
  <2>2. queue'[j] = job
    BY <2>1 DEF Base, TypeOK
  <2> QED BY <1>2, <2>1, <2>2
<1>6. CASE EnqueueBulk(j)
  <2>1. queue[j].state = "none"
        /\ queue'[j].state = "waiting" /\ queue'[j].stalls = queue[j].stalls
    BY <1>1, <1>6 DEF EnqueueBulk, Base, TypeOK, QueueFits, QueueJob
  <2> QED BY <2>1
<1>7. ASSUME NEW r \in RunIds, r[1] = j, Current(r), EmitCompleted(r) \/ Throw(r)
      PROVE  /\ queue'[j].stalls = queue[j].stalls
             /\ queue'[j].state \in {"active", "completed", "failed"}
             /\ Throw(r) => queue'[j].state # "completed"
  <2>1. Ends(r, "completed") \/ Ends(r, "failed")
    BY <1>7, EmitCompletedStep, ThrowStep
  <2>2. Throw(r) => Ends(r, "failed")
    BY ThrowStep
  <2> QED BY <1>7, <2>1, <2>2, EndsOneRun DEF Current
<1> QED BY <1>3, <1>4, <1>5, <1>6, <1>7, QueueMoves

\* Nothing of a job changes in a step of another job's run.
LEMMA OtherJobsStay ==
  ASSUME Base, RunsFit, NEW r \in RunIds, Advances(r), NEW j \in JobIds, j # r[1]
  PROVE  /\ bulkJobs'[j] = bulkJobs[j] /\ logs'[j] = logs[j] /\ styles'[j] = styles[j]
         /\ mails'[j] = mails[j]
         /\ \A k \in 0 .. MaxStalledCount : runs'[<<j, k>>] = runs[<<j, k>>]
<1>1. r \in Running /\ r[1] \in JobIds
  BY AdvancesKeepSheets, RunNames
<1>2. \A k \in 0 .. MaxStalledCount : runs'[<<j, k>>] = runs[<<j, k>>]
  <2>1. \A k \in 0 .. MaxStalledCount : <<j, k>> \in RunIds /\ <<j, k>> # r
    BY DEF RunIds
  <2>2. \A s \in RunIds : s # r => runs'[s] = runs[s]
    BY AdvancedRunFits, MovesOneRun
  <2> QED BY <2>1, <2>2
<1>3. ASSUME NEW job, Writes(r[1], job)
      PROVE  bulkJobs'[j] = bulkJobs[j]
  BY <1>1, <1>3, WritesKeepTable
<1>4. CASE MarkProcessing(r)
  BY <1>2, <1>3, <1>4, MarkProcessingStep
<1>5. CASE EmitStarted(r)
  BY <1>2, <1>5, EmitStartedStep
<1>6. CASE ReadSettings(r)
  BY <1>2, <1>6, ReadSettingsStep
<1>7. ASSUME NEW accepted \in {0, 1}, NEW result \in Statuses, SendRow(r, accepted, result)
      PROVE  UNCHANGED <<bulkJobs, logs>> /\ styles'[j] = styles[j] /\ mails'[j] = mails[j]
  <2>1. UNCHANGED <<bulkJobs, logs>> /\ Mails(r[1], runs[r].i, accepted, runs[r].template)
    BY <1>7, SendRowStep
  <2> QED BY <1>1, <2>1 DEF Mails, Base, TypeOK
<1>8. CASE LogRow(r)
  <2>1. /\ UNCHANGED <<bulkJobs, styles, mails>>
        /\ Logs(r[1], runs[r].i, runs[r].result)
    BY <1>8, LogRowStep
  <2>2. logs'[j] = logs[j]
    BY <1>1, <2>1 DEF Logs, Base, TypeOK
  <2> QED BY <1>2, <2>1, <2>2
<1>9. CASE CountRow(r)
  BY <1>2, <1>3, <1>9, CountRowStep
<1>10. CASE EmitRow(r)
  BY <1>2, <1>10, EmitRowStep
<1>11. CASE MarkCompleted(r)
  BY <1>2, <1>3, <1>11, MarkCompletedStep
<1> QED BY <1>2, <1>4, <1>5, <1>6, <1>7, <1>8, <1>9, <1>10, <1>11 DEF Advances

\* Nothing happens to a sheet, but that runs of it may end.
Unmoved(j) ==
  /\ bulkJobs'[j] = bulkJobs[j] /\ logs'[j] = logs[j]
  /\ styles'[j] = styles[j] /\ mails'[j] = mails[j]
  /\ \A k \in 0 .. MaxStalledCount : runs'[<<j, k>>] \in {runs[<<j, k>>], NULL}

\* A step creates this job, starts a run of it, is one of its runs' own, or does nothing to
\* it but end runs of it.
LEMMA JobCases ==
  ASSUME Base, RunsFit, [Next]_vars, NEW j \in JobIds
  PROVE  \/ \E rows \in 0 .. MaxRows : CreateBulkJob(j, rows)
         \/ TakeBulk(j)
         \/ \E r \in Running : r[1] = j /\ r \in RunIds /\ Advances(r)
         \/ Unmoved(j)
<1>1. ASSUME NEW i \in JobIds, NEW rows \in 0 .. MaxRows, CreateBulkJob(i, rows), i # j
      PROVE  Unmoved(j)
  BY <1>1, CreateStep DEF Unmoved
<1>2. ASSUME NEW i \in JobIds, TakeBulk(i), i # j
      PROVE  Unmoved(j)
  <2>1. PICK r \in RunIds : /\ r = <<i, queue[i].stalls>>
                            /\ \A s \in RunIds : s # r => runs'[s] = runs[s]
                            /\ UNCHANGED <<bulkJobs, logs, mails, styles>>
    BY <1>2, TakeStep
  <2>2. \A k \in 0 .. MaxStalledCount : <<j, k>> \in RunIds /\ <<j, k>> # r
    BY <1>2, <2>1 DEF RunIds
  <2> QED BY <2>1, <2>2 DEF Unmoved
<1>3. ASSUME NEW r \in RunIds, Advances(r), r[1] # j
      PROVE  Unmoved(j)
  BY <1>3, OtherJobsStay DEF Unmoved
<1>4. CASE Quiet
  <2>1. ASSUME NEW k \in 0 .. MaxStalledCount
        PROVE  runs'[<<j, k>>] \in {runs[<<j, k>>], NULL}
    <3>1. <<j, k>> \in RunIds
      BY DEF RunIds
    <3> QED BY <1>4, <3>1 DEF Quiet, Running
  <2> QED BY <1>4, <2>1 DEF Quiet, Unmoved
<1> QED BY <1>1, <1>2, <1>3, <1>4, StepKinds, AdvancesKeepSheets

-----------------------------------------------------------------------------
\* The first run of a job that is alone

\* The table, the log and the mails fit the run after each step of it.
LEMMA FirstRunStep ==
  ASSUME Base, RunsFit, NEW j \in JobIds, NEW r \in RunIds, r = <<j, 0>>,
         FirstRunFits(j, runs[r]), Advances(r)
  PROVE  FirstRunFits(j, runs[r])'
<1>0. r \in Running /\ r[1] = j
  BY AdvancesKeepSheets
<1>1. /\ runs[r].i \in Nat
      /\ runs[r].successCount \in Nat
      /\ bulkJobs[j].totalRows \in Nat
  BY <1>0, FieldTypes
<1>2. \A row \in Rows : /\ row \in Nat
                        /\ logs[j][row]["SUCCESS"] \in Nat /\ logs[j][row]["FAILED"] \in Nat
  BY BulkAssumption DEF Base, TypeOK, Rows, Statuses
<1>3. UNCHANGED logs => Logged(j, "SUCCESS")' = Logged(j, "SUCCESS")
  BY DEF Logged
\* The steps that leave the log and what the run has behind it.
<1>4. ASSUME NEW new, Moves(r, new), UNCHANGED <<logs, styles>>,
             LoggedBy(new) = LoggedBy(runs[r]), new.successCount = runs[r].successCount,
             new.template = runs[r].template \/ styles[j] = {},
             runs[r].pc \notin {"start", "emitStarted", "getSettings"}
               => new.pc \notin {"start", "emitStarted", "getSettings"},
             /\ new.pc = "start" => bulkJobs'[j].status = "PENDING"
             /\ new.pc = "emitCompleted" => bulkJobs'[j].status = "COMPLETED"
             /\ new.pc \notin {"start", "emitCompleted"} => bulkJobs'[j].status = "PROCESSING",
             bulkJobs'[j].processedCount = IF new.pc = "count" THEN new.i ELSE LoggedBy(new),
             new.pc # "count" => bulkJobs'[j].successCount = new.successCount
      PROVE  FirstRunFits(j, runs[r])'
  <2>1. runs'[r] = new
    BY <1>4, MovesOneRun
  <2>2. new.successCount = Cardinality(Logged(j, "SUCCESS"))'
    BY <1>3, <1>4 DEF FirstRunFits
  <2>3. \A row \in Rows :
          logs'[j][row]["SUCCESS"] + logs'[j][row]["FAILED"] = IF row < LoggedBy(new) THEN 1 ELSE 0
    BY <1>4 DEF FirstRunFits
  <2>4. /\ new.pc \in {"start", "emitStarted", "getSettings"} => styles'[j] = {}
        /\ styles'[j] \subseteq {new.template}
    BY <1>4 DEF FirstRunFits
  <2>5. LoggedBy(new) = LoggedBy(runs[r])'
    BY <2>1 DEF LoggedBy
  <2> QED BY <1>4, <2>1, <2>2, <2>3, <2>4, <2>5 DEF FirstRunFits
<1>5. ASSUME NEW new, Moves(r, new), SamePlace(r, new), UNCHANGED <<bulkJobs, logs, styles>>,
             new.template = runs[r].template \/ styles[j] = {},
             runs[r].pc \in {"emitStarted", "getSettings"},
             new.pc \in {"getSettings", "send", "complete"}
      PROVE  FirstRunFits(j, runs[r])'
  <2>1. LoggedBy(new) = LoggedBy(runs[r])
    BY <1>5 DEF LoggedBy, SamePlace
  <2> QED BY <1>4, <1>5, <2>1 DEF FirstRunFits, SamePlace
<1>6. CASE MarkProcessing(r)
  <2>1. PICK new, job : /\ Moves(r, new) /\ SamePlace(r, new)
                        /\ runs[r].pc = "start" /\ new.pc = "emitStarted"
                        /\ Writes(j, job) /\ SameCounts(j, job) /\ job.status = "PROCESSING"
                        /\ UNCHANGED <<logs, styles>>
    BY <1>0, <1>6, MarkProcessingStep
  <2>2. bulkJobs'[j] = job
    BY <1>0, <2>1, WritesKeepTable
  <2>3. LoggedBy(new) = LoggedBy(runs[r]) /\ styles[j] = {}
    BY <2>1 DEF LoggedBy, SamePlace, FirstRunFits
  <2> QED BY <1>4, <2>1, <2>2, <2>3 DEF FirstRunFits, SamePlace, SameCounts
<1>7. CASE EmitStarted(r)
  <2>1. PICK new : /\ Moves(r, new) /\ SamePlace(r, new)
                   /\ runs[r].pc = "emitStarted" /\ new.pc = "getSettings"
                   /\ UNCHANGED <<bulkJobs, logs, styles>>
    BY <1>7, EmitStartedStep
  <2> QED BY <1>5, <2>1 DEF FirstRunFits
<1>8. CASE ReadSettings(r)
  <2>1. PICK new : /\ Moves(r, new) /\ SamePlace(r, new)
                   /\ runs[r].pc = "getSettings" /\ new.pc = NextRow(r, 0)
                   /\ UNCHANGED <<bulkJobs, logs, styles>>
    BY <1>8, ReadSettingsStep
  <2> QED BY <1>5, <2>1 DEF FirstRunFits, NextRow
<1>9. ASSUME NEW accepted \in {0, 1}, NEW result \in Statuses, SendRow(r, accepted, result)
      PROVE  FirstRunFits(j, runs[r])'
  <2>1. PICK new : /\ Moves(r, new) /\ SamePlace(r, new) /\ new.template = runs[r].template
                   /\ runs[r].pc = "send" /\ new.pc = "log"
                   /\ Mails(j, runs[r].i, accepted, runs[r].template)
                   /\ UNCHANGED <<bulkJobs, logs>>
    BY <1>0, <1>9, SendRowStep
  <2>2. runs'[r] = new /\ runs[r].i \in Rows /\ runs[r].template \in Styles
    BY <1>0, <2>1, MovesOneRun, RowOfRun, FieldTypes
  <2>3. styles'[j] \subseteq {new.template}
    <3>1. styles'[j] \subseteq styles[j] \cup {runs[r].template}
      BY <2>1, <2>2, MailsOfOneRow DEF Base
    <3> QED BY <2>1, <3>1 DEF FirstRunFits
  <2>4. LoggedBy(new) = LoggedBy(runs[r]) /\ LoggedBy(runs[r])' = LoggedBy(runs[r])
    BY <2>1, <2>2 DEF LoggedBy, SamePlace
  <2> QED BY <1>3, <2>1, <2>2, <2>3, <2>4 DEF FirstRunFits, SamePlace
<1>10. CASE LogRow(r)
  <2>1. PICK new, i, result :
          /\ Moves(r, new) /\ new.template = runs[r].template
          /\ runs[r].pc = "log" /\ new.pc = "count" /\ i = runs[r].i /\ new.i = i
          /\ result = runs[r].result
          /\ result = "SUCCESS" => new.successCount = runs[r].successCount + 1
          /\ result = "FAILED" => new.successCount = runs[r].successCount
          /\ Logs(j, i, result)
          /\ UNCHANGED <<bulkJobs, styles>>
    BY <1>0, <1>10, LogRowStep
  <2>2. runs'[r] = new /\ i \in Rows /\ i \in Nat /\ result \in Statuses
    BY <1>0, <2>1, MovesOneRun, RowOfRun, FieldTypes
  <2>3. /\ logs'[j][i][result] = logs[j][i][result] + 1
        /\ \A other \in Rows, status \in Statuses :
             ~(other = i /\ status = result)
               => logs'[j][other][status] = logs[j][other][status]
    <3>1. /\ logs'[j][i][result] = logs[j][i][result] + 1
          /\ \A k \in JobIds, other \in Rows, status \in Statuses :
               <<k, other, status>> # <<j, i, result>>
                 => logs'[k][other][status] = logs[k][other][status]
      BY <2>1, <2>2, OneEntryMore DEF Base
    <3> QED BY <3>1
  <2>4. LoggedBy(runs[r]) = i /\ LoggedBy(new) = i + 1 /\ LoggedBy(runs[r])' = i + 1
    BY <2>1, <2>2 DEF LoggedBy
  <2>5. /\ logs[j][i]["SUCCESS"] = 0 /\ logs[j][i]["FAILED"] = 0
        /\ \A row \in Rows :
             logs[j][row]["SUCCESS"] + logs[j][row]["FAILED"] = IF row < i THEN 1 ELSE 0
    BY <1>2, <2>2, <2>4 DEF FirstRunFits
  <2>6. \A row \in Rows :
          logs'[j][row]["SUCCESS"] + logs'[j][row]["FAILED"] = IF row < i + 1 THEN 1 ELSE 0
    <3>1. logs'[j][i]["SUCCESS"] + logs'[j][i]["FAILED"] = 1
      BY <2>2, <2>3, <2>5 DEF Statuses
    <3>2. ASSUME NEW row \in Rows, row # i
          PROVE  logs'[j][row]["SUCCESS"] + logs'[j][row]["FAILED"] = IF row < i THEN 1 ELSE 0
      BY <2>3, <2>5, <3>2 DEF Statuses
    <3>3. \A row \in Rows : row # i => (row < i <=> row < i + 1)
      BY <1>2, <2>2
    <3> QED BY <1>2, <2>2, <3>1, <3>2, <3>3
  <2>7. new.successCount = Cardinality(Logged(j, "SUCCESS")')
    <3>1. runs[r].successCount = Cardinality(Logged(j, "SUCCESS"))
      BY DEF FirstRunFits
    <3>2. Logged(j, "SUCCESS")' = IF result = "SUCCESS" THEN Logged(j, "SUCCESS") \cup {i}
                                  ELSE Logged(j, "SUCCESS")
      BY <1>0, <1>10, <2>1, LogRowLogs DEF Statuses
    <3>3. IsFiniteSet(Logged(j, "SUCCESS")) /\ i \notin Logged(j, "SUCCESS")
      <4>1. i \notin Logged(j, "SUCCESS")
        BY <2>5 DEF Logged
      <4> QED BY <4>1, LoggedFinite
    <3>4. Cardinality(Logged(j, "SUCCESS") \cup {i}) = Cardinality(Logged(j, "SUCCESS")) + 1
      BY <3>3, FS_AddElement
    <3> QED BY <2>1, <2>2, <3>1, <3>2, <3>4 DEF Statuses
  <2> QED BY <2>1, <2>2, <2>4, <2>6, <2>7 DEF FirstRunFits
<1>11. CASE CountRow(r)
  <2>1. PICK new, job : /\ Moves(r, new) /\ SamePlace(r, new)
                        /\ new.template = runs[r].template
                        /\ runs[r].pc = "count" /\ new.pc = "emitRow"
                        /\ Writes(j, job) /\ job.status = bulkJobs[j].status
                        /\ job.processedCount = runs[r].i + 1
                        /\ job.successCount = runs[r].successCount
                        /\ UNCHANGED <<logs, styles>>
    BY <1>0, <1>11, CountRowStep
  <2>2. bulkJobs'[j] = job
    BY <1>0, <2>1, WritesKeepTable
  <2>3. LoggedBy(new) = LoggedBy(runs[r]) /\ LoggedBy(new) = runs[r].i + 1
    BY <2>1 DEF LoggedBy, SamePlace
  <2> QED BY <1>4, <2>1, <2>2, <2>3 DEF FirstRunFits, SamePlace
<1>12. CASE EmitRow(r)
  <2>1. PICK new : /\ Moves(r, new) /\ new.template = runs[r].template
                   /\ runs[r].pc = "emitRow" /\ new.pc = NextRow(r, runs[r].i + 1)
                   /\ new.i = runs[r].i + 1
                   /\ new.successCount = runs[r].successCount
                   /\ UNCHANGED <<bulkJobs, logs, styles>>
    BY <1>12, EmitRowStep
  <2>2. new.pc \in {"send", "complete"}
    BY <2>1 DEF NextRow
  <2>3. LoggedBy(new) = LoggedBy(runs[r])
    BY <2>1, <2>2 DEF LoggedBy
  <2> QED BY <1>4, <2>1, <2>2, <2>3 DEF FirstRunFits
<1>13. CASE MarkCompleted(r)
  <2>1. PICK new, job : /\ Moves(r, new) /\ SamePlace(r, new)
                        /\ new.template = runs[r].template
                        /\ runs[r].pc = "complete" /\ new.pc = "emitCompleted"
                        /\ Writes(j, job) /\ SameCounts(j, job) /\ job.status = "COMPLETED"
                        /\ UNCHANGED <<logs, styles>>
    BY <1>0, <1>13, MarkCompletedStep
  <2>2. bulkJobs'[j] = job
    BY <1>0, <2>1, WritesKeepTable
  <2>3. LoggedBy(new) = LoggedBy(runs[r])
    BY <2>1 DEF LoggedBy, SamePlace
  <2> QED BY <1>4, <2>1, <2>2, <2>3 DEF FirstRunFits, SamePlace, SameCounts
<1> QED
  BY <1>6, <1>7, <1>8, <1>9, <1>10, <1>11, <1>12, <1>13 DEF Advances

\* Whatever else happens, the job fits its first run.
LEMMA FirstRunsStep ==
  ASSUME Base, RunsFit, FirstRunsFit, UntouchedBeforeRun, [Next]_vars
  PROVE  FirstRunsFit'
<1> SUFFICES ASSUME NEW j \in JobIds, Alone(j)', runs'[<<j, 0>>] # NULL
             PROVE  FirstRunFits(j, runs[<<j, 0>>])'
  BY DEF FirstRunsFit
<1>1. /\ Alone(j)
      /\ \A r \in Running : r[1] = j => r = <<j, 0>>
      /\ 0 \in 0 .. MaxStalledCount /\ <<j, 0>> \in RunIds
      /\ queue[j].state \in {"waiting", "active", "completed"} => queue[j].stalls = 0
  BY AloneStaysAlone, AloneHasOneRun
<1>2. PICK r : r = <<j, 0>>
  OBVIOUS
<1>3. ASSUME NEW rows \in 0 .. MaxRows, CreateBulkJob(j, rows)
      PROVE  FALSE
  <2>1. r \notin Running /\ UNCHANGED runs
    BY <1>2, <1>3, CreateStep
  <2> QED BY <1>1, <1>2, <2>1 DEF Running
<1>4. CASE TakeBulk(j)
  <2>1. queue[j].state = "waiting"
    BY <1>4 DEF TakeBulk
  <2>2. queue[j].stalls = 0
    BY <1>1, <2>1
  <2>3. runs'[r] = NewRun /\ UNCHANGED <<bulkJobs, logs, styles>> /\ bulkJobs[j] # NULL
    BY <1>2, <1>4, <2>2, TakeStep
  <2>4. Untouched(j)
    BY <2>1, <2>2 DEF UntouchedBeforeRun
  <2>5. Cardinality(Logged(j, "SUCCESS")') = 0
    <3>1. Logged(j, "SUCCESS")' = {}
      BY <2>3, <2>4 DEF Logged, Untouched, Statuses
    <3> QED BY <3>1, FS_EmptySet
  <2>6. /\ NewRun.pc = "start" /\ NewRun.i = 0 /\ NewRun.successCount = 0
        /\ LoggedBy(NewRun) = 0 /\ LoggedBy(runs[r])' = 0
    BY <2>3 DEF NewRun, LoggedBy
  <2>7. \A row \in Rows :
          /\ ~(row < 0)
          /\ logs'[j][row]["SUCCESS"] = 0 /\ logs'[j][row]["FAILED"] = 0
    BY <2>3, <2>4, BulkAssumption DEF Untouched, Statuses, Rows
  <2>8. \A row \in Rows :
          logs'[j][row]["SUCCESS"] + logs'[j][row]["FAILED"] = IF row < 0 THEN 1 ELSE 0
    BY <2>7
  <2> QED BY <1>2, <2>3, <2>4, <2>5, <2>6, <2>8 DEF FirstRunFits, Untouched
<1>5. ASSUME NEW s \in Running, s[1] = j, s \in RunIds, Advances(s)
      PROVE  FirstRunFits(j, runs[<<j, 0>>])'
  <2>1. s = r
    BY <1>1, <1>2, <1>5
  <2>2. FirstRunFits(j, runs[r])
    BY <1>1, <1>2, <1>5, <2>1 DEF FirstRunsFit, Running
  <2> QED BY <1>1, <1>2, <1>5, <2>1, <2>2, FirstRunStep
<1>6. CASE /\ bulkJobs'[j] = bulkJobs[j] /\ logs'[j] = logs[j] /\ styles'[j] = styles[j]
           /\ \A k \in 0 .. MaxStalledCount : runs'[<<j, k>>] \in {runs[<<j, k>>], NULL}
  <2>1. runs'[r] = runs[r] /\ runs[r] # NULL
    BY <1>1, <1>2, <1>6
  <2>2. FirstRunFits(j, runs[r])
    BY <1>1, <1>2, <2>1 DEF FirstRunsFit
  <2>3. Logged(j, "SUCCESS")' = Logged(j, "SUCCESS") /\ LoggedBy(runs[r])' = LoggedBy(runs[r])
    BY <1>6, <2>1 DEF Logged, LoggedBy
  <2> QED BY <1>2, <1>6, <2>1, <2>2, <2>3 DEF FirstRunFits
<1> QED BY <1>3, <1>4, <1>5, <1>6, JobCases DEF Unmoved

\* Nothing is done to a sheet before its first run.
LEMMA UntouchedStep ==
  ASSUME Base, RunsFit, UntouchedBeforeRun, [Next]_vars
  PROVE  UntouchedBeforeRun'
<1> SUFFICES ASSUME NEW j \in JobIds,
                    queue'[j].state \in {"none", "waiting"}, queue'[j].stalls = 0
             PROVE  Untouched(j)'
  BY DEF UntouchedBeforeRun
<1>1. queue[j].state \in {"none", "waiting"} /\ queue[j].stalls = 0
  BY AloneStaysAlone
<1>2. Untouched(j)
  BY <1>1 DEF UntouchedBeforeRun
<1>3. ASSUME NEW rows \in 0 .. MaxRows, CreateBulkJob(j, rows)
      PROVE  Untouched(j)'
  BY <1>2, <1>3, CreateStep DEF Untouched
<1>4. ASSUME TakeBulk(j)
      PROVE  FALSE
  BY <1>4, TakeStep DEF Base, TypeOK, QueueJob
<1>5. ASSUME NEW s \in Running, s[1] = j
      PROVE  FALSE
  <2>1. s[2] \in 0 .. MaxStalledCount /\ runs[<<j, s[2]>>] # NULL
    BY <1>5, JobOfRun DEF Running
  <2>2. s[2] < 0
    BY <1>1, <2>1 DEF Base, QueueFits
  <2> QED BY <2>1, <2>2
<1>6. CASE bulkJobs'[j] = bulkJobs[j] /\ logs'[j] = logs[j] /\ styles'[j] = styles[j]
  BY <1>2, <1>6 DEF Untouched
<1> QED BY <1>3, <1>4, <1>5, <1>6, JobCases DEF Unmoved

\* What a job that never stalled ends with.
LEMMA FinishedStep ==
  ASSUME Base, RunsFit, FirstRunsFit, FinishedSheets, [Next]_vars
  PROVE  FinishedSheets'
<1> SUFFICES ASSUME NEW j \in JobIds, queue'[j].state = "completed", queue'[j].stalls = 0
             PROVE  (/\ bulkJobs[j].status = "COMPLETED"
                     /\ bulkJobs[j].processedCount = bulkJobs[j].totalRows
                     /\ \A row \in RowsOf(j) : logs[j][row]["SUCCESS"] + logs[j][row]["FAILED"] = 1
                     /\ bulkJobs[j].successCount = Cardinality(Logged(j, "SUCCESS")))'
  BY DEF FinishedSheets
<1>1. queue[j].stalls = 0
  BY AloneStaysAlone
<1>2. CASE queue[j].state = "completed"
  <2>1. /\ bulkJobs[j].status = "COMPLETED"
        /\ bulkJobs[j].processedCount = bulkJobs[j].totalRows
        /\ \A row \in RowsOf(j) : logs[j][row]["SUCCESS"] + logs[j][row]["FAILED"] = 1
        /\ bulkJobs[j].successCount = Cardinality(Logged(j, "SUCCESS"))
    BY <1>1, <1>2 DEF FinishedSheets
  <2>2. bulkJobs[j] # NULL
    BY <1>2 DEF Base, QueueFits
  <2>3. ASSUME NEW s \in Running, s[1] = j
        PROVE  FALSE
    <3>1. s[2] \in 0 .. MaxStalledCount /\ runs[<<j, s[2]>>] # NULL
      BY <2>3, JobOfRun DEF Running
    <3>2. s[2] < 0
      BY <1>1, <1>2, <3>1 DEF Base, QueueFits
    <3> QED BY <3>1, <3>2
  <2>4. ~TakeBulk(j) /\ \A rows \in 0 .. MaxRows : ~CreateBulkJob(j, rows)
    BY <1>2, <2>2 DEF TakeBulk, CreateBulkJob
  <2>5. bulkJobs'[j] = bulkJobs[j] /\ logs'[j] = logs[j]
    BY <2>3, <2>4, JobCases DEF Unmoved
  <2>6. RowsOf(j)' = RowsOf(j) /\ Logged(j, "SUCCESS")' = Logged(j, "SUCCESS")
    BY <2>5 DEF RowsOf, Logged
  <2> QED BY <2>1, <2>5, <2>6
<1>3. ASSUME NEW r \in RunIds, r[1] = j, Current(r), EmitCompleted(r)
      PROVE  (/\ bulkJobs[j].status = "COMPLETED"
              /\ bulkJobs[j].processedCount = bulkJobs[j].totalRows
              /\ \A row \in RowsOf(j) : logs[j][row]["SUCCESS"] + logs[j][row]["FAILED"] = 1
              /\ bulkJobs[j].successCount = Cardinality(Logged(j, "SUCCESS")))'
  <2>1. /\ r \in Running /\ runs[r].pc = "emitCompleted"
        /\ UNCHANGED <<bulkJobs, logs>>
    BY <1>3, EmitCompletedStep DEF Ends
  <2>2. r = <<j, 0>> /\ Alone(j)
    <3>1. r[2] = 0
      BY <1>1, <1>3 DEF Current
    <3>2. Alone(j)
      BY <1>1, BulkAssumption DEF Alone, LeastOf
    <3> QED BY <1>3, <3>1, <3>2, RunNames
  <2>3. FirstRunFits(j, runs[r])
    BY <2>1, <2>2 DEF FirstRunsFit, Running
  <2>4. LoggedBy(runs[r]) = bulkJobs[j].totalRows
    BY <1>3, <2>1 DEF RunsFit, RunFits, LoggedBy
  <2>5. \A row \in RowsOf(j) : row \in Rows /\ row < bulkJobs[j].totalRows
    <3>1. bulkJobs[j].totalRows \in 0 .. MaxRows
      BY <1>3, <2>1, FieldTypes
    <3> QED BY <3>1, BulkAssumption DEF RowsOf, Rows
  <2>6. RowsOf(j)' = RowsOf(j) /\ Logged(j, "SUCCESS")' = Logged(j, "SUCCESS")
    BY <2>1 DEF RowsOf, Logged
  <2> QED BY <2>1, <2>3, <2>4, <2>5, <2>6 DEF FirstRunFits
<1> QED BY <1>2, <1>3, AloneStaysAlone

\* One template is all a job that is alone is written with.
LEMMA OneStyleStep ==
  ASSUME Base, RunsFit, FirstRunsFit, FirstRunsFit', OneStyle, [Next]_vars
  PROVE  OneStyle'
<1> SUFFICES ASSUME NEW j \in JobIds, Alone(j)'
             PROVE  \E template \in Styles : styles'[j] \subseteq {template}
  BY DEF OneStyle
<1>1. Alone(j)
  BY AloneStaysAlone
<1>2. CASE styles'[j] = styles[j]
  BY <1>1, <1>2 DEF OneStyle
<1>3. ASSUME NEW s \in Running, s[1] = j, s \in RunIds, Advances(s)
      PROVE  \E template \in Styles : styles'[j] \subseteq {template}
  <2>1. s = <<j, 0>>
    BY <1>1, <1>3, AloneHasOneRun
  <2>2. PICK new : Moves(s, new)
    BY <1>3, AdvancedRunFits
  <2>3. runs'[s] = new /\ new # NULL /\ new \in Run
    BY <2>2, MovesOneRun DEF Moves
  <2>4. FirstRunFits(j, runs[s])'
    BY <2>1, <2>3 DEF FirstRunsFit
  <2>5. styles'[j] \subseteq {new.template} /\ new.template \in Styles
    BY <2>3, <2>4 DEF FirstRunFits, Run
  <2> QED BY <2>5
<1> QED BY <1>2, <1>3, JobCases, CreateStep, TakeStep DEF Unmoved

-----------------------------------------------------------------------------
\* The invariant and what a run without a stall ends with

\* The initial states have no runs, no log and no mails.
LEMMA AloneInit ==
  ASSUME Init
  PROVE  AloneInv
<1>1. /\ \A j \in JobIds : queue[j].state = "none" /\ bulkJobs[j] = NULL /\ styles[j] = {}
      /\ \A j \in JobIds, row \in Rows, status \in Statuses : logs[j][row][status] = 0
      /\ NULL \in Styles
  BY DEF Init, Styles
<1>2. \A j \in JobIds : 0 \in 0 .. MaxStalledCount /\ <<j, 0>> \in RunIds
  BY BulkAssumption DEF RunIds
<1>3. \A j \in JobIds : runs[<<j, 0>>] = NULL
  BY <1>2 DEF Init
<1> QED BY <1>1, <1>3 DEF AloneInv, FirstRunsFit, UntouchedBeforeRun, Untouched, FinishedSheets,
                          OneStyle

\* Every step keeps the invariant of the jobs that never stalled.
LEMMA AloneStep ==
  ASSUME BulkInv, AloneInv, [Next]_vars
  PROVE  AloneInv'
<1>1. Base /\ RunsFit
  BY DEF BulkInv
<1> QED BY <1>1, FirstRunsStep, UntouchedStep, FinishedStep, OneStyleStep DEF AloneInv

\* What is known of the runs of all jobs, and more of a job that has only one.
THEOREM AloneInvariant == Spec => [](BulkInv /\ AloneInv)
<1>1. Init => AloneInv
  BY AloneInit
<1>2. BulkInv /\ AloneInv /\ [Next]_vars => AloneInv'
  BY AloneStep
<1> QED BY <1>1, <1>2, BulkInvariant, PTL DEF Spec

\* A job the queue has completed without a stall is completed in the table, with one log
\* entry per row and counters that add up its entries.
THEOREM FinishedSheetsAddUp == Spec => []FinishedSheets
<1>1. AloneInv => FinishedSheets
  BY DEF AloneInv
<1> QED BY <1>1, AloneInvariant, PTL

\* The rows of a sheet that ran without a stall are written with one template, however
\* often staff switch it meanwhile: process() reads it once.
THEOREM SheetHasOneTemplate == Spec => []OneTemplatePerSheet
<1>1. BulkInv /\ AloneInv => OneTemplatePerSheet
  <2> SUFFICES ASSUME BulkInv, AloneInv, NEW j \in JobIds, queue[j].stalls = 0
               PROVE  Cardinality(styles[j]) <= 1
    BY DEF OneTemplatePerSheet
  <2>1. Alone(j)
    BY BulkAssumption DEF Alone, LeastOf
  <2>2. PICK template \in Styles : styles[j] \subseteq {template}
    BY <2>1 DEF AloneInv, OneStyle
  <2>3. IsFiniteSet({template}) /\ Cardinality({template}) = 1
    BY FS_Singleton
  <2> QED BY <2>2, <2>3, FS_Subset
<1> QED BY <1>1, AloneInvariant, PTL

-----------------------------------------------------------------------------
\* Progress

\* A step of the only run of a job moves the job's status and progress forward.
LEMMA FirstRunMovesOn ==
  ASSUME Base, RunsFit, NEW j \in JobIds, NEW r \in RunIds, r = <<j, 0>>,
         FirstRunFits(j, runs[r]), Advances(r)
  PROVE  /\ Rank(bulkJobs[j]) <= Rank(bulkJobs'[j])
         /\ bulkJobs[j].processedCount <= bulkJobs'[j].processedCount
<1>0. r \in Running /\ r[1] = j
  BY AdvancesKeepSheets
<1>1. /\ runs[r].i \in Nat
      /\ bulkJobs[j].processedCount \in Nat
      /\ bulkJobs[j].status \in {"PENDING", "PROCESSING", "COMPLETED"}
  BY <1>0, FieldTypes DEF Base, TypeOK, BulkJob
<1>2. ASSUME UNCHANGED bulkJobs
      PROVE  /\ Rank(bulkJobs[j]) <= Rank(bulkJobs'[j])
             /\ bulkJobs[j].processedCount <= bulkJobs'[j].processedCount
  BY <1>1, <1>2 DEF Rank
<1>3. ASSUME NEW job, Writes(j, job), Rank(bulkJobs[j]) <= Rank(job),
             bulkJobs[j].processedCount <= job.processedCount
      PROVE  /\ Rank(bulkJobs[j]) <= Rank(bulkJobs'[j])
             /\ bulkJobs[j].processedCount <= bulkJobs'[j].processedCount
  BY <1>0, <1>3, WritesKeepTable
<1>4. CASE MarkProcessing(r)
  <2>1. PICK job : /\ runs[r].pc = "start"
                   /\ Writes(j, job) /\ SameCounts(j, job) /\ job.status = "PROCESSING"
    BY <1>0, <1>4, MarkProcessingStep
  <2>2. bulkJobs[j].status = "PENDING" /\ job.processedCount = bulkJobs[j].processedCount
    BY <2>1 DEF FirstRunFits, SameCounts
  <2>3. Rank(bulkJobs[j]) <= Rank(job)
    BY <2>1, <2>2 DEF Rank
  <2> QED BY <1>1, <1>3, <2>1, <2>2, <2>3
<1>5. CASE CountRow(r)
  <2>1. PICK job : /\ runs[r].pc = "count"
                   /\ Writes(j, job) /\ job.status = bulkJobs[j].status
                   /\ job.processedCount = runs[r].i + 1
    BY <1>0, <1>5, CountRowStep
  <2>2. bulkJobs[j].processedCount = runs[r].i
    BY <2>1 DEF FirstRunFits
  <2>3. Rank(bulkJobs[j]) <= Rank(job)
    BY <1>1, <2>1 DEF Rank
  <2> QED BY <1>1, <1>3, <2>1, <2>2, <2>3
<1>6. CASE MarkCompleted(r)
  <2>1. PICK job : /\ Writes(j, job) /\ SameCounts(j, job) /\ job.status = "COMPLETED"
    BY <1>0, <1>6, MarkCompletedStep
  <2>2. job.processedCount = bulkJobs[j].processedCount
    BY <2>1 DEF SameCounts
  <2>3. Rank(bulkJobs[j]) <= Rank(job)
    BY <1>1, <2>1 DEF Rank
  <2> QED BY <1>1, <1>3, <2>1, <2>2, <2>3
<1> QED
  BY <1>2, <1>4, <1>5, <1>6, EmitStartedStep, ReadSettingsStep, SendRowStep, LogRowStep,
     EmitRowStep DEF Advances

\* The status and the progress of a job go back only if the job has stalled.
THEOREM ProgressGoesForward == Spec => ProgressOnlyForward
<1>1. ASSUME BulkInv, AloneInv, [Next]_vars, NEW j \in Uploaded, queue[j].stalls = 0
      PROVE  /\ Rank(bulkJobs[j]) <= Rank(bulkJobs'[j])
             /\ bulkJobs[j].processedCount <= bulkJobs'[j].processedCount
  <2>1. /\ j \in JobIds /\ bulkJobs[j] # NULL
        /\ Base /\ RunsFit
    BY <1>1 DEF Uploaded, BulkInv
  <2>2. Alone(j)
    BY <1>1, BulkAssumption DEF Alone, LeastOf
  <2>3. CASE bulkJobs'[j] = bulkJobs[j]
    <3>1. bulkJobs[j] \in BulkJob
      BY <2>1 DEF Base, TypeOK
    <3>2. /\ bulkJobs[j].processedCount \in Nat
          /\ bulkJobs[j].status \in {"PENDING", "PROCESSING", "COMPLETED"}
      BY <3>1 DEF BulkJob
    <3> QED BY <2>3, <3>2 DEF Rank
  <2>4. ASSUME NEW r \in Running, r[1] = j, r \in RunIds, Advances(r)
        PROVE  /\ Rank(bulkJobs[j]) <= Rank(bulkJobs'[j])
               /\ bulkJobs[j].processedCount <= bulkJobs'[j].processedCount
    <3>1. r = <<j, 0>>
      BY <2>1, <2>2, <2>4, AloneHasOneRun
    <3>2. FirstRunFits(j, runs[r])
      BY <1>1, <2>1, <2>2, <2>4, <3>1 DEF AloneInv, FirstRunsFit, Running
    <3> QED BY <2>1, <2>4, <3>1, <3>2, FirstRunMovesOn
  <2>5. \A rows \in 0 .. MaxRows : ~CreateBulkJob(j, rows)
    BY <2>1 DEF CreateBulkJob
  <2>6. TakeBulk(j) => bulkJobs'[j] = bulkJobs[j]
    BY <2>1, TakeStep
  <2> QED BY <1>1, <2>1, <2>3, <2>4, <2>5, <2>6, JobCases DEF Unmoved
<1>2. BulkInv /\ AloneInv /\ [Next]_vars
        => [\A j \in Uploaded :
              queue[j].stalls = 0 =>
                /\ Rank(bulkJobs[j]) <= Rank(bulkJobs'[j])
                /\ bulkJobs[j].processedCount <= bulkJobs'[j].processedCount]_vars
  BY <1>1
<1> QED BY <1>2, AloneInvariant, PTL DEF Spec, ProgressOnlyForward

-----------------------------------------------------------------------------
\* The promise of module Sheet

AllSheets == [j \in JobIds |-> SheetOf(j)]

\* Sheet j becomes `new`, and the others stay as they are.
BecomesAt(j, new) == AllSheets' = [AllSheets EXCEPT ![j] = new]

\* A sheet that is there is a record of the right shape.
LEMMA SheetType ==
  ASSUME Base, NEW j \in JobIds, bulkJobs[j] # NULL
  PROVE  /\ AllSheets[j] = SheetOf(j)
         /\ SheetOf(j) \in Sheets /\ SheetOf(j) # NULL
         /\ SheetOf(j).status = bulkJobs[j].status
         /\ SheetOf(j).rows = bulkJobs[j].totalRows
         /\ SheetOf(j).settled = LoggedRows(j)
         /\ SheetOf(j).mails = mails[j]
         /\ SheetOf(j).retries = LeastOf(queue[j].stalls, MaxStalledCount)
<1>1. /\ bulkJobs[j].status \in {"PENDING", "PROCESSING", "COMPLETED"}
      /\ bulkJobs[j].totalRows \in 0 .. MaxRows
  <2>1. bulkJobs[j] \in BulkJob
    BY DEF Base, TypeOK
  <2> QED BY <2>1 DEF BulkJob
<1>2. mails[j] \in [Rows -> Nat]
  BY DEF Base, TypeOK
<1>3. LoggedRows(j) \subseteq Rows
  BY DEF LoggedRows, Logged
<1>4. LeastOf(queue[j].stalls, MaxStalledCount) \in 0 .. MaxStalledCount
  <2>1. queue[j] \in QueueJob
    BY DEF Base, TypeOK
  <2>2. queue[j].stalls \in Nat /\ MaxStalledCount \in Nat
    BY <2>1, BulkAssumption DEF QueueJob
  <2> QED BY <2>2 DEF LeastOf
<1>5. SheetOf(j) = [status |-> bulkJobs[j].status, rows |-> bulkJobs[j].totalRows,
                    settled |-> LoggedRows(j), mails |-> mails[j],
                    retries |-> LeastOf(queue[j].stalls, MaxStalledCount)]
  BY DEF SheetOf
<1>6. SheetOf(j) \in Sheets
  BY <1>1, <1>2, <1>3, <1>4, <1>5 DEF Sheets
<1> QED BY <1>5, <1>6, NullIsNoSheet DEF AllSheets

\* A sheet stays as it is where nothing it is made of changes.
LEMMA SheetStays ==
  ASSUME NEW j \in JobIds,
         bulkJobs'[j] = NULL <=> bulkJobs[j] = NULL,
         bulkJobs'[j].status = bulkJobs[j].status,
         bulkJobs'[j].totalRows = bulkJobs[j].totalRows,
         LoggedRows(j)' = LoggedRows(j), mails'[j] = mails[j],
         queue'[j].stalls = queue[j].stalls
  PROVE  SheetOf(j)' = SheetOf(j)
BY DEF SheetOf, LeastOf

\* When the other sheets stay, the step is one of this sheet.
LEMMA OneSheetMoves ==
  ASSUME NEW j \in JobIds, \A i \in JobIds : i # j => SheetOf(i)' = SheetOf(i)
  PROVE  BecomesAt(j, SheetOf(j)')
BY DEF BecomesAt, AllSheets

\* When no sheet changes, the step is one the promise does not see.
LEMMA AllSheetsStay ==
  ASSUME \A i \in JobIds : SheetOf(i)' = SheetOf(i)
  PROVE  AllSheets' = AllSheets
BY DEF AllSheets

\* The actions of module Sheet, in the terms of this module.
LEMMA PromisedUpload ==
  ASSUME NEW j \in JobIds, AllSheets[j] = NULL,
         NEW rows \in 0 .. MaxRows, BecomesAt(j, Promise!New(rows))
  PROVE  Promise!Upload(j)
BY DEF Promise!Upload, Promise!Become, BecomesAt, AllSheets

\* A first attempt, or another one, begins.
LEMMA PromisedBegin ==
  ASSUME NEW j \in JobIds,
         AllSheets[j].status = "PENDING" \/ AllSheets[j].retries > 0,
         BecomesAt(j, [AllSheets[j] EXCEPT !.status = "PROCESSING"])
  PROVE  Promise!Begin(j)
BY DEF Promise!Begin, Promise!Become, BecomesAt, AllSheets

\* Module Sheet counts as this one does.
LEMMA SameCardinality == \A S : Promise!Cardinality(S) = Cardinality(S)
BY DEF Promise!Cardinality, Cardinality

\* A row is mailed.
LEMMA PromisedMail ==
  ASSUME NEW j \in JobIds, NEW row \in Rows,
         AllSheets[j].status # "PENDING",
         row < AllSheets[j].rows,
         row <= Cardinality(AllSheets[j].settled),
         AllSheets[j].mails[row] <= AllSheets[j].retries,
         BecomesAt(j, [AllSheets[j] EXCEPT !.mails[row] = AllSheets[j].mails[row] + 1])
  PROVE  Promise!Mail(j, row)
BY SameCardinality DEF Promise!Mail, Promise!Become, BecomesAt, AllSheets

\* The next row is settled.
LEMMA PromisedSettle ==
  ASSUME NEW j \in JobIds, NEW next, next = Cardinality(AllSheets[j].settled),
         AllSheets[j].status # "PENDING",
         next < AllSheets[j].rows,
         BecomesAt(j, [AllSheets[j] EXCEPT !.settled = AllSheets[j].settled \cup {next}])
  PROVE  Promise!Settle(j)
BY SameCardinality DEF Promise!Settle, Promise!Become, BecomesAt, AllSheets

\* The last row being settled, the sheet is completed.
LEMMA PromisedComplete ==
  ASSUME NEW j \in JobIds,
         AllSheets[j].status = "PROCESSING",
         AllSheets[j].settled = 0 .. (AllSheets[j].rows - 1),
         BecomesAt(j, [AllSheets[j] EXCEPT !.status = "COMPLETED"])
  PROVE  Promise!Complete(j)
BY DEF Promise!Complete, Promise!Become, BecomesAt, AllSheets

\* Another attempt is granted.
LEMMA PromisedRetry ==
  ASSUME NEW j \in JobIds,
         AllSheets[j].retries < MaxStalledCount,
         BecomesAt(j, [AllSheets[j] EXCEPT !.retries = AllSheets[j].retries + 1])
  PROVE  Promise!Retry(j)
BY DEF Promise!Retry, Promise!Become, BecomesAt, AllSheets

\* A step that is an action of the promise, or none it sees, is a step of the promise.
Promised(j) ==
  \/ Promise!Upload(j)
  \/ /\ AllSheets[j] # NULL
     /\ \/ Promise!Begin(j)
        \/ \E row \in Rows : Promise!Mail(j, row)
        \/ Promise!Settle(j)
        \/ Promise!Complete(j)
        \/ Promise!Retry(j)

\* A step that is one of the promise's actions, or is none it sees, is one it allows.
LEMMA PromisedStep ==
  ASSUME (\E j \in JobIds : Promised(j)) \/ AllSheets' = AllSheets
  PROVE  Promise!Next \/ AllSheets' = AllSheets
BY DEF Promised, Promise!Next, AllSheets, Rows

-----------------------------------------------------------------------------
\* Every step is a step of the promise

\* An upload.
LEMMA UploadIsPromised ==
  ASSUME BulkInv, NEW j \in JobIds, NEW rows \in 0 .. MaxRows, CreateBulkJob(j, rows)
  PROVE  Promised(j)
<1>1. /\ Base /\ SendsCounted /\ LogsInOrder
      /\ bulkJobs[j] = NULL /\ bulkJobs'[j] # NULL
      /\ bulkJobs'[j].status = "PENDING" /\ bulkJobs'[j].totalRows = rows
      /\ \A i \in JobIds : i # j => bulkJobs'[i] = bulkJobs[i]
      /\ UNCHANGED <<logs, queue, mails>>
  BY CreateStep DEF BulkInv
<1>2. queue[j].state = "none" /\ queue[j].stalls = 0
  BY <1>1 DEF Base, QueueFits
<1>3. mails[j] = [row \in 0 .. (MaxRows - 1) |-> 0]
  <2>1. ASSUME NEW row \in Rows
        PROVE  mails[j][row] = 0
    <3>1. mails[j][row] + Cardinality(MayMail(j, row)) <= 0
      BY <1>1, <1>2 DEF SendsCounted, Started
    <3>2. Cardinality(MayMail(j, row)) \in Nat
      BY StallsFinite DEF MayMail
    <3>3. mails[j][row] \in Nat
      BY <1>1 DEF Base, TypeOK
    <3> QED BY <3>1, <3>2, <3>3
  <2>2. mails[j] \in [Rows -> Nat]
    BY <1>1 DEF Base, TypeOK
  <2> QED BY <2>1, <2>2 DEF Rows
<1>4. LoggedRows(j)' = {}
  <2>1. LoggedRows(j) = {}
    BY <1>1 DEF LogsInOrder
  <2> QED BY <1>1, <2>1 DEF LoggedRows, Logged
<1>5. SheetOf(j)' = Promise!New(rows)
  <2>1. LeastOf(queue[j].stalls, MaxStalledCount) = 0
    BY <1>2, BulkAssumption DEF LeastOf
  <2>2. LeastOf(queue[j].stalls, MaxStalledCount)' = 0
    BY <1>1, <2>1 DEF LeastOf
  <2> QED BY <1>1, <1>3, <1>4, <2>2 DEF SheetOf, Promise!New
<1>6. \A i \in JobIds : i # j => SheetOf(i)' = SheetOf(i)
  BY <1>1 DEF SheetOf, LoggedRows, Logged
<1>7. AllSheets[j] = NULL
  <2>1. AllSheets[j] = SheetOf(j)
    BY DEF AllSheets
  <2> QED BY <1>1, <2>1 DEF SheetOf
<1> QED BY <1>5, <1>6, <1>7, OneSheetMoves, PromisedUpload DEF Promised

\* A sheet with one field changed, written out.
LEMMA ChangedSheets ==
  ASSUME NEW j \in JobIds, bulkJobs[j] # NULL
  PROVE  /\ \A status : [AllSheets[j] EXCEPT !.status = status]
                = [status |-> status, rows |-> bulkJobs[j].totalRows,
                   settled |-> LoggedRows(j), mails |-> mails[j],
                   retries |-> LeastOf(queue[j].stalls, MaxStalledCount)]
         /\ \A settled : [AllSheets[j] EXCEPT !.settled = settled]
                = [status |-> bulkJobs[j].status, rows |-> bulkJobs[j].totalRows,
                   settled |-> settled, mails |-> mails[j],
                   retries |-> LeastOf(queue[j].stalls, MaxStalledCount)]
         /\ \A sent : [AllSheets[j] EXCEPT !.mails = sent]
                = [status |-> bulkJobs[j].status, rows |-> bulkJobs[j].totalRows,
                   settled |-> LoggedRows(j), mails |-> sent,
                   retries |-> LeastOf(queue[j].stalls, MaxStalledCount)]
         /\ \A retries : [AllSheets[j] EXCEPT !.retries = retries]
                = [status |-> bulkJobs[j].status, rows |-> bulkJobs[j].totalRows,
                   settled |-> LoggedRows(j), mails |-> mails[j], retries |-> retries]
<1>1. AllSheets[j] = SheetOf(j)
  BY DEF AllSheets
<1>2. SheetOf(j) = [status |-> bulkJobs[j].status, rows |-> bulkJobs[j].totalRows,
                    settled |-> LoggedRows(j), mails |-> mails[j],
                    retries |-> LeastOf(queue[j].stalls, MaxStalledCount)]
  BY DEF SheetOf
<1> QED BY <1>1, <1>2

\* A sheet after a step that leaves the others, written out.
LEMMA NextSheet ==
  ASSUME NEW j \in JobIds, bulkJobs'[j] # NULL,
         \A i \in JobIds : i # j => SheetOf(i)' = SheetOf(i)
  PROVE  BecomesAt(j, [status |-> bulkJobs'[j].status, rows |-> bulkJobs'[j].totalRows,
                       settled |-> LoggedRows(j)', mails |-> mails'[j],
                       retries |-> LeastOf(queue'[j].stalls, MaxStalledCount)])
<1>1. SheetOf(j)' = [status |-> bulkJobs'[j].status, rows |-> bulkJobs'[j].totalRows,
                     settled |-> LoggedRows(j)', mails |-> mails'[j],
                     retries |-> LeastOf(queue'[j].stalls, MaxStalledCount)]
  BY DEF SheetOf, LeastOf
<1> QED BY <1>1, OneSheetMoves

\* What every step of a run leaves alone.
LEMMA RunsKeepOtherSheets ==
  ASSUME Base, RunsFit, NEW r \in RunIds, Advances(r), UNCHANGED queue
  PROVE  /\ r \in Running /\ r[1] \in JobIds /\ bulkJobs[r[1]] # NULL /\ bulkJobs'[r[1]] # NULL
         /\ bulkJobs'[r[1]].totalRows = bulkJobs[r[1]].totalRows
         /\ \A i \in JobIds : i # r[1] => SheetOf(i)' = SheetOf(i)
<1>1. r \in Running /\ r[1] \in JobIds /\ bulkJobs[r[1]] # NULL
  BY AdvancesKeepSheets, JobOfRun
<1>2. ASSUME NEW i \in JobIds, i # r[1]
      PROVE  SheetOf(i)' = SheetOf(i)
  <2>1. bulkJobs'[i] = bulkJobs[i] /\ logs'[i] = logs[i] /\ mails'[i] = mails[i]
    BY <1>2, OtherJobsStay
  <2>2. LoggedRows(i)' = LoggedRows(i)
    BY <2>1 DEF LoggedRows, Logged
  <2> QED BY <2>1, <2>2, SheetStays
<1> QED BY <1>1, <1>2, AdvancesKeepSheets

\* A step of a run that writes the status of its sheet, and nothing else the promise sees.
LEMMA StatusMoves ==
  ASSUME Base, RunsFit, NEW r \in RunIds, Advances(r), UNCHANGED <<logs, mails, queue>>
  PROVE  /\ BecomesAt(r[1], [AllSheets[r[1]] EXCEPT !.status = bulkJobs'[r[1]].status])
         /\ bulkJobs'[r[1]].status = bulkJobs[r[1]].status => AllSheets' = AllSheets
<1>1. PICK j \in JobIds : j = r[1]
  BY RunNames
<1>2. /\ bulkJobs[j] # NULL /\ bulkJobs'[j] # NULL
      /\ bulkJobs'[j].totalRows = bulkJobs[j].totalRows
      /\ \A i \in JobIds : i # j => SheetOf(i)' = SheetOf(i)
  BY <1>1, RunsKeepOtherSheets
<1>3. LoggedRows(j)' = LoggedRows(j)
  BY DEF LoggedRows, Logged
<1>4. BecomesAt(j, [AllSheets[j] EXCEPT !.status = bulkJobs'[j].status])
  <2>1. PICK status : status = bulkJobs'[j].status
    OBVIOUS
  <2>2. BecomesAt(j, [status |-> status, rows |-> bulkJobs[j].totalRows,
                      settled |-> LoggedRows(j), mails |-> mails[j],
                      retries |-> LeastOf(queue[j].stalls, MaxStalledCount)])
    BY <1>2, <1>3, <2>1, NextSheet
  <2>3. BecomesAt(j, [AllSheets[j] EXCEPT !.status = status])
    BY <1>2, <2>2, ChangedSheets
  <2> QED BY <2>1, <2>3
<1>5. bulkJobs'[j].status = bulkJobs[j].status => AllSheets' = AllSheets
  BY <1>2, <1>3, SheetStays, AllSheetsStay
<1> QED BY <1>1, <1>4, <1>5

\* The first run begins a sheet; another run begins it again.
LEMMA BeginIsPromised ==
  ASSUME BulkInv, AloneInv, NEW r \in RunIds, MarkProcessing(r)
  PROVE  Promised(r[1])
<1>1. PICK j \in JobIds : j = r[1]
  BY RunNames
<1>2. Base /\ RunsFit /\ FirstRunsFit
  BY DEF BulkInv, AloneInv
<1>3. Advances(r)
  BY DEF Advances
<1>4. PICK job : /\ r \in Running /\ runs[r].pc = "start"
                 /\ Writes(j, job) /\ job.status = "PROCESSING"
                 /\ UNCHANGED <<logs, mails, queue>>
  BY <1>1, <1>2, MarkProcessingStep DEF Moves
<1>5. bulkJobs'[j].status = "PROCESSING"
  BY <1>1, <1>2, <1>4, WritesKeepTable
<1>6. BecomesAt(j, [AllSheets[j] EXCEPT !.status = "PROCESSING"])
  BY <1>1, <1>2, <1>3, <1>4, <1>5, StatusMoves
<1>7. bulkJobs[j] # NULL /\ queue[j] \in QueueJob
  BY <1>1, <1>2, <1>4, JobOfRun
<1>8. AllSheets[j].status = "PENDING" \/ AllSheets[j].retries > 0
  <2>1. CASE Alone(j)
    <3>1. r = <<j, 0>>
      BY <1>1, <1>2, <1>4, <2>1, AloneHasOneRun
    <3>2. bulkJobs[j].status = "PENDING"
      BY <1>2, <1>4, <2>1, <3>1 DEF FirstRunsFit, FirstRunFits, Running
    <3> QED BY <1>2, <1>7, <3>2, SheetType
  <2>2. CASE ~Alone(j)
    <3>1. LeastOf(queue[j].stalls, MaxStalledCount) > 0
      <4>1. queue[j].stalls \in Nat /\ MaxStalledCount \in Nat
        BY <1>7, BulkAssumption DEF QueueJob
      <4> QED BY <2>2, <4>1 DEF Alone, LeastOf
    <3> QED BY <1>2, <1>7, <3>1, SheetType
  <2> QED BY <2>1, <2>2
<1>9. AllSheets[j] # NULL
  BY <1>2, <1>7, SheetType
<1> QED BY <1>1, <1>6, <1>8, <1>9, PromisedBegin DEF Promised

\* A row is mailed once for each attempt at most, and none before the rows above it are
\* settled.
LEMMA MailIsPromised ==
  ASSUME BulkInv, NEW r \in RunIds, NEW accepted \in {0, 1}, NEW result \in Statuses,
         SendRow(r, accepted, result)
  PROVE  Promised(r[1]) \/ AllSheets' = AllSheets
<1>1. PICK j \in JobIds : j = r[1]
  BY RunNames
<1>2. Base /\ RunsFit /\ SendsCounted /\ LogsInOrder
  BY DEF BulkInv
<1>3. Advances(r)
  BY DEF Advances
<1>4. PICK row : row = runs[r].i
  OBVIOUS
<1>5. /\ r \in Running /\ runs[r].pc = "send"
      /\ Mails(j, row, accepted, runs[r].template)
      /\ UNCHANGED <<bulkJobs, logs, queue>>
  BY <1>1, <1>2, <1>4, SendRowStep DEF Moves
<1>6. /\ row \in Rows /\ row < bulkJobs[j].totalRows /\ row \in Nat
      /\ bulkJobs[j] # NULL /\ bulkJobs[j].status # "PENDING" /\ queue[j] \in QueueJob
      /\ mails[j] \in [Rows -> Nat]
  <2>1. row \in Rows /\ row < bulkJobs[j].totalRows
    BY <1>1, <1>2, <1>4, <1>5, RowOfRun DEF TotalRows
  <2>2. bulkJobs[j].status # "PENDING"
    BY <1>1, <1>2, <1>5 DEF RunsFit, RunFits
  <2> QED BY <1>1, <1>2, <1>5, <2>1, <2>2, JobOfRun, BulkAssumption DEF Rows, Base, TypeOK
<1>7. /\ queue[j].stalls \in Nat /\ MaxStalledCount \in Nat
      /\ LeastOf(queue[j].stalls, MaxStalledCount) \in Nat
  <2>1. queue[j].stalls \in Nat /\ MaxStalledCount \in Nat
    BY <1>6, BulkAssumption DEF QueueJob
  <2> QED BY <2>1 DEF LeastOf
<1>8. mails' = [mails EXCEPT ![j][row] = mails[j][row] + accepted]
  BY <1>5 DEF Mails
<1>9. mails'[j] = [mails[j] EXCEPT ![row] = mails[j][row] + accepted]
  BY <1>2, <1>8 DEF Base, TypeOK
<1>10. LoggedRows(j)' = LoggedRows(j)
  BY <1>5 DEF LoggedRows, Logged
<1>11. /\ bulkJobs'[j] = bulkJobs[j] /\ queue'[j] = queue[j]
       /\ \A i \in JobIds : i # j => SheetOf(i)' = SheetOf(i)
  BY <1>1, <1>2, <1>3, <1>5, RunsKeepOtherSheets
<1>12. CASE accepted = 0
  <2>1. mails'[j] = mails[j]
    BY <1>6, <1>9, <1>12
  <2> QED BY <1>10, <1>11, <2>1, SheetStays, AllSheetsStay
<1>13. CASE accepted = 1
  <2>1. PICK sent : sent = [mails[j] EXCEPT ![row] = mails[j][row] + 1]
    OBVIOUS
  <2>2. mails'[j] = sent
    BY <1>9, <1>13, <2>1
  <2>3. BecomesAt(j, [status |-> bulkJobs[j].status, rows |-> bulkJobs[j].totalRows,
                      settled |-> LoggedRows(j), mails |-> sent,
                      retries |-> LeastOf(queue[j].stalls, MaxStalledCount)])
    BY <1>6, <1>10, <1>11, <2>2, NextSheet
  <2>4. BecomesAt(j, [AllSheets[j] EXCEPT !.mails = sent])
    BY <1>6, <2>3, ChangedSheets
  <2>5. AllSheets[j].mails = mails[j]
    BY <1>2, <1>6, SheetType
  <2>6. BecomesAt(j, [AllSheets[j] EXCEPT !.mails[row] = AllSheets[j].mails[row] + 1])
    BY <2>1, <2>4, <2>5
  <2>7. mails[j][row] <= LeastOf(queue[j].stalls, MaxStalledCount)
    <3>1. MayMail(j, row) # {}
      <4>1. r[2] \in 0 .. MaxStalledCount /\ r = <<j, r[2]>>
        BY <1>1, RunNames
      <4>2. runs[<<j, r[2]>>] # NULL /\ TriedBy(runs[<<j, r[2]>>]) <= row
        BY <1>4, <1>5, <1>6, <4>1 DEF TriedBy, Running
      <4> QED BY <4>1, <4>2 DEF MayMail
    <3>2. IsFiniteSet(MayMail(j, row)) /\ Cardinality(MayMail(j, row)) \in Nat
      BY StallsFinite DEF MayMail
    <3>3. Cardinality(MayMail(j, row)) # 0
      BY <3>1, <3>2, FS_EmptySet
    <3>4. mails[j][row] + Cardinality(MayMail(j, row)) <= Started(j)
      BY <1>2, <1>6 DEF SendsCounted
    <3>5. Started(j) <= LeastOf(queue[j].stalls, MaxStalledCount) + 1 /\ Started(j) \in Nat
      <4>1. queue[j].state = "none" => queue[j].stalls = 0
        BY <1>2 DEF Base, QueueFits
      <4>2. queue[j].state = "waiting" => queue[j].stalls <= MaxStalledCount
        BY <1>2 DEF Base, QueueFits
      <4> QED BY <1>7, <4>1, <4>2 DEF Started, LeastOf
    <3> QED BY <1>6, <1>7, <3>2, <3>3, <3>4, <3>5
  <2>8. row <= Cardinality(LoggedRows(j))
    <3>1. 0 .. (row - 1) \subseteq LoggedRows(j)
      BY <1>1, <1>2, <1>4, <1>5 DEF LogsInOrder, LoggedBy
    <3>2. IsFiniteSet(LoggedRows(j))
      BY LoggedFinite, FS_Union DEF LoggedRows
    <3>3. Cardinality(0 .. (row - 1)) = row
      BY <1>6, FS_Interval
    <3> QED BY <3>1, <3>2, <3>3, FS_Subset
  <2>9. Promise!Mail(j, row)
    <3>1. /\ AllSheets[j].status # "PENDING" /\ row < AllSheets[j].rows
          /\ row <= Cardinality(AllSheets[j].settled)
          /\ AllSheets[j].mails[row] <= AllSheets[j].retries
      BY <1>2, <1>6, <2>7, <2>8, SheetType
    <3> QED BY <1>6, <2>6, <3>1, PromisedMail
  <2>10. AllSheets[j] # NULL
    BY <1>2, <1>6, SheetType
  <2> QED BY <1>1, <1>6, <2>9, <2>10 DEF Promised
<1> QED BY <1>12, <1>13

\* A row that is logged for the first time is the next one to be settled.
LEMMA LogIsPromised ==
  ASSUME BulkInv, NEW r \in RunIds, LogRow(r)
  PROVE  Promised(r[1]) \/ AllSheets' = AllSheets
<1>1. PICK j \in JobIds : j = r[1]
  BY RunNames
<1>2. Base /\ RunsFit /\ LogsInOrder
  BY DEF BulkInv
<1>3. Advances(r)
  BY DEF Advances
<1>4. PICK row, result : row = runs[r].i /\ result = runs[r].result
  OBVIOUS
<1>5. /\ r \in Running /\ runs[r].pc = "log"
      /\ UNCHANGED <<bulkJobs, mails, queue>>
  BY <1>2, LogRowStep DEF Moves
<1>6. /\ row \in Rows /\ row < bulkJobs[j].totalRows /\ row \in Nat /\ result \in Statuses
      /\ bulkJobs[j] # NULL /\ bulkJobs[j].status # "PENDING"
  <2>1. row \in Rows /\ row < bulkJobs[j].totalRows
    BY <1>1, <1>2, <1>4, <1>5, RowOfRun DEF TotalRows
  <2>2. bulkJobs[j].status # "PENDING"
    BY <1>1, <1>2, <1>5 DEF RunsFit, RunFits
  <2> QED BY <1>1, <1>2, <1>4, <1>5, <2>1, <2>2, JobOfRun, FieldTypes, BulkAssumption DEF Rows
<1>7. LoggedRows(j)' = LoggedRows(j) \cup {row}
  <2>1. \A status \in Statuses :
          Logged(j, status)' = IF status = result THEN Logged(j, status) \cup {row}
                               ELSE Logged(j, status)
    BY <1>1, <1>2, <1>4, LogRowLogs
  <2> QED BY <1>6, <2>1 DEF LoggedRows, Statuses
<1>8. /\ bulkJobs'[j] = bulkJobs[j] /\ queue'[j] = queue[j] /\ mails'[j] = mails[j]
      /\ \A i \in JobIds : i # j => SheetOf(i)' = SheetOf(i)
  BY <1>1, <1>2, <1>3, <1>5, RunsKeepOtherSheets
<1>9. CASE row \in LoggedRows(j)
  <2>1. LoggedRows(j)' = LoggedRows(j)
    BY <1>7, <1>9
  <2> QED BY <1>8, <2>1, SheetStays, AllSheetsStay
<1>10. CASE row \notin LoggedRows(j)
  <2>1. LoggedRows(j) = 0 .. (row - 1)
    <3>1. 0 .. (row - 1) \subseteq LoggedRows(j)
      BY <1>1, <1>2, <1>4, <1>5 DEF LogsInOrder, LoggedBy
    <3>2. ASSUME NEW other \in LoggedRows(j)
          PROVE  other \in 0 .. (row - 1)
      <4>1. other \in Nat
        BY <3>2, BulkAssumption DEF LoggedRows, Logged, Rows
      <4>2. 0 .. (other - 1) \subseteq LoggedRows(j)
        BY <1>2, <3>2 DEF LogsInOrder
      <4>3. other # row /\ ~(row < other)
        BY <1>6, <1>10, <3>2, <4>1, <4>2
      <4> QED BY <1>6, <4>1, <4>3
    <3> QED BY <3>1, <3>2
  <2>2. Cardinality(LoggedRows(j)) = row
    BY <1>6, <2>1, FS_Interval
  <2>3. PICK settled : settled = LoggedRows(j) \cup {row}
    OBVIOUS
  <2>4. BecomesAt(j, [status |-> bulkJobs[j].status, rows |-> bulkJobs[j].totalRows,
                      settled |-> settled, mails |-> mails[j],
                      retries |-> LeastOf(queue[j].stalls, MaxStalledCount)])
    BY <1>6, <1>7, <1>8, <2>3, NextSheet
  <2>5. BecomesAt(j, [AllSheets[j] EXCEPT !.settled = settled])
    BY <1>6, <2>4, ChangedSheets
  <2>6. /\ AllSheets[j].settled = LoggedRows(j) /\ AllSheets[j] # NULL
        /\ AllSheets[j].status # "PENDING" /\ row < AllSheets[j].rows
    BY <1>2, <1>6, SheetType
  <2>7. BecomesAt(j, [AllSheets[j] EXCEPT !.settled = AllSheets[j].settled \cup {row}])
    BY <2>3, <2>5, <2>6
  <2>8. Promise!Settle(j)
    BY <2>2, <2>6, <2>7, PromisedSettle
  <2> QED BY <1>1, <2>6, <2>8 DEF Promised
<1> QED BY <1>9, <1>10

\* A sheet is completed when all its rows are settled.
LEMMA CompleteIsPromised ==
  ASSUME BulkInv, NEW r \in RunIds, MarkCompleted(r)
  PROVE  Promised(r[1]) \/ AllSheets' = AllSheets
<1>1. PICK j \in JobIds : j = r[1]
  BY RunNames
<1>2. Base /\ RunsFit /\ LogsInOrder
  BY DEF BulkInv
<1>3. Advances(r)
  BY DEF Advances
<1>4. PICK job : /\ r \in Running /\ runs[r].pc = "complete"
                 /\ Writes(j, job) /\ job.status = "COMPLETED"
                 /\ UNCHANGED <<logs, mails, queue>>
  BY <1>1, <1>2, MarkCompletedStep DEF Moves
<1>5. bulkJobs'[j].status = "COMPLETED"
  BY <1>1, <1>2, <1>4, WritesKeepTable
<1>6. /\ BecomesAt(j, [AllSheets[j] EXCEPT !.status = "COMPLETED"])
      /\ bulkJobs[j].status = "COMPLETED" => AllSheets' = AllSheets
  BY <1>1, <1>2, <1>3, <1>4, <1>5, StatusMoves
<1>7. /\ bulkJobs[j] # NULL
      /\ bulkJobs[j].status \in {"PROCESSING", "COMPLETED"}
  BY <1>1, <1>2, <1>4, JobOfRun, FieldTypes DEF RunsFit, RunFits
<1>8. LoggedRows(j) = 0 .. (bulkJobs[j].totalRows - 1)
  <2>1. 0 .. (runs[r].i - 1) \subseteq LoggedRows(j) /\ runs[r].i = bulkJobs[j].totalRows
    BY <1>1, <1>2, <1>4 DEF LogsInOrder, LoggedBy, RunsFit, RunFits
  <2>2. LoggedRows(j) \subseteq 0 .. (bulkJobs[j].totalRows - 1)
    BY <1>2, <1>7 DEF LogsInOrder, RowsOf
  <2> QED BY <2>1, <2>2
<1>9. CASE bulkJobs[j].status = "PROCESSING"
  <2>1. /\ AllSheets[j] # NULL /\ AllSheets[j].status = "PROCESSING"
        /\ AllSheets[j].settled = 0 .. (AllSheets[j].rows - 1)
    BY <1>2, <1>7, <1>8, <1>9, SheetType
  <2> QED BY <1>1, <1>6, <2>1, PromisedComplete DEF Promised
<1> QED BY <1>6, <1>7, <1>9

\* A stall that puts the job back is another attempt; one that gives it up, or after it was
\* given up, is none.
LEMMA RetryIsPromised ==
  ASSUME Base, NEW j \in JobIds, Stall(j)
  PROVE  Promised(j) \/ AllSheets' = AllSheets
<1>1. PICK job \in QueueJob : /\ queue' = [queue EXCEPT ![j] = job]
                              /\ job.stalls = queue[j].stalls + 1
  BY StallMoves
<1>2. UNCHANGED <<bulkJobs, logs, mails>>
  BY DEF Stall, Table, Sent
<1>3. queue'[j] = job /\ \A i \in JobIds : i # j => queue'[i] = queue[i]
  BY <1>1 DEF Base, TypeOK
<1>4. \A i \in JobIds : LoggedRows(i)' = LoggedRows(i)
  BY <1>2 DEF LoggedRows, Logged
<1>5. \A i \in JobIds : i # j => SheetOf(i)' = SheetOf(i)
  BY <1>2, <1>3, <1>4, SheetStays
<1>6. queue[j].stalls \in Nat /\ MaxStalledCount \in Nat /\ bulkJobs[j] # NULL
  <2>1. queue[j] \in QueueJob /\ queue[j].state = "active"
    BY DEF Base, TypeOK, Stall
  <2> QED BY <2>1, BulkAssumption DEF QueueJob, Base, QueueFits
<1>7. BecomesAt(j, [status |-> bulkJobs[j].status, rows |-> bulkJobs[j].totalRows,
                    settled |-> LoggedRows(j), mails |-> mails[j],
                    retries |-> LeastOf(queue[j].stalls + 1, MaxStalledCount)])
  BY <1>1, <1>2, <1>3, <1>4, <1>5, <1>6, NextSheet
<1>8. /\ AllSheets[j] # NULL
      /\ AllSheets[j].retries = LeastOf(queue[j].stalls, MaxStalledCount)
      /\ AllSheets[j] \in Sheets
  BY <1>6, SheetType
<1>9. CASE queue[j].stalls < MaxStalledCount
  <2>1. /\ AllSheets[j].retries = queue[j].stalls
        /\ LeastOf(queue[j].stalls + 1, MaxStalledCount) = queue[j].stalls + 1
    BY <1>6, <1>8, <1>9 DEF LeastOf
  <2>2. BecomesAt(j, [AllSheets[j] EXCEPT !.retries = AllSheets[j].retries + 1])
    BY <1>6, <1>7, <2>1, ChangedSheets
  <2> QED BY <1>8, <1>9, <2>1, <2>2, PromisedRetry DEF Promised
<1>10. CASE ~(queue[j].stalls < MaxStalledCount)
  <2>1. LeastOf(queue[j].stalls + 1, MaxStalledCount) = LeastOf(queue[j].stalls, MaxStalledCount)
    BY <1>6, <1>10 DEF LeastOf
  <2>2. SheetOf(j)' = SheetOf(j)
    BY <1>1, <1>2, <1>3, <1>4, <2>1 DEF SheetOf, LeastOf
  <2> QED BY <1>5, <2>2, AllSheetsStay
<1> QED BY <1>9, <1>10

\* Only a stall counts as one.
LEMMA OnlyStallsCount ==
  ASSUME Base, [Next]_vars, NEW j \in JobIds, ~Stall(j)
  PROVE  queue'[j].stalls = queue[j].stalls
<1>1. queue \in [JobIds -> QueueJob]
  BY DEF Base, TypeOK
<1>2. ASSUME NEW r \in RunIds, r[1] = j, Current(r), EmitCompleted(r) \/ Throw(r)
      PROVE  queue'[j].stalls = queue[j].stalls
  <2>1. Ends(r, "completed") \/ Ends(r, "failed")
    BY <1>2, EmitCompletedStep, ThrowStep
  <2> QED BY <1>2, <2>1, EndsOneRun
<1>3. TakeBulk(j) => queue'[j].stalls = queue[j].stalls
  BY <1>1, TakeStep DEF QueueJob
<1>4. EnqueueBulk(j) => queue'[j].stalls = queue[j].stalls
  BY <1>1 DEF EnqueueBulk, QueueJob
<1> QED BY <1>2, <1>3, <1>4, QueueMoves

\* A step that touches neither the table, the log nor the mails is a retry or unseen.
LEMMA QuietIsPromised ==
  ASSUME Base, [Next]_vars, UNCHANGED <<bulkJobs, logs, mails>>
  PROVE  (\E j \in JobIds : Promised(j)) \/ AllSheets' = AllSheets
<1>1. CASE \E j \in JobIds : Stall(j)
  BY <1>1, RetryIsPromised
<1>2. CASE \A j \in JobIds : ~Stall(j)
  <2>1. \A j \in JobIds : queue'[j].stalls = queue[j].stalls
    BY <1>2, OnlyStallsCount
  <2>2. \A j \in JobIds : LoggedRows(j)' = LoggedRows(j)
    BY DEF LoggedRows, Logged
  <2> QED BY <2>1, <2>2, SheetStays, AllSheetsStay
<1> QED BY <1>1, <1>2

\* Every step of the bulk jobs is one that module Sheet allows.
LEMMA EveryStepIsPromised ==
  ASSUME BulkInv, AloneInv, [Next]_vars
  PROVE  Promise!Next \/ AllSheets' = AllSheets
<1>0. Base /\ RunsFit
  BY DEF BulkInv
<1>1. ASSUME NEW j \in JobIds, NEW rows \in 0 .. MaxRows, CreateBulkJob(j, rows)
      PROVE  Promised(j)
  BY <1>1, UploadIsPromised
<1>2. ASSUME NEW r \in RunIds, Advances(r)
      PROVE  (\E j \in JobIds : Promised(j)) \/ AllSheets' = AllSheets
  <2>0. r[1] \in JobIds
    BY RunNames
  <2>1. CASE MarkProcessing(r)
    BY <2>0, <2>1, BeginIsPromised
  <2>2. CASE EmitStarted(r) \/ ReadSettings(r) \/ EmitRow(r)
    BY <1>0, <2>2, EmitStartedStep, ReadSettingsStep, EmitRowStep, QuietIsPromised
  <2>3. ASSUME NEW accepted \in {0, 1}, NEW result \in Statuses, SendRow(r, accepted, result)
        PROVE  (\E j \in JobIds : Promised(j)) \/ AllSheets' = AllSheets
    BY <2>0, <2>3, MailIsPromised
  <2>4. CASE LogRow(r)
    BY <2>0, <2>4, LogIsPromised
  <2>5. CASE CountRow(r)
    <3>1. PICK job : /\ r \in Running
                     /\ Writes(r[1], job) /\ job.status = bulkJobs[r[1]].status
                     /\ UNCHANGED <<logs, mails, queue>>
      BY <1>0, <2>5, CountRowStep DEF Moves
    <3>2. bulkJobs'[r[1]] = job
      BY <1>0, <3>1, WritesKeepTable
    <3>3. AllSheets' = AllSheets
      BY <1>0, <1>2, <3>1, <3>2, StatusMoves
    <3> QED BY <3>3
  <2>6. CASE MarkCompleted(r)
    BY <2>0, <2>6, CompleteIsPromised
  <2> QED BY <1>2, <2>1, <2>2, <2>3, <2>4, <2>5, <2>6 DEF Advances
<1>3. ASSUME NEW j \in JobIds, TakeBulk(j)
      PROVE  (\E i \in JobIds : Promised(i)) \/ AllSheets' = AllSheets
  BY <1>0, <1>3, TakeStep, QuietIsPromised
<1>4. Quiet => (\E j \in JobIds : Promised(j)) \/ AllSheets' = AllSheets
  BY <1>0, QuietIsPromised DEF Quiet
<1>5. (\E j \in JobIds : Promised(j)) \/ AllSheets' = AllSheets
  BY <1>0, <1>1, <1>2, <1>3, <1>4, StepKinds
<1> QED BY <1>5, PromisedStep

\* With runs that overlap, die, throw and are repeated, a bulk job is still a sheet whose
\* rows are settled in order, mailed once per attempt at most, and which is completed when
\* its last row is settled.
THEOREM BulkJobsAreSheets == Spec => ImplementsSheet
<1>1. Init => Promise!Init
  BY DEF Init, Promise!Init, SheetOf
<1>2. BulkInv /\ AloneInv /\ [Next]_vars
        => [Promise!Next]_([j \in JobIds |-> SheetOf(j)])
  BY EveryStepIsPromised DEF AllSheets
<1> QED BY <1>1, <1>2, AloneInvariant, PTL DEF Spec, ImplementsSheet, Promise!Spec

-----------------------------------------------------------------------------
\* What the promise is good for.

\* What is so of every sheet that is there.
InOrder(s) ==
  /\ s \in Sheets
  /\ \E count \in 0 .. s.rows : s.settled = 0 .. (count - 1)
  /\ s.status = "COMPLETED" => s.settled = 0 .. (s.rows - 1)
  /\ \A row \in Rows : s.mails[row] <= 1 + s.retries

SheetsInOrder == \A j \in JobIds : AllSheets[j] # NULL => InOrder(AllSheets[j])

\* A new sheet is in order.
LEMMA NewSheetInOrder ==
  ASSUME NEW rows \in 0 .. MaxRows
  PROVE  InOrder(Promise!New(rows))
<1> DEFINE s == Promise!New(rows)
<1>1. s = [status |-> "PENDING", rows |-> rows, settled |-> {}, retries |-> 0,
           mails |-> [row \in Rows |-> 0]]
  BY DEF Promise!New, Rows
<1> HIDE DEF s
<1>2. s \in Sheets
  BY <1>1, BulkAssumption DEF Sheets
<1>3. 0 \in 0 .. s.rows /\ s.settled = 0 .. (0 - 1)
  BY <1>1
<1>4. s.status # "COMPLETED" /\ \A row \in Rows : s.mails[row] <= 1 + s.retries
  BY <1>1
<1> QED BY <1>2, <1>3, <1>4 DEF InOrder, s

\* Every step of a sheet leaves it in order.
LEMMA SheetStaysInOrder ==
  ASSUME NEW j \in JobIds, NEW s, s = AllSheets[j], s # NULL, InOrder(s),
         \/ Promise!Begin(j)
         \/ \E row \in Rows : Promise!Mail(j, row)
         \/ Promise!Settle(j) \/ Promise!Complete(j) \/ Promise!Retry(j)
  PROVE  \E new : BecomesAt(j, new) /\ InOrder(new)
<1>1. /\ s \in Sheets
      /\ s.status = "COMPLETED" => s.settled = 0 .. (s.rows - 1)
      /\ \A row \in Rows : s.mails[row] <= 1 + s.retries
  BY DEF InOrder
<1>2. PICK count \in 0 .. s.rows : s.settled = 0 .. (count - 1)
  BY DEF InOrder
<1>3. /\ s.rows \in 0 .. MaxRows /\ s.settled \in SUBSET Rows /\ s.mails \in [Rows -> Nat]
      /\ s.retries \in 0 .. MaxStalledCount /\ MaxStalledCount \in Nat /\ MaxRows \in Nat
  BY <1>1, BulkAssumption DEF Sheets
<1>4. CASE Promise!Begin(j)
  <2> DEFINE new == [s EXCEPT !.status = "PROCESSING"]
  <2>1. BecomesAt(j, new)
    BY <1>4 DEF Promise!Begin, Promise!Become, BecomesAt, AllSheets
  <2>2. new \in Sheets
    BY <1>1 DEF Sheets
  <2>3. /\ new.rows = s.rows /\ new.settled = s.settled /\ new.mails = s.mails
        /\ new.retries = s.retries /\ new.status # "COMPLETED"
    BY <1>1 DEF Sheets
  <2> HIDE DEF new
  <2> QED BY <1>1, <1>2, <2>1, <2>2, <2>3 DEF InOrder
<1>5. ASSUME NEW row \in Rows, Promise!Mail(j, row)
      PROVE  \E new : BecomesAt(j, new) /\ InOrder(new)
  <2> DEFINE new == [s EXCEPT !.mails[row] = @ + 1]
  <2>1. BecomesAt(j, new) /\ s.mails[row] <= s.retries
    BY <1>5 DEF Promise!Mail, Promise!Become, BecomesAt, AllSheets
  <2>2. /\ new.rows = s.rows /\ new.settled = s.settled /\ new.status = s.status
        /\ new.mails = [s.mails EXCEPT ![row] = @ + 1] /\ new.retries = s.retries
    BY <1>1 DEF Sheets
  <2>3. new.mails \in [Rows -> Nat]
    BY <1>3, <2>2
  <2>4. new \in Sheets
    BY <1>1, <2>2, <2>3 DEF Sheets
  <2>5. \A i \in Rows : new.mails[i] <= 1 + new.retries
    BY <1>1, <1>3, <2>1, <2>2
  <2> HIDE DEF new
  <2> QED BY <1>1, <1>2, <2>1, <2>2, <2>4, <2>5 DEF InOrder
<1>6. CASE Promise!Settle(j)
  <2> DEFINE new == [s EXCEPT !.settled = @ \cup {count}]
  <2>1. Cardinality(s.settled) = count
    <3>1. 0 \in Int /\ count - 1 \in Int /\ count \in Nat
      BY <1>3
    <3>2. Cardinality(0 .. (count - 1)) = IF 0 > count - 1 THEN 0 ELSE count - 1 - 0 + 1
      BY <3>1, FS_Interval
    <3> QED BY <1>2, <3>1, <3>2
  <2>2. BecomesAt(j, new) /\ count < s.rows
    BY <1>6, <2>1, SameCardinality DEF Promise!Settle, Promise!Become, BecomesAt, AllSheets
  <2>3. count + 1 \in 0 .. s.rows /\ s.settled \cup {count} = 0 .. ((count + 1) - 1)
    BY <1>2, <1>3, <2>2
  <2>4. s.settled \cup {count} \in SUBSET Rows
    BY <1>3, <2>2 DEF Rows
  <2>5. new \in Sheets
    BY <1>1, <2>4 DEF Sheets
  <2>6. /\ new.rows = s.rows /\ new.settled = s.settled \cup {count} /\ new.status = s.status
        /\ new.mails = s.mails /\ new.retries = s.retries
    BY <1>1 DEF Sheets
  <2>7. s.status # "COMPLETED"
    <3>1. count \notin s.settled
      BY <1>2
    <3>2. count \in 0 .. (s.rows - 1)
      BY <1>3, <2>2
    <3> QED BY <1>1, <3>1, <3>2
  <2> HIDE DEF new
  <2> QED BY <1>1, <2>2, <2>3, <2>5, <2>6, <2>7 DEF InOrder
<1>7. CASE Promise!Complete(j)
  <2> DEFINE new == [s EXCEPT !.status = "COMPLETED"]
  <2>1. BecomesAt(j, new) /\ s.settled = 0 .. (s.rows - 1)
    BY <1>7 DEF Promise!Complete, Promise!Become, BecomesAt, AllSheets
  <2>2. new \in Sheets
    BY <1>1 DEF Sheets
  <2>3. /\ new.rows = s.rows /\ new.settled = s.settled /\ new.mails = s.mails
        /\ new.retries = s.retries
    BY <1>1 DEF Sheets
  <2> HIDE DEF new
  <2> QED BY <1>1, <1>2, <2>1, <2>2, <2>3 DEF InOrder
<1>8. CASE Promise!Retry(j)
  <2> DEFINE new == [s EXCEPT !.retries = @ + 1]
  <2>1. BecomesAt(j, new) /\ s.retries < MaxStalledCount
    BY <1>8 DEF Promise!Retry, Promise!Become, BecomesAt, AllSheets
  <2>2. s.retries + 1 \in 0 .. MaxStalledCount
    BY <1>3, <2>1
  <2>3. new \in Sheets
    BY <1>1, <2>2 DEF Sheets
  <2>4. /\ new.rows = s.rows /\ new.settled = s.settled /\ new.mails = s.mails
        /\ new.status = s.status /\ new.retries = s.retries + 1
    BY <1>1 DEF Sheets
  <2>5. \A row \in Rows : new.mails[row] <= 1 + new.retries
    BY <1>1, <1>3, <2>4
  <2> HIDE DEF new
  <2> QED BY <1>1, <1>2, <2>1, <2>3, <2>4, <2>5 DEF InOrder
<1> QED BY <1>4, <1>5, <1>6, <1>7, <1>8

\* Whatever is a sheet settles its rows in order, all of them before it is completed, and
\* mails none more than once per attempt: what the bulk jobs promise by refining it
\* (README.md:119, bulk-notification.processor.ts:50-105).
THEOREM SheetsSettleInOrder == Promise!Spec => []Promise!SettledInOrder
<1>1. Promise!Init => SheetsInOrder
  BY DEF Promise!Init, AllSheets, SheetsInOrder
<1>2. SheetsInOrder /\ [Promise!Next]_AllSheets => SheetsInOrder'
  <2> SUFFICES ASSUME SheetsInOrder, [Promise!Next]_AllSheets
               PROVE  SheetsInOrder'
    OBVIOUS
  <2>1. ASSUME NEW j \in JobIds, NEW new, BecomesAt(j, new), InOrder(new)
        PROVE  SheetsInOrder'
    <3>1. \A i \in JobIds : AllSheets'[i] = IF i = j THEN new ELSE AllSheets[i]
      BY <2>1 DEF BecomesAt, AllSheets
    <3> QED BY <2>1, <3>1 DEF SheetsInOrder
  <2>2. ASSUME NEW j \in JobIds, Promise!Upload(j)
        PROVE  SheetsInOrder'
    <3>1. PICK rows \in 0 .. MaxRows : BecomesAt(j, Promise!New(rows))
      BY <2>2 DEF Promise!Upload, Promise!Become, BecomesAt, AllSheets
    <3> QED BY <2>1, <3>1, NewSheetInOrder
  <2>3. ASSUME NEW j \in JobIds, AllSheets[j] # NULL,
               \/ Promise!Begin(j)
               \/ \E row \in Rows : Promise!Mail(j, row)
               \/ Promise!Settle(j) \/ Promise!Complete(j) \/ Promise!Retry(j)
        PROVE  SheetsInOrder'
    <3>1. InOrder(AllSheets[j])
      BY <2>3 DEF SheetsInOrder
    <3>2. PICK new : BecomesAt(j, new) /\ InOrder(new)
      BY <2>3, <3>1, SheetStaysInOrder
    <3> QED BY <2>1, <3>2
  <2>4. ASSUME UNCHANGED AllSheets
        PROVE  SheetsInOrder'
    BY <2>4 DEF SheetsInOrder
  <2>5. Promise!Next => \E j \in JobIds : Promised(j)
    BY DEF Promise!Next, Promised, AllSheets, Rows
  <2> QED BY <2>2, <2>3, <2>4, <2>5 DEF Promised
<1>3. SheetsInOrder => Promise!SettledInOrder
  BY DEF SheetsInOrder, InOrder, Promise!SettledInOrder, AllSheets, Rows
<1>4. Promise!Spec => Promise!Init /\ [][Promise!Next]_AllSheets
  BY DEF Promise!Spec, AllSheets
<1> QED BY <1>1, <1>2, <1>3, <1>4, PTL
=============================================================================
