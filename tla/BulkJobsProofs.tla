--------------------------- MODULE BulkJobsProofs ---------------------------
(***************************************************************************)
(* Proofs about bulk jobs: types, the log and the counts, and how often a  *)
(* customer is mailed, for every number of jobs, rows, slots and stalls.   *)
(***************************************************************************)
EXTENDS BulkJobs, FiniteSetTheorems, TLAPS

\* A run is named by its job and by the number of stalls it began after.
LEMMA RunNames ==
  ASSUME NEW r \in RunIds
  PROVE  /\ r[1] \in JobIds
         /\ r[2] \in 0 .. MaxStalledCount
         /\ r = <<r[1], r[2]>>
BY DEF RunIds

\* Running are the runs that have a continuation, and it is one of a run.
LEMMA RunningRuns ==
  ASSUME TypeOK, NEW r \in Running
  PROVE  r \in RunIds /\ runs[r] \in Run /\ runs[r] # NULL
BY DEF TypeOK, Running

-----------------------------------------------------------------------------
\* Type correctness

\* Goto() keeps the type of the runs.
LEMMA GotoTypes ==
  ASSUME TypeOK, NEW r \in RunIds, NEW run \in Run, Goto(r, run)
  PROVE  runs' \in [RunIds -> Run \cup {NULL}]
BY DEF TypeOK, Goto

\* EndRun() keeps the types of the runs and of the queue.
LEMMA EndRunTypes ==
  ASSUME TypeOK, NEW r \in RunIds, NEW state \in {"completed", "failed"},
         NEW reason \in FailedReasons, EndRun(r, state, reason)
  PROVE  runs' \in [RunIds -> Run \cup {NULL}] /\ queue' \in [JobIds -> QueueJob]
<1>1. r[1] \in JobIds
  BY RunNames
<1>2. [queue[r[1]] EXCEPT !.state = state, !.failedReason = reason] \in QueueJob
  BY <1>1 DEF TypeOK, QueueJob
<1>3. queue' \in [JobIds -> QueueJob]
  BY <1>1, <1>2 DEF TypeOK, EndRun
<1> QED BY <1>3 DEF TypeOK, EndRun

\* Push() sends an event.
LEMMA PushTypes ==
  ASSUME TypeOK, NEW r \in Running, Push(r, "job-started") \/ Push(r, "row-processed")
                                      \/ Push(r, "job-completed")
  PROVE  room' \in [JobIds -> Event]
<1>1. r[1] \in JobIds /\ runs[r] \in Run
  BY RunNames, RunningRuns
<1>2. runs[r].successCount \in Nat /\ runs[r].failCount \in Nat
  BY <1>1 DEF Run
<1>3. PICK type \in {"job-started", "row-processed", "job-completed"} : Push(r, type)
  OBVIOUS
<1>4. [type |-> type, successCount |-> runs[r].successCount,
       failCount |-> runs[r].failCount] \in Event
  BY <1>2 DEF Event
<1> QED BY <1>1, <1>3, <1>4 DEF TypeOK, Push

\* The table keeps its type when a row of it is rewritten.
LEMMA TableTypes ==
  ASSUME TypeOK, NEW j \in JobIds, NEW job \in BulkJob,
         bulkJobs' = [bulkJobs EXCEPT ![j] = job]
  PROVE  bulkJobs' \in [JobIds -> BulkJob \cup {NULL}]
BY DEF TypeOK

-----------------------------------------------------------------------------
\* What the queue, the table and the runs know of a job fits together: a job that is
\* not queued has not run, and only the run that began last can hold the lock.
QueueFits ==
  \A j \in JobIds :
    /\ j \in uploads => queue[j].state = "none" /\ bulkJobs[j] # NULL
    /\ bulkJobs[j] = NULL => queue[j].state = "none"
    /\ queue[j].state = "none" => queue[j].stalls = 0
    /\ queue[j].state \in {"waiting", "active", "completed"}
         => queue[j].stalls <= MaxStalledCount
    /\ \A k \in 0 .. MaxStalledCount :
         runs[<<j, k>>] # NULL
           => k < queue[j].stalls \/ (k = queue[j].stalls /\ queue[j].state = "active")

Base == TypeOK /\ QueueFits

\* The job of a run is in the table and has been queued.
LEMMA JobOfRun ==
  ASSUME Base, NEW r \in Running
  PROVE  /\ r \in RunIds /\ r[1] \in JobIds
         /\ runs[r] \in Run
         /\ bulkJobs[r[1]] \in BulkJob /\ bulkJobs[r[1]] # NULL
         /\ queue[r[1]] \in QueueJob /\ queue[r[1]].state # "none"
         /\ r[2] \in 0 .. MaxStalledCount /\ r = <<r[1], r[2]>>
<1>1. r \in RunIds /\ runs[r] \in Run /\ runs[r] # NULL
  BY RunningRuns DEF Base
<1>2. r[1] \in JobIds /\ r[2] \in 0 .. MaxStalledCount /\ r = <<r[1], r[2]>>
  BY <1>1, RunNames
<1>3. queue[r[1]] \in QueueJob
  BY <1>2 DEF Base, TypeOK
<1>4. queue[r[1]].stalls \in Nat
  BY <1>3, BulkAssumption DEF QueueJob
<1>5. r[2] < queue[r[1]].stalls \/ (r[2] = queue[r[1]].stalls /\ queue[r[1]].state = "active")
  BY <1>1, <1>2 DEF Base, QueueFits
<1>6. queue[r[1]].state # "none"
  BY <1>2, <1>4, <1>5 DEF Base, QueueFits
<1>7. bulkJobs[r[1]] # NULL
  BY <1>2, <1>6 DEF Base, QueueFits
<1> QED BY <1>1, <1>2, <1>3, <1>6, <1>7 DEF Base, TypeOK

\* Before the first step nothing is in the table, the queue or the rooms.
LEMMA BaseInit == Init => Base
<1> SUFFICES ASSUME Init PROVE Base
  OBVIOUS
<1>1. TypeOK
  <2>1. settings \in Settings \cup {NULL}
    BY DEF Init
  <2>2. queue \in [JobIds -> QueueJob]
    BY BulkAssumption DEF Init, QueueJob, FailedReasons
  <2>3. room \in [JobIds -> Event]
    BY DEF Init, Event
  <2> QED BY <2>1, <2>2, <2>3 DEF Init, TypeOK
<1>2. QueueFits
  BY BulkAssumption DEF Init, QueueFits, RunIds
<1> QED BY <1>1, <1>2 DEF Base

\* A stalled job waits again, or fails because it has stalled too often.
LEMMA StallMoves ==
  ASSUME Base, NEW j \in JobIds, Stall(j)
  PROVE  \E job \in QueueJob :
           /\ queue' = [queue EXCEPT ![j] = job]
           /\ job.state \in {"waiting", "failed"}
           /\ job.stalls = queue[j].stalls + 1
           /\ job.state = "waiting" <=> queue[j].stalls < MaxStalledCount
           /\ job.state = "waiting" => job.stalls <= MaxStalledCount
<1>0. queue[j].state = "active"
  BY DEF Stall
<1>1. /\ queue[j] \in QueueJob /\ queue[j].failedReason \in FailedReasons
      /\ queue[j].stalls \in Nat /\ queue[j].stalls <= MaxStalledCount
      /\ queue[j].stalls + 1 \in 0 .. (MaxStalledCount + 1)
      /\ MaxStalledCount \in Nat
  <2>1. queue[j] \in QueueJob
    BY DEF Base, TypeOK
  <2>2. queue[j].stalls \in Nat /\ queue[j].failedReason \in FailedReasons
    BY <2>1, BulkAssumption DEF QueueJob
  <2>3. queue[j].stalls <= MaxStalledCount
    BY <1>0 DEF Base, QueueFits
  <2> QED BY <2>1, <2>2, <2>3, BulkAssumption
<1>2. CASE queue[j].stalls < MaxStalledCount
  <2> DEFINE job == [queue[j] EXCEPT !.state = "waiting", !.stalls = @ + 1]
  <2>1. queue' = [queue EXCEPT ![j] = job]
    BY <1>2 DEF Stall
  <2>2. job \in QueueJob /\ job.state = "waiting" /\ job.stalls = queue[j].stalls + 1
    BY <1>1 DEF QueueJob
  <2> HIDE DEF job
  <2>3. queue[j].stalls + 1 <= MaxStalledCount
    BY <1>1, <1>2
  <2> QED BY <1>1, <1>2, <2>1, <2>2, <2>3
<1>3. CASE ~(queue[j].stalls < MaxStalledCount)
  <2> DEFINE job == [state |-> "failed", stalls |-> queue[j].stalls + 1,
                     failedReason |-> "stalled too often"]
  <2>1. queue' = [queue EXCEPT ![j] = job]
    BY <1>3 DEF Stall
  <2>2. "stalled too often" \in FailedReasons
    BY DEF FailedReasons
  <2>3. job \in QueueJob /\ job.state = "failed" /\ job.stalls = queue[j].stalls + 1
    BY <1>1, <2>2 DEF QueueJob
  <2> HIDE DEF job
  <2> QED BY <1>1, <1>3, <2>1, <2>3
<1> QED BY <1>2, <1>3

\* The five steps of the queue itself: an upload is stored, queued or given up, and a
\* job is taken or put back.
LEMMA QueueSteps ==
  ASSUME Base, NEW j \in JobIds, NEW rows \in 0 .. MaxRows,
         CreateBulkJob(j, rows) \/ Upload(j) \/ TakeBulk(j) \/ Stall(j)
  PROVE  Base'
<1> USE DEF Base, Table, Sent
<1>0. /\ queue[j] \in QueueJob
      /\ queue[j].stalls \in Nat /\ MaxStalledCount \in Nat
  BY BulkAssumption DEF TypeOK, QueueJob
<1>1. CASE CreateBulkJob(j, rows)
  <2> DEFINE job == [status |-> "PENDING", totalRows |-> rows,
                     processedCount |-> 0, successCount |-> 0, failCount |-> 0]
  <2>1. job \in BulkJob /\ job # NULL
    BY BulkAssumption DEF BulkJob
  <2> HIDE DEF job
  <2>2. bulkJobs' = [bulkJobs EXCEPT ![j] = job]
    BY <1>1 DEF CreateBulkJob, job
  <2>3. bulkJobs' \in [JobIds -> BulkJob \cup {NULL}]
    BY <2>1, <2>2, TableTypes
  <2>4. uploads' = uploads \cup {j} /\ UNCHANGED <<logs, settings, queue, runs, room, mails, styles>>
    BY <1>1 DEF CreateBulkJob
  <2>5. TypeOK'
    BY <2>3, <2>4 DEF TypeOK
  <2>6. QueueFits'
    BY <1>1, <2>1, <2>2, <2>4 DEF QueueFits, TypeOK, CreateBulkJob
  <2> QED BY <2>5, <2>6
<1>2. CASE EnqueueBulk(j)
  <2> DEFINE job == [queue[j] EXCEPT !.state = "waiting"]
  <2>1. job \in QueueJob /\ job.state = "waiting" /\ job.stalls = queue[j].stalls
    BY <1>0 DEF QueueJob
  <2> HIDE DEF job
  <2>2. queue' = [queue EXCEPT ![j] = job]
    BY <1>2 DEF EnqueueBulk, job
  <2>3. uploads' = uploads \ {j} /\ UNCHANGED <<bulkJobs, logs, settings, runs, room, mails, styles>>
    BY <1>2 DEF EnqueueBulk
  <2>4. TypeOK'
    BY <2>1, <2>2, <2>3 DEF TypeOK
  <2>5. queue[j].stalls = 0 /\ bulkJobs[j] # NULL
    BY <1>2 DEF EnqueueBulk, QueueFits
  <2>6. queue[j].state = "none" /\ \A k \in 0 .. MaxStalledCount : runs[<<j, k>>] = NULL
    BY <1>0, <1>2, <2>5 DEF EnqueueBulk, QueueFits
  <2>7. ASSUME NEW i \in JobIds, i # j
        PROVE  queue'[i] = queue[i] /\ (i \in uploads' <=> i \in uploads)
    BY <2>2, <2>3, <2>7 DEF TypeOK
  <2>8. queue'[j] = job
    BY <2>2 DEF TypeOK
  <2>9. QueueFits'
    BY <1>0, <2>1, <2>3, <2>5, <2>6, <2>7, <2>8 DEF QueueFits
  <2> QED BY <2>4, <2>9
<1>3. CASE EnqueueRejected(j)
  <2>1. uploads' = uploads \ {j}
        /\ UNCHANGED <<bulkJobs, logs, settings, queue, runs, room, mails, styles>>
    BY <1>3 DEF EnqueueRejected
  <2> QED BY <2>1 DEF TypeOK, QueueFits
<1>4. CASE TakeBulk(j)
  <2> DEFINE job == [queue[j] EXCEPT !.state = "active"]
             r == <<j, queue[j].stalls>>
  <2>1. job \in QueueJob /\ job.state = "active" /\ job.stalls = queue[j].stalls
    BY <1>0 DEF QueueJob
  <2>2. queue[j].stalls \in 0 .. MaxStalledCount /\ queue[j].state = "waiting"
    BY <1>0, <1>4 DEF TakeBulk, QueueFits
  <2>3. r \in RunIds
    BY <2>2 DEF RunIds
  <2>4. queue' = [queue EXCEPT ![j] = job] /\ runs' = [runs EXCEPT ![r] = NewRun]
    BY <1>4 DEF TakeBulk, Goto
  <2> HIDE DEF job
  <2>5. UNCHANGED <<bulkJobs, logs, settings, uploads, room, mails, styles>>
    BY <1>4 DEF TakeBulk
  <2>6. NewRun \in Run
    BY DEF NewRun, Run, Styles, Statuses
  <2>7. TypeOK'
    BY <2>1, <2>3, <2>4, <2>5, <2>6 DEF TypeOK
  <2>8. \A i \in JobIds, k \in 0 .. MaxStalledCount :
          runs'[<<i, k>>] # NULL => runs[<<i, k>>] # NULL \/ (i = j /\ k = queue[j].stalls)
    BY <2>3, <2>4 DEF TypeOK, RunIds
  <2>9. QueueFits'
    <3>1. ASSUME NEW i \in JobIds, NEW k \in 0 .. MaxStalledCount, runs'[<<i, k>>] # NULL
          PROVE  k < queue'[i].stalls \/ (k = queue'[i].stalls /\ queue'[i].state = "active")
      BY <1>0, <2>1, <2>2, <2>4, <2>8, <3>1 DEF QueueFits, TypeOK
    <3> QED BY <1>0, <2>1, <2>2, <2>4, <2>5, <3>1 DEF QueueFits, TypeOK
  <2> QED BY <2>7, <2>9
<1>5. CASE Stall(j)
  <2>1. queue[j].state = "active" /\ queue[j].stalls <= MaxStalledCount
    BY <1>5 DEF Stall, QueueFits
  <2>2. PICK job \in QueueJob :
          /\ queue' = [queue EXCEPT ![j] = job]
          /\ job.state \in {"waiting", "failed"}
          /\ job.stalls = queue[j].stalls + 1
          /\ job.state = "waiting" => job.stalls <= MaxStalledCount
    BY <1>5, StallMoves
  <2>4. UNCHANGED <<bulkJobs, logs, settings, uploads, runs, room, mails, styles>>
    BY <1>5 DEF Stall
  <2>5. TypeOK'
    BY <2>2, <2>4 DEF TypeOK
  <2>6. QueueFits'
    BY <1>0, <2>1, <2>2, <2>4 DEF QueueFits, TypeOK
  <2> QED BY <2>5, <2>6
<1> QED BY <1>1, <1>2, <1>3, <1>4, <1>5 DEF Upload

-----------------------------------------------------------------------------
\* What each step of process() does, field by field

\* Run r goes on as `new`.
Moves(r, new) ==
  /\ r \in Running
  /\ new \in Run
  /\ runs' = [runs EXCEPT ![r] = new]

\* `new` has the row and the tallies of run r.
SamePlace(r, new) ==
  /\ new.i = runs[r].i
  /\ new.successCount = runs[r].successCount
  /\ new.failCount = runs[r].failCount

\* The row of job j is rewritten as `job`, with the rows it had.
Writes(j, job) ==
  /\ job \in BulkJob
  /\ bulkJobs' = [bulkJobs EXCEPT ![j] = job]
  /\ job.totalRows = bulkJobs[j].totalRows

\* `job` has the counters of job j.
SameCounts(j, job) ==
  /\ job.processedCount = bulkJobs[j].processedCount
  /\ job.successCount = bulkJobs[j].successCount
  /\ job.failCount = bulkJobs[j].failCount

\* The event `event` is the last one of job j.
Shows(j, event) == event \in Event /\ room' = [room EXCEPT ![j] = event]

\* The log has one entry more, of this row and this status.
Logs(j, row, status) == logs' = [logs EXCEPT ![j][row][status] = @ + 1]

\* A send to a customer of job j: the server has accepted `accepted` mails of the row,
\* written with `template`.
Mails(j, row, accepted, template) ==
  /\ mails' = [mails EXCEPT ![j][row] = @ + accepted]
  /\ styles' = [styles EXCEPT
       ![j] = IF accepted = 1 THEN styles[j] \cup {template} ELSE styles[j]]

\* The fields of a run and of a row of the table have their types.
LEMMA FieldTypes ==
  ASSUME Base, NEW r \in Running
  PROVE  /\ runs[r].i \in Nat
         /\ runs[r].successCount \in Nat /\ runs[r].failCount \in Nat
         /\ runs[r].template \in Styles /\ runs[r].result \in Statuses
         /\ bulkJobs[r[1]].totalRows \in 0 .. MaxRows
         /\ bulkJobs[r[1]].totalRows \in Nat
         /\ bulkJobs[r[1]].processedCount \in Nat
         /\ bulkJobs[r[1]].successCount \in Nat /\ bulkJobs[r[1]].failCount \in Nat
         /\ bulkJobs[r[1]].status \in {"PENDING", "PROCESSING", "COMPLETED"}
         /\ queue[r[1]].stalls \in Nat /\ r[2] \in Nat
<1>1. runs[r] \in Run /\ bulkJobs[r[1]] \in BulkJob /\ queue[r[1]] \in QueueJob
      /\ r[2] \in 0 .. MaxStalledCount
  BY JobOfRun
<1>2. /\ runs[r].i \in Nat
      /\ runs[r].successCount \in Nat /\ runs[r].failCount \in Nat
      /\ runs[r].template \in Styles /\ runs[r].result \in Statuses
  BY <1>1 DEF Run
<1>3. /\ bulkJobs[r[1]].totalRows \in 0 .. MaxRows
      /\ bulkJobs[r[1]].processedCount \in Nat
      /\ bulkJobs[r[1]].successCount \in Nat /\ bulkJobs[r[1]].failCount \in Nat
      /\ bulkJobs[r[1]].status \in {"PENDING", "PROCESSING", "COMPLETED"}
  BY <1>1 DEF BulkJob
<1>4. queue[r[1]].stalls \in Nat /\ r[2] \in Nat
  BY <1>1, BulkAssumption DEF QueueJob
<1>5. bulkJobs[r[1]].totalRows \in Nat
  BY <1>3, BulkAssumption
<1> QED BY <1>2, <1>3, <1>4, <1>5

\* Lines 37-40 write the status and nothing else.
LEMMA MarkProcessingStep ==
  ASSUME Base, NEW r, MarkProcessing(r)
  PROVE  \E new, job :
           /\ Moves(r, new) /\ SamePlace(r, new)
           /\ runs[r].pc = "start" /\ new.pc = "emitStarted"
           /\ Writes(r[1], job) /\ SameCounts(r[1], job) /\ job.status = "PROCESSING"
           /\ UNCHANGED <<logs, settings, uploads, queue, room, mails, styles>>
<1> DEFINE new == [runs[r] EXCEPT !.pc = "emitStarted"]
           job == [bulkJobs[r[1]] EXCEPT !.status = "PROCESSING"]
<1>1. /\ r \in Running /\ runs[r].pc = "start"
      /\ runs' = [runs EXCEPT ![r] = new] /\ bulkJobs' = [bulkJobs EXCEPT ![r[1]] = job]
      /\ UNCHANGED <<logs, settings, uploads, queue, room, mails, styles>>
  BY DEF MarkProcessing, At, Goto, Sent
<1>2. runs[r] \in Run /\ bulkJobs[r[1]] \in BulkJob
  BY <1>1, JobOfRun
<1>3. new \in Run /\ SamePlace(r, new) /\ new.pc = "emitStarted"
  BY <1>2 DEF Run, SamePlace
<1>4. /\ job \in BulkJob /\ SameCounts(r[1], job) /\ job.status = "PROCESSING"
      /\ job.totalRows = bulkJobs[r[1]].totalRows
  BY <1>2 DEF BulkJob, SameCounts
<1> HIDE DEF new, job
<1> QED BY <1>1, <1>3, <1>4 DEF Moves, Writes

\* Line 41 sends the tallies of the run.
LEMMA EmitStartedStep ==
  ASSUME Base, NEW r, EmitStarted(r)
  PROVE  \E new, event :
           /\ Moves(r, new) /\ SamePlace(r, new)
           /\ runs[r].pc = "emitStarted" /\ new.pc = "getSettings"
           /\ Shows(r[1], event)
           /\ event.successCount = runs[r].successCount /\ event.failCount = runs[r].failCount
           /\ UNCHANGED <<bulkJobs, logs, settings, uploads, queue, mails, styles>>
<1> DEFINE new == [runs[r] EXCEPT !.pc = "getSettings"]
           event == [type |-> "job-started", successCount |-> runs[r].successCount,
                     failCount |-> runs[r].failCount]
<1>1. /\ r \in Running /\ runs[r].pc = "emitStarted"
      /\ runs' = [runs EXCEPT ![r] = new] /\ room' = [room EXCEPT ![r[1]] = event]
      /\ UNCHANGED <<bulkJobs, logs, settings, uploads, queue, mails, styles>>
  BY DEF EmitStarted, At, Goto, Push, Table, Sent
<1>2. /\ runs[r] \in Run
      /\ runs[r].successCount \in Nat /\ runs[r].failCount \in Nat
  BY <1>1, JobOfRun, FieldTypes
<1>3. new \in Run /\ SamePlace(r, new) /\ new.pc = "getSettings"
  BY <1>2 DEF Run, SamePlace
<1>4. event \in Event
  BY <1>2 DEF Event
<1> HIDE DEF new
<1> QED BY <1>1, <1>3, <1>4 DEF Moves, Shows

\* Lines 44-50 take the active template and go to the first row, if there is one.
LEMMA ReadSettingsStep ==
  ASSUME Base, NEW r, ReadSettings(r)
  PROVE  \E new :
           /\ Moves(r, new) /\ SamePlace(r, new)
           /\ runs[r].pc = "getSettings" /\ new.pc = NextRow(r, 0)
           /\ UNCHANGED <<bulkJobs, logs, settings, uploads, queue, room, mails, styles>>
<1> DEFINE new == [runs[r] EXCEPT !.template = ActiveTemplate, !.pc = NextRow(r, 0)]
<1>1. /\ r \in Running /\ runs[r].pc = "getSettings"
      /\ runs' = [runs EXCEPT ![r] = new]
      /\ UNCHANGED <<bulkJobs, logs, settings, uploads, queue, room, mails, styles>>
  BY DEF ReadSettings, At, Goto, Table, Sent
<1>2. runs[r] \in Run
  BY <1>1, JobOfRun
<1>3. ActiveTemplate \in Styles
  <2>1. settings \in Settings \cup {NULL}
    BY DEF Base, TypeOK
  <2>2. settings # NULL => settings.activeTemplate \in Styles
    BY <2>1 DEF Settings
  <2> QED BY <2>2 DEF ActiveTemplate, Styles
<1>4. NextRow(r, 0) \in {"send", "complete"}
  BY DEF NextRow
<1>5. new \in Run /\ SamePlace(r, new) /\ new.pc = NextRow(r, 0)
  BY <1>2, <1>3, <1>4 DEF Run, SamePlace
<1> HIDE DEF new
<1> QED BY <1>1, <1>5 DEF Moves

\* Lines 114-152 send one mail and keep its result.
LEMMA SendRowStep ==
  ASSUME Base, NEW r, NEW accepted \in {0, 1}, NEW result \in Statuses,
         SendRow(r, accepted, result)
  PROVE  \E new :
           /\ Moves(r, new) /\ SamePlace(r, new) /\ new.template = runs[r].template
           /\ runs[r].pc = "send" /\ new.pc = "log" /\ new.result = result
           /\ result = "SUCCESS" => accepted = 1
           /\ Mails(r[1], runs[r].i, accepted, runs[r].template)
           /\ UNCHANGED <<bulkJobs, logs, settings, uploads, queue, room>>
<1> DEFINE new == [runs[r] EXCEPT !.result = result, !.pc = "log"]
<1>1. /\ r \in Running /\ runs[r].pc = "send" /\ (result = "SUCCESS" => accepted = 1)
      /\ runs' = [runs EXCEPT ![r] = new]
      /\ UNCHANGED <<bulkJobs, logs, settings, uploads, queue, room>>
  BY DEF SendRow, Send, At, Goto, Table
<1>2. /\ Mails(r[1], runs[r].i, accepted, runs[r].template)
  BY DEF SendRow, Send, Mails
<1>3. runs[r] \in Run
  BY <1>1, JobOfRun
<1>4. /\ new \in Run /\ SamePlace(r, new) /\ new.template = runs[r].template
      /\ new.pc = "log" /\ new.result = result
  BY <1>3 DEF Run, SamePlace
<1> HIDE DEF new
<1> QED BY <1>1, <1>2, <1>4 DEF Moves

\* Lines 56-73 log the result of the row and add it to the tallies of the run.
LEMMA LogRowStep ==
  ASSUME Base, NEW r, LogRow(r)
  PROVE  \E new :
           /\ Moves(r, new) /\ new.template = runs[r].template
           /\ runs[r].pc = "log" /\ new.pc = "count" /\ new.i = runs[r].i
           /\ runs[r].result = "SUCCESS"
                => /\ new.successCount = runs[r].successCount + 1
                   /\ new.failCount = runs[r].failCount
           /\ runs[r].result = "FAILED"
                => /\ new.successCount = runs[r].successCount
                   /\ new.failCount = runs[r].failCount + 1
           /\ Logs(r[1], runs[r].i, runs[r].result)
           /\ UNCHANGED <<bulkJobs, settings, uploads, queue, room, mails, styles>>
<1> DEFINE run == runs[r]
           success == IF run.result = "SUCCESS" THEN run.successCount + 1 ELSE run.successCount
           fail == IF run.result = "FAILED" THEN run.failCount + 1 ELSE run.failCount
           new == [run EXCEPT !.successCount = success, !.failCount = fail, !.pc = "count"]
<1>1. /\ r \in Running /\ run.pc = "log"
      /\ UNCHANGED <<bulkJobs, settings, uploads, queue, room, mails, styles>>
      /\ Logs(r[1], run.i, run.result)
      /\ runs' = [runs EXCEPT ![r] = [Tally(run) EXCEPT !.pc = "count"]]
  BY DEF LogRow, At, Goto, Sent, Logs
<1>2. /\ run \in Run
      /\ run.successCount \in Nat /\ run.failCount \in Nat /\ run.result \in Statuses
  BY <1>1, JobOfRun, FieldTypes
<1>3. success \in Nat /\ fail \in Nat
  BY <1>2
<1>4. [Tally(run) EXCEPT !.pc = "count"] = new
  BY DEF Tally
<1> HIDE DEF success, fail, run
<1>5. /\ new \in Run /\ new.template = run.template /\ new.pc = "count" /\ new.i = run.i
      /\ new.successCount = success /\ new.failCount = fail
  BY <1>2, <1>3 DEF Run
<1> HIDE DEF new
<1>6. /\ run.result = "SUCCESS" => /\ new.successCount = run.successCount + 1
                                   /\ new.failCount = run.failCount
      /\ run.result = "FAILED" => /\ new.successCount = run.successCount
                                  /\ new.failCount = run.failCount + 1
  BY <1>5 DEF success, fail
<1> QED BY <1>1, <1>4, <1>5, <1>6 DEF Moves, run

\* Lines 75-85 overwrite the counters of the table.
LEMMA CountRowStep ==
  ASSUME Base, NEW r, CountRow(r)
  PROVE  \E new, job :
           /\ Moves(r, new) /\ SamePlace(r, new) /\ new.template = runs[r].template
           /\ runs[r].pc = "count" /\ new.pc = "emitRow"
           /\ Writes(r[1], job) /\ job.status = bulkJobs[r[1]].status
           /\ job.processedCount = runs[r].i + 1
           /\ job.successCount = runs[r].successCount /\ job.failCount = runs[r].failCount
           /\ UNCHANGED <<logs, settings, uploads, queue, room, mails, styles>>
<1> DEFINE new == [runs[r] EXCEPT !.pc = "emitRow"]
           job == [bulkJobs[r[1]] EXCEPT !.processedCount = runs[r].i + 1,
                                         !.successCount = runs[r].successCount,
                                         !.failCount = runs[r].failCount]
<1>1. /\ r \in Running /\ runs[r].pc = "count"
      /\ runs' = [runs EXCEPT ![r] = new]
      /\ UNCHANGED <<logs, settings, uploads, queue, room, mails, styles>>
      /\ bulkJobs' = [bulkJobs EXCEPT ![r[1]].processedCount = runs[r].i + 1,
                                      ![r[1]].successCount = runs[r].successCount,
                                      ![r[1]].failCount = runs[r].failCount]
  BY DEF CountRow, Count, At, Goto, Sent
<1>2. /\ runs[r] \in Run /\ bulkJobs[r[1]] \in BulkJob /\ r[1] \in JobIds
      /\ runs[r].successCount \in Nat /\ runs[r].failCount \in Nat /\ runs[r].i + 1 \in Nat
  BY <1>1, JobOfRun, FieldTypes
<1>3. bulkJobs' = [bulkJobs EXCEPT ![r[1]] = job]
  BY <1>1, <1>2 DEF Base, TypeOK
<1>4. new \in Run /\ SamePlace(r, new) /\ new.pc = "emitRow" /\ new.template = runs[r].template
  BY <1>2 DEF Run, SamePlace
<1>5. /\ job \in BulkJob /\ job.status = bulkJobs[r[1]].status
      /\ job.processedCount = runs[r].i + 1
      /\ job.successCount = runs[r].successCount /\ job.failCount = runs[r].failCount
      /\ job.totalRows = bulkJobs[r[1]].totalRows
  BY <1>2 DEF BulkJob
<1> HIDE DEF new, job
<1> QED BY <1>1, <1>3, <1>4, <1>5 DEF Moves, Writes

\* Lines 87-98 send the tallies of the run, which goes to the next row.
LEMMA EmitRowStep ==
  ASSUME Base, NEW r, EmitRow(r)
  PROVE  \E new, event :
           /\ Moves(r, new) /\ new.template = runs[r].template
           /\ runs[r].pc = "emitRow" /\ new.pc = NextRow(r, runs[r].i + 1)
           /\ new.i = runs[r].i + 1
           /\ new.successCount = runs[r].successCount /\ new.failCount = runs[r].failCount
           /\ Shows(r[1], event)
           /\ event.successCount = runs[r].successCount /\ event.failCount = runs[r].failCount
           /\ UNCHANGED <<bulkJobs, logs, settings, uploads, queue, mails, styles>>
<1> DEFINE next == NextRow(r, runs[r].i + 1)
           new == [runs[r] EXCEPT !.i = @ + 1, !.pc = next]
           event == [type |-> "row-processed", successCount |-> runs[r].successCount,
                     failCount |-> runs[r].failCount]
<1>1. /\ r \in Running /\ runs[r].pc = "emitRow"
      /\ runs' = [runs EXCEPT ![r] = new] /\ room' = [room EXCEPT ![r[1]] = event]
      /\ UNCHANGED <<bulkJobs, logs, settings, uploads, queue, mails, styles>>
  BY DEF EmitRow, At, Goto, Push, Table, Sent
<1>2. /\ runs[r] \in Run /\ runs[r].i + 1 \in Nat
      /\ runs[r].successCount \in Nat /\ runs[r].failCount \in Nat
  BY <1>1, JobOfRun, FieldTypes
<1>3. next \in {"send", "complete"}
  BY DEF NextRow
<1> HIDE DEF next
<1>4. /\ new \in Run /\ new.pc = next /\ new.i = runs[r].i + 1
      /\ new.successCount = runs[r].successCount /\ new.failCount = runs[r].failCount
      /\ new.template = runs[r].template
  BY <1>2, <1>3 DEF Run
<1>5. event \in Event
  BY <1>2 DEF Event
<1> HIDE DEF new
<1> QED BY <1>1, <1>4, <1>5 DEF Moves, Shows, next

\* Lines 101-104 write the status and nothing else.
LEMMA MarkCompletedStep ==
  ASSUME Base, NEW r, MarkCompleted(r)
  PROVE  \E new, job :
           /\ Moves(r, new) /\ SamePlace(r, new) /\ new.template = runs[r].template
           /\ runs[r].pc = "complete" /\ new.pc = "emitCompleted"
           /\ Writes(r[1], job) /\ SameCounts(r[1], job) /\ job.status = "COMPLETED"
           /\ UNCHANGED <<logs, settings, uploads, queue, room, mails, styles>>
<1> DEFINE new == [runs[r] EXCEPT !.pc = "emitCompleted"]
           job == [bulkJobs[r[1]] EXCEPT !.status = "COMPLETED"]
<1>1. /\ r \in Running /\ runs[r].pc = "complete"
      /\ runs' = [runs EXCEPT ![r] = new] /\ bulkJobs' = [bulkJobs EXCEPT ![r[1]] = job]
      /\ UNCHANGED <<logs, settings, uploads, queue, room, mails, styles>>
  BY DEF MarkCompleted, At, Goto, Sent
<1>2. runs[r] \in Run /\ bulkJobs[r[1]] \in BulkJob
  BY <1>1, JobOfRun
<1>3. /\ new \in Run /\ SamePlace(r, new) /\ new.pc = "emitCompleted"
      /\ new.template = runs[r].template
  BY <1>2 DEF Run, SamePlace
<1>4. /\ job \in BulkJob /\ SameCounts(r[1], job) /\ job.status = "COMPLETED"
      /\ job.totalRows = bulkJobs[r[1]].totalRows
  BY <1>2 DEF BulkJob, SameCounts
<1> HIDE DEF new, job
<1> QED BY <1>1, <1>3, <1>4 DEF Moves, Writes

\* A run that is over is filed as `state`, if it still holds the lock of its job.
Ends(r, state) ==
  /\ r \in Running
  /\ runs' = [runs EXCEPT ![r] = NULL]
  /\ \/ queue' = queue
     \/ /\ Current(r)
        /\ \E job \in QueueJob : /\ queue' = [queue EXCEPT ![r[1]] = job]
                                 /\ job.state = state
                                 /\ job.stalls = queue[r[1]].stalls

\* EndRun() does that.
LEMMA EndRunStep ==
  ASSUME Base, NEW r \in Running, NEW state \in {"completed", "failed"},
         NEW reason \in FailedReasons, EndRun(r, state, reason)
  PROVE  Ends(r, state)
<1> DEFINE job == [queue[r[1]] EXCEPT !.state = state, !.failedReason = reason]
<1>1. r[1] \in JobIds /\ queue[r[1]] \in QueueJob
  BY JobOfRun
<1>2. /\ runs' = [runs EXCEPT ![r] = NULL]
      /\ queue' = IF Current(r)
                  THEN [queue EXCEPT ![r[1]].state = state, ![r[1]].failedReason = reason]
                  ELSE queue
  BY DEF EndRun
<1>3. Current(r) => queue' = [queue EXCEPT ![r[1]] = job]
  BY <1>1, <1>2 DEF Base, TypeOK
<1>4. /\ job \in QueueJob /\ job.state = state /\ job.stalls = queue[r[1]].stalls
      /\ job.failedReason = reason
  BY <1>1 DEF QueueJob
<1> HIDE DEF job
<1> QED BY <1>2, <1>3, <1>4 DEF Ends

\* Lines 105-112 send the tallies of the run, and process() returns.
LEMMA EmitCompletedStep ==
  ASSUME Base, NEW r, EmitCompleted(r)
  PROVE  \E event :
           /\ Ends(r, "completed") /\ runs[r].pc = "emitCompleted"
           /\ Shows(r[1], event)
           /\ event.successCount = runs[r].successCount /\ event.failCount = runs[r].failCount
           /\ UNCHANGED <<bulkJobs, logs, settings, uploads, mails, styles>>
<1> DEFINE event == [type |-> "job-completed", successCount |-> runs[r].successCount,
                     failCount |-> runs[r].failCount]
<1>1. /\ r \in Running /\ runs[r].pc = "emitCompleted"
      /\ EndRun(r, "completed", "none") /\ room' = [room EXCEPT ![r[1]] = event]
      /\ UNCHANGED <<bulkJobs, logs, settings, uploads, mails, styles>>
  BY DEF EmitCompleted, At, Push, Table, Sent
<1>2. Ends(r, "completed")
  BY <1>1, EndRunStep DEF FailedReasons
<1>3. runs[r].successCount \in Nat /\ runs[r].failCount \in Nat
  BY <1>1, FieldTypes
<1>4. event \in Event
  BY <1>3 DEF Event
<1> QED BY <1>1, <1>2, <1>4 DEF Shows

\* A rejected call ends the run; the table and the rooms stay as they are.
LEMMA ThrowStep ==
  ASSUME Base, NEW r, Throw(r)
  PROVE  /\ Ends(r, "failed")
         /\ UNCHANGED <<bulkJobs, logs, settings, uploads, room, mails, styles>>
<1>1. /\ r \in Running /\ EndRun(r, "failed", "rejected call")
      /\ UNCHANGED <<bulkJobs, logs, settings, uploads, room, mails, styles>>
  BY DEF Throw, Table, Sent
<1>2. Ends(r, "failed")
  BY <1>1, EndRunStep DEF FailedReasons
<1> QED BY <1>1, <1>2

-----------------------------------------------------------------------------
\* The inductive invariant

\* Rows that run has logged, and rows it has tried to mail.
LoggedBy(run) == IF run.pc \in {"count", "emitRow"} THEN run.i + 1 ELSE run.i
TriedBy(run) == IF run.pc \in {"log", "count", "emitRow"} THEN run.i + 1 ELSE run.i

\* Where a run is in the sheet of its job, and what it has tallied on the way.
RunFits(run, job) ==
  /\ run.pc \in {"start", "emitStarted", "getSettings"} => run.i = 0
  /\ run.pc \in {"send", "log", "count", "emitRow"} => run.i < job.totalRows
  /\ run.pc \in {"complete", "emitCompleted"} => run.i = job.totalRows
  /\ run.pc # "start" => job.status # "PENDING"
  /\ run.successCount + run.failCount = LoggedBy(run)

RunsFit == \A r \in Running : RunFits(runs[r], bulkJobs[r[1]])

\* The rows that are logged are the first rows of the sheet, and every row a run has
\* behind it is among them.
LogsInOrder ==
  /\ \A j \in JobIds :
       /\ bulkJobs[j] = NULL => LoggedRows(j) = {}
       /\ bulkJobs[j] # NULL => LoggedRows(j) \subseteq RowsOf(j)
       /\ \A row \in LoggedRows(j) : 0 .. (row - 1) \subseteq LoggedRows(j)
  /\ \A r \in Running : 0 .. (LoggedBy(runs[r]) - 1) \subseteq LoggedRows(r[1])

\* The rows before `row` that have an entry of this status.
LoggedBelow(j, status, row) == { i \in Logged(j, status) : i < row }

\* A run has tallied no more of a result than the log has rows of it.
TalliesAreLogged ==
  \A r \in Running :
    LET run == runs[r]
    IN  /\ run.successCount <= Cardinality(LoggedBelow(r[1], "SUCCESS", LoggedBy(run)))
        /\ run.failCount <= Cardinality(LoggedBelow(r[1], "FAILED", LoggedBy(run)))

\* What is shown of a job, wherever it is, is no more than the log has.
ShownIsLogged(j, shown) ==
  /\ shown.successCount <= Cardinality(Logged(j, "SUCCESS"))
  /\ shown.failCount <= Cardinality(Logged(j, "FAILED"))

RoomsAreLogged == \A j \in JobIds : ShownIsLogged(j, room[j])

\* Runs of the job, by the stalls before them, that have a mail accepted for this row
\* and not logged yet.
ToLog(j, row) ==
  { k \in 0 .. MaxStalledCount :
      /\ runs[<<j, k>>] # NULL
      /\ runs[<<j, k>>].pc = "log"
      /\ runs[<<j, k>>].i = row
      /\ runs[<<j, k>>].result = "SUCCESS" }

\* Each of them has a mail of its own.
SuccessesMailed ==
  \A j \in JobIds, row \in Rows :
    logs[j][row]["SUCCESS"] + Cardinality(ToLog(j, row)) <= mails[j][row]

\* Runs of the job that may still mail this row.
MayMail(j, row) ==
  { k \in 0 .. MaxStalledCount :
      runs[<<j, k>>] # NULL /\ TriedBy(runs[<<j, k>>]) <= row }

\* How many runs of the job there have been.
Started(j) ==
  IF queue[j].state \in {"none", "waiting"} THEN queue[j].stalls
  ELSE LeastOf(queue[j].stalls, MaxStalledCount) + 1

\* The mails of a row and the runs that may still send one are no more than the runs
\* there have been.
SendsCounted ==
  \A j \in JobIds, row \in Rows :
    mails[j][row] + Cardinality(MayMail(j, row)) <= Started(j)

BulkInv ==
  /\ Base /\ RunsFit /\ LogsInOrder /\ CompletedJobsAreLogged
  /\ TalliesAreLogged /\ CountsAreLogged /\ RoomsAreLogged
  /\ SuccessesMailed /\ SendsCounted

-----------------------------------------------------------------------------
\* Types, for every step

\* The table has its type and the rows it had.
TableKept ==
  /\ bulkJobs' \in [JobIds -> BulkJob \cup {NULL}]
  /\ \A j \in JobIds : bulkJobs'[j] = NULL <=> bulkJobs[j] = NULL

\* A rewritten row is a row.
LEMMA WritesKeepTable ==
  ASSUME Base, NEW r \in Running, NEW job, Writes(r[1], job)
  PROVE  /\ TableKept
         /\ bulkJobs'[r[1]] = job
         /\ \A j \in JobIds : j # r[1] => bulkJobs'[j] = bulkJobs[j]
<1>1. r[1] \in JobIds /\ bulkJobs[r[1]] # NULL
  BY JobOfRun
<1>2. job \in BulkJob /\ job # NULL
  BY BulkAssumption DEF Writes
<1>3. bulkJobs' = [bulkJobs EXCEPT ![r[1]] = job]
  BY DEF Writes
<1> QED BY <1>1, <1>2, <1>3 DEF Base, TypeOK, TableKept

\* A run that goes on is the only one that changes.
LEMMA MovesOneRun ==
  ASSUME Base, NEW r, NEW new, Moves(r, new)
  PROVE  /\ runs' \in [RunIds -> Run \cup {NULL}]
         /\ runs'[r] = new /\ new # NULL
         /\ \A s \in RunIds : s # r => runs'[s] = runs[s]
         /\ Running' = Running
<1>1. r \in Running /\ r \in RunIds /\ new \in Run /\ runs' = [runs EXCEPT ![r] = new]
  BY DEF Moves, Running
<1>2. new # NULL
  BY <1>1, BulkAssumption
<1>3. /\ runs' \in [RunIds -> Run \cup {NULL}]
      /\ runs'[r] = new
      /\ \A s \in RunIds : s # r => runs'[s] = runs[s]
  BY <1>1 DEF Base, TypeOK
<1>4. Running' = Running
  BY <1>1, <1>2, <1>3 DEF Running
<1> QED BY <1>1, <1>2, <1>3, <1>4

\* A run that ends is gone, and at most its job is filed.
LEMMA EndsOneRun ==
  ASSUME Base, NEW r, NEW state \in {"completed", "failed"}, Ends(r, state)
  PROVE  /\ runs' \in [RunIds -> Run \cup {NULL}]
         /\ queue' \in [JobIds -> QueueJob]
         /\ runs'[r] = NULL
         /\ \A s \in RunIds : s # r => runs'[s] = runs[s]
         /\ Running' = Running \ {r}
         /\ \A j \in JobIds :
              /\ queue'[j].stalls = queue[j].stalls
              /\ \/ queue'[j].state = queue[j].state
                 \/ j = r[1] /\ Current(r) /\ queue'[j].state = state
<1>1. r \in Running /\ r \in RunIds /\ runs' = [runs EXCEPT ![r] = NULL]
  BY DEF Ends, Running
<1>2. /\ runs' \in [RunIds -> Run \cup {NULL}]
      /\ runs'[r] = NULL
      /\ \A s \in RunIds : s # r => runs'[s] = runs[s]
  BY <1>1 DEF Base, TypeOK
<1>3. Running' = Running \ {r}
  BY <1>1, <1>2 DEF Running
<1>4. r[1] \in JobIds
  BY <1>1, RunNames
<1>5. CASE queue' = queue
  BY <1>2, <1>3, <1>5 DEF Base, TypeOK
<1>6. CASE Current(r) /\ \E job \in QueueJob :
              /\ queue' = [queue EXCEPT ![r[1]] = job]
              /\ job.state = state
              /\ job.stalls = queue[r[1]].stalls
  <2>1. PICK job \in QueueJob : /\ queue' = [queue EXCEPT ![r[1]] = job]
                                /\ job.state = state
                                /\ job.stalls = queue[r[1]].stalls
    BY <1>6
  <2>2. queue'[r[1]] = job /\ \A j \in JobIds : j # r[1] => queue'[j] = queue[j]
    BY <1>4, <2>1 DEF Base, TypeOK
  <2>3. queue' \in [JobIds -> QueueJob]
    BY <1>4, <2>1 DEF Base, TypeOK
  <2> QED BY <1>2, <1>3, <1>6, <2>1, <2>2, <2>3
<1> QED BY <1>5, <1>6 DEF Ends

\* A run that mails or logs a row is inside its sheet.
LEMMA RowOfRun ==
  ASSUME Base, RunsFit, NEW r \in Running, runs[r].pc \in {"send", "log", "count", "emitRow"}
  PROVE  runs[r].i \in Rows /\ runs[r].i < TotalRows(r) /\ runs[r].i \in RowsOf(r[1])
<1>1. runs[r].i < TotalRows(r)
  BY DEF RunsFit, RunFits, TotalRows
<1>2. /\ runs[r].i \in Nat /\ TotalRows(r) \in 0 .. MaxRows
  BY FieldTypes DEF TotalRows
<1> QED BY <1>1, <1>2, BulkAssumption DEF Rows, RowsOf, TotalRows

\* A new entry in the log counts for its row and its status alone.
LEMMA OneEntryMore ==
  ASSUME TypeOK, NEW j \in JobIds, NEW row \in Rows, NEW status \in Statuses,
         Logs(j, row, status)
  PROVE  /\ logs' \in [JobIds -> [Rows -> [Statuses -> Nat]]]
         /\ logs'[j][row][status] = logs[j][row][status] + 1
         /\ \A i \in JobIds, other \in Rows, result \in Statuses :
              <<i, other, result>> # <<j, row, status>>
                => logs'[i][other][result] = logs[i][other][result]
<1>1. logs \in [JobIds -> [Rows -> [Statuses -> Nat]]]
  BY DEF TypeOK
<1>2. logs[j][row][status] + 1 \in Nat
  BY <1>1
<1> QED BY <1>1, <1>2 DEF Logs

\* One mail more of a row, or none.
LEMMA MailsOfOneRow ==
  ASSUME TypeOK, NEW j \in JobIds, NEW row \in Rows, NEW accepted \in {0, 1},
         NEW template \in Styles, Mails(j, row, accepted, template)
  PROVE  /\ mails' \in [JobIds -> [Rows -> Nat]]
         /\ styles' \in [JobIds -> SUBSET Styles]
         /\ styles'[j] \subseteq styles[j] \cup {template}
         /\ \A i \in JobIds : i # j => styles'[i] = styles[i]
         /\ mails'[j][row] = mails[j][row] + accepted
         /\ \A i \in JobIds, other \in Rows :
              <<i, other>> # <<j, row>> => mails'[i][other] = mails[i][other]
<1>1. mails \in [JobIds -> [Rows -> Nat]]
  BY DEF TypeOK
<1>2. mails[j][row] + accepted \in Nat
  BY <1>1
<1>3. mails' = [mails EXCEPT ![j][row] = @ + accepted]
  BY DEF Mails
<1> DEFINE new == IF accepted = 1 THEN styles[j] \cup {template} ELSE styles[j]
<1>4. new \in SUBSET Styles /\ new \subseteq styles[j] \cup {template}
  BY DEF TypeOK
<1>5. styles' = [styles EXCEPT ![j] = new]
  BY DEF Mails
<1> HIDE DEF new
<1>6. /\ styles' \in [JobIds -> SUBSET Styles]
      /\ styles'[j] \subseteq styles[j] \cup {template}
      /\ \A i \in JobIds : i # j => styles'[i] = styles[i]
  BY <1>4, <1>5 DEF TypeOK
<1> QED BY <1>1, <1>2, <1>3, <1>6

\* Types and the fit with the queue are kept when a run ends.
LEMMA EndsKeepBase ==
  ASSUME Base, NEW r, NEW state \in {"completed", "failed"}, Ends(r, state),
         room' \in [JobIds -> Event],
         UNCHANGED <<bulkJobs, logs, settings, uploads, mails, styles>>
  PROVE  Base'
<1>1. TypeOK'
  BY EndsOneRun DEF Base, TypeOK
<1>2. r \in RunIds /\ r = <<r[1], r[2]>> /\ r[1] \in JobIds /\ r[2] \in 0 .. MaxStalledCount
  BY RunNames DEF Ends, Running
<1>3. ASSUME NEW j \in JobIds
      PROVE  /\ j \in uploads' => queue'[j].state = "none" /\ bulkJobs'[j] # NULL
             /\ bulkJobs'[j] = NULL => queue'[j].state = "none"
             /\ queue'[j].state = "none" => queue'[j].stalls = 0
             /\ queue'[j].state \in {"waiting", "active", "completed"}
                  => queue'[j].stalls <= MaxStalledCount
  BY EndsOneRun DEF Base, QueueFits, Current
<1>4. ASSUME NEW j \in JobIds, NEW k \in 0 .. MaxStalledCount, runs'[<<j, k>>] # NULL
      PROVE  k < queue'[j].stalls \/ (k = queue'[j].stalls /\ queue'[j].state = "active")
  <2>1. <<j, k>> \in RunIds
    BY DEF RunIds
  <2>2. <<j, k>> # r /\ runs[<<j, k>>] # NULL
    BY <1>4, <2>1, EndsOneRun
  <2>3. k < queue[j].stalls \/ (k = queue[j].stalls /\ queue[j].state = "active")
    BY <2>2 DEF Base, QueueFits
  <2>4. CASE queue'[j].state = queue[j].state
    BY <2>3, <2>4, EndsOneRun
  <2>5. CASE j = r[1] /\ Current(r)
    <3>1. k # r[2] /\ queue[j].stalls = r[2]
      BY <1>2, <2>2, <2>5 DEF Current
    <3> QED BY <2>3, <3>1, EndsOneRun
  <2> QED BY <2>4, <2>5, EndsOneRun
<1>5. QueueFits'
  BY <1>3, <1>4 DEF QueueFits
<1> QED BY <1>1, <1>5 DEF Base

\* Types and the fit with the queue are kept by a step of process().
LEMMA ProcessKeepsBase ==
  ASSUME Base, RunsFit, NEW r \in RunIds, Process(r)
  PROVE  Base'
<1> DEFINE Kept == \A j \in JobIds, k \in 0 .. MaxStalledCount :
                     runs'[<<j, k>>] # NULL => runs[<<j, k>>] # NULL
<1>1. ASSUME TableKept, UNCHANGED <<queue, uploads>>, NEW new, Moves(r, new)
      PROVE  QueueFits'
  <2>1. Kept
    BY <1>1, MovesOneRun DEF Moves, Running, RunIds
  <2> QED BY <1>1, <2>1 DEF Base, QueueFits, TableKept
<1>2. UNCHANGED bulkJobs => TableKept
  BY DEF Base, TypeOK, TableKept
<1>3. CASE MarkProcessing(r)
  <2>1. PICK new, job : /\ Moves(r, new) /\ Writes(r[1], job)
                        /\ UNCHANGED <<logs, settings, uploads, queue, room, mails, styles>>
    BY <1>3, MarkProcessingStep
  <2>2. TableKept
    BY <2>1, WritesKeepTable DEF Moves
  <2>3. runs' \in [RunIds -> Run \cup {NULL}]
    BY <2>1, MovesOneRun
  <2> QED BY <1>1, <2>1, <2>2, <2>3 DEF Base, TypeOK, TableKept
<1>4. CASE EmitStarted(r)
  <2>1. PICK new, event : /\ Moves(r, new) /\ Shows(r[1], event)
                          /\ UNCHANGED <<bulkJobs, logs, settings, uploads, queue, mails, styles>>
    BY <1>4, EmitStartedStep
  <2>2. runs' \in [RunIds -> Run \cup {NULL}] /\ room' \in [JobIds -> Event]
    BY <2>1, MovesOneRun DEF Shows, Base, TypeOK
  <2> QED BY <1>1, <1>2, <2>1, <2>2 DEF Base, TypeOK
<1>5. CASE ReadSettings(r)
  <2>1. PICK new : /\ Moves(r, new)
                   /\ UNCHANGED <<bulkJobs, logs, settings, uploads, queue, room, mails, styles>>
    BY <1>5, ReadSettingsStep
  <2>2. runs' \in [RunIds -> Run \cup {NULL}]
    BY <2>1, MovesOneRun
  <2> QED BY <1>1, <1>2, <2>1, <2>2 DEF Base, TypeOK
<1>6. ASSUME NEW accepted \in {0, 1}, NEW result \in Statuses, SendRow(r, accepted, result)
      PROVE  Base'
  <2>1. PICK new : /\ Moves(r, new) /\ runs[r].pc = "send"
                   /\ Mails(r[1], runs[r].i, accepted, runs[r].template)
                   /\ UNCHANGED <<bulkJobs, logs, settings, uploads, queue, room>>
    BY <1>6, SendRowStep
  <2>2. r \in Running
    BY <2>1 DEF Moves
  <2>3. r[1] \in JobIds /\ runs[r].i \in Rows /\ runs[r].template \in Styles
    BY <2>1, <2>2, JobOfRun, RowOfRun, FieldTypes
  <2>4. mails' \in [JobIds -> [Rows -> Nat]] /\ styles' \in [JobIds -> SUBSET Styles]
    BY <2>1, <2>3, MailsOfOneRow DEF Base
  <2>5. runs' \in [RunIds -> Run \cup {NULL}]
    BY <2>1, MovesOneRun
  <2> QED BY <1>1, <1>2, <2>1, <2>4, <2>5 DEF Base, TypeOK
<1>7. CASE LogRow(r)
  <2>1. PICK new : /\ Moves(r, new) /\ runs[r].pc = "log"
                   /\ Logs(r[1], runs[r].i, runs[r].result)
                   /\ UNCHANGED <<bulkJobs, settings, uploads, queue, room, mails, styles>>
    BY <1>7, LogRowStep
  <2>2. r \in Running
    BY <2>1 DEF Moves
  <2>3. r[1] \in JobIds /\ runs[r].i \in Rows /\ runs[r].result \in Statuses
    BY <2>1, <2>2, JobOfRun, RowOfRun, FieldTypes
  <2>4. logs' \in [JobIds -> [Rows -> [Statuses -> Nat]]]
    BY <2>1, <2>3, OneEntryMore DEF Base
  <2>5. runs' \in [RunIds -> Run \cup {NULL}]
    BY <2>1, MovesOneRun
  <2> QED BY <1>1, <1>2, <2>1, <2>4, <2>5 DEF Base, TypeOK
<1>8. CASE CountRow(r)
  <2>1. PICK new, job : /\ Moves(r, new) /\ Writes(r[1], job)
                        /\ UNCHANGED <<logs, settings, uploads, queue, room, mails, styles>>
    BY <1>8, CountRowStep
  <2>2. TableKept
    BY <2>1, WritesKeepTable DEF Moves
  <2>3. runs' \in [RunIds -> Run \cup {NULL}]
    BY <2>1, MovesOneRun
  <2> QED BY <1>1, <2>1, <2>2, <2>3 DEF Base, TypeOK, TableKept
<1>9. CASE EmitRow(r)
  <2>1. PICK new, event : /\ Moves(r, new) /\ Shows(r[1], event)
                          /\ UNCHANGED <<bulkJobs, logs, settings, uploads, queue, mails, styles>>
    BY <1>9, EmitRowStep
  <2>2. runs' \in [RunIds -> Run \cup {NULL}] /\ room' \in [JobIds -> Event]
    BY <2>1, MovesOneRun DEF Shows, Base, TypeOK
  <2> QED BY <1>1, <1>2, <2>1, <2>2 DEF Base, TypeOK
<1>10. CASE MarkCompleted(r)
  <2>1. PICK new, job : /\ Moves(r, new) /\ Writes(r[1], job)
                        /\ UNCHANGED <<logs, settings, uploads, queue, room, mails, styles>>
    BY <1>10, MarkCompletedStep
  <2>2. TableKept
    BY <2>1, WritesKeepTable DEF Moves
  <2>3. runs' \in [RunIds -> Run \cup {NULL}]
    BY <2>1, MovesOneRun
  <2> QED BY <1>1, <2>1, <2>2, <2>3 DEF Base, TypeOK, TableKept
<1>11. CASE EmitCompleted(r)
  <2>1. PICK event : /\ Ends(r, "completed") /\ Shows(r[1], event)
                     /\ UNCHANGED <<bulkJobs, logs, settings, uploads, mails, styles>>
    BY <1>11, EmitCompletedStep
  <2>2. room' \in [JobIds -> Event]
    BY <2>1 DEF Shows, Base, TypeOK
  <2> QED BY <2>1, <2>2, EndsKeepBase
<1> QED
  BY <1>3, <1>4, <1>5, <1>6, <1>7, <1>8, <1>9, <1>10, <1>11 DEF Process

\* Staff's choice of a template.
LEMMA SettingsSteps ==
  ASSUME Base, NEW template \in Templates,
         SetActiveTemplate(template) \/ ClearActiveTemplate
  PROVE  /\ settings' \in Settings
         /\ UNCHANGED <<bulkJobs, logs, uploads, queue, runs, room, mails, styles>>
<1>1. PICK active \in Styles : WriteSettings(active)
  BY DEF SetActiveTemplate, ClearActiveTemplate, Styles
<1>2. settings \in Settings
  BY <1>1 DEF WriteSettings, Base, TypeOK
<1>3. settings' = [settings EXCEPT !.activeTemplate = active]
  BY <1>1 DEF WriteSettings
<1>4. settings' \in Settings
  BY <1>2, <1>3 DEF Settings
<1> QED BY <1>1, <1>4 DEF WriteSettings, Table, Sent

\* Types and the fit of the queue with the table and the runs, for every step.
LEMMA BaseStep ==
  ASSUME Base, RunsFit, [Next]_vars
  PROVE  Base'
<1>1. ASSUME NEW j \in JobIds, NEW rows \in 0 .. MaxRows, CreateBulkJob(j, rows)
      PROVE  Base'
  BY <1>1, QueueSteps
<1>2. ASSUME NEW j \in JobIds, Upload(j) \/ TakeBulk(j) \/ Stall(j)
      PROVE  Base'
  <2>1. 0 \in 0 .. MaxRows
    BY BulkAssumption
  <2> QED BY <1>2, <2>1, QueueSteps
<1>3. ASSUME NEW template \in Templates, SetActiveTemplate(template) \/ ClearActiveTemplate
      PROVE  Base'
  BY <1>3, SettingsSteps DEF Base, TypeOK, QueueFits
<1>4. ASSUME NEW r \in RunIds, Process(r)
      PROVE  Base'
  BY <1>4, ProcessKeepsBase
<1>5. ASSUME NEW r \in RunIds, Throw(r)
      PROVE  Base'
  <2>1. room' \in [JobIds -> Event]
    BY <1>5, ThrowStep DEF Base, TypeOK
  <2> QED BY <1>5, <2>1, ThrowStep, EndsKeepBase
<1>6. CASE Crash
  BY <1>6 DEF Crash, Base, TypeOK, QueueFits, RunIds, Table, Sent
<1>7. CASE UNCHANGED vars
  BY <1>7 DEF vars, Base, TypeOK, QueueFits
<1> QED BY <1>1, <1>2, <1>3, <1>4, <1>5, <1>6, <1>7 DEF Next, Elsewhere

-----------------------------------------------------------------------------
\* The kinds of steps

\* Nothing is written to the tables or sent to a customer, and no run does anything
\* but end.
Quiet ==
  /\ UNCHANGED <<bulkJobs, logs, mails, styles>>
  /\ Running' \subseteq Running
  /\ \A r \in Running' : runs'[r] = runs[r]

\* Run r does one of its steps but the last.
Advances(r) ==
  \/ MarkProcessing(r)
  \/ EmitStarted(r)
  \/ ReadSettings(r)
  \/ \E accepted \in {0, 1}, result \in Statuses : SendRow(r, accepted, result)
  \/ LogRow(r)
  \/ CountRow(r)
  \/ EmitRow(r)
  \/ MarkCompleted(r)

\* Every step stores an upload, starts a run, is a step of a run, or is quiet; a quiet
\* step that is not the end of a run shows nobody anything.
LEMMA StepKinds ==
  ASSUME Base, [Next]_vars
  PROVE  \/ \E j \in JobIds, rows \in 0 .. MaxRows : CreateBulkJob(j, rows)
         \/ \E j \in JobIds : TakeBulk(j)
         \/ \E r \in RunIds : Advances(r)
         \/ Quiet /\ (UNCHANGED room \/ \E r \in RunIds : EmitCompleted(r))
<1> DEFINE Silent == Quiet /\ (UNCHANGED room \/ \E r \in RunIds : EmitCompleted(r))
<1>1. UNCHANGED runs => /\ Running' \subseteq Running
                        /\ \A r \in Running' : runs'[r] = runs[r]
  BY DEF Running
<1>2. ASSUME NEW j \in JobIds, Upload(j)
      PROVE  Silent
  BY <1>1, <1>2 DEF Upload, EnqueueBulk, EnqueueRejected, Table, Sent, Quiet
<1>3. ASSUME NEW j \in JobIds, Stall(j)
      PROVE  Silent
  <2>1. UNCHANGED <<bulkJobs, logs, runs, room, mails, styles>>
    BY <1>3 DEF Stall, Table, Sent
  <2> QED BY <1>1, <2>1 DEF Quiet
<1>4. ASSUME NEW template \in Templates, SetActiveTemplate(template) \/ ClearActiveTemplate
      PROVE  Silent
  BY <1>1, <1>4, SettingsSteps DEF Quiet
<1>5. ASSUME NEW r, NEW state \in {"completed", "failed"}, Ends(r, state)
      PROVE  Running' \subseteq Running /\ \A s \in Running' : runs'[s] = runs[s]
  BY <1>5, EndsOneRun DEF Running
<1>6. ASSUME NEW r \in RunIds, EmitCompleted(r)
      PROVE  Silent
  BY <1>5, <1>6, EmitCompletedStep DEF Quiet
<1>7. ASSUME NEW r \in RunIds, Throw(r)
      PROVE  Silent
  BY <1>5, <1>7, ThrowStep DEF Quiet
<1>8. CASE Crash
  <2>1. Running' = {}
    BY <1>8 DEF Crash, Running
  <2> QED BY <1>8, <2>1 DEF Crash, Table, Sent, Quiet
<1>9. CASE UNCHANGED vars
  BY <1>1, <1>9 DEF vars, Quiet
<1> QED
  BY <1>2, <1>3, <1>4, <1>6, <1>7, <1>8, <1>9 DEF Next, Elsewhere, Process, Advances

\* A new upload has no run, no entry in the log and no mail.
LEMMA CreateStep ==
  ASSUME Base, NEW j \in JobIds, NEW rows \in 0 .. MaxRows, CreateBulkJob(j, rows)
  PROVE  /\ bulkJobs[j] = NULL /\ bulkJobs'[j] # NULL
         /\ bulkJobs'[j].status = "PENDING" /\ bulkJobs'[j].totalRows = rows
         /\ bulkJobs'[j].processedCount = 0
         /\ bulkJobs'[j].successCount = 0 /\ bulkJobs'[j].failCount = 0
         /\ \A i \in JobIds : i # j => bulkJobs'[i] = bulkJobs[i]
         /\ \A r \in Running : r[1] # j
         /\ Running' = Running
         /\ UNCHANGED <<logs, settings, queue, runs, room, mails, styles>>
<1> DEFINE job == [status |-> "PENDING", totalRows |-> rows,
                   processedCount |-> 0, successCount |-> 0, failCount |-> 0]
<1>1. bulkJobs[j] = NULL /\ bulkJobs' = [bulkJobs EXCEPT ![j] = job]
      /\ UNCHANGED <<logs, settings, queue, runs, room, mails, styles>>
  BY DEF CreateBulkJob, Sent
<1>2. /\ job \in BulkJob /\ job # NULL
      /\ job.status = "PENDING" /\ job.totalRows = rows
      /\ job.processedCount = 0 /\ job.successCount = 0 /\ job.failCount = 0
  BY BulkAssumption DEF BulkJob
<1>3. \A r \in Running : r[1] # j
  BY <1>1, JobOfRun
<1>4. Running' = Running
  BY <1>1 DEF Running
<1> HIDE DEF job
<1>5. bulkJobs'[j] = job /\ \A i \in JobIds : i # j => bulkJobs'[i] = bulkJobs[i]
  BY <1>1 DEF Base, TypeOK
<1> QED BY <1>1, <1>2, <1>3, <1>4, <1>5

\* A job that is taken has a new run, at its first row.
LEMMA TakeStep ==
  ASSUME Base, NEW j \in JobIds, TakeBulk(j)
  PROVE  \E r \in RunIds :
           /\ r = <<j, queue[j].stalls>> /\ r \notin Running
           /\ Running' = Running \cup {r}
           /\ runs'[r] = NewRun /\ NewRun # NULL
           /\ \A s \in RunIds : s # r => runs'[s] = runs[s]
           /\ queue[j].state = "waiting" /\ bulkJobs[j] # NULL
           /\ queue' = [queue EXCEPT ![j].state = "active"]
           /\ UNCHANGED <<bulkJobs, logs, settings, uploads, room, mails, styles>>
<1> DEFINE r == <<j, queue[j].stalls>>
<1>1. queue[j].state = "waiting" /\ queue' = [queue EXCEPT ![j].state = "active"]
      /\ runs' = [runs EXCEPT ![r] = NewRun]
      /\ UNCHANGED <<bulkJobs, logs, settings, uploads, room, mails, styles>>
  BY DEF TakeBulk, Goto, Table, Sent
<1>2. queue[j].stalls \in 0 .. MaxStalledCount
  <2>1. queue[j] \in QueueJob
    BY DEF Base, TypeOK
  <2>2. queue[j].stalls \in Nat
    BY <2>1, BulkAssumption DEF QueueJob
  <2>3. queue[j].stalls <= MaxStalledCount
    BY <1>1 DEF Base, QueueFits
  <2> QED BY <2>2, <2>3, BulkAssumption
<1>3. r \in RunIds
  BY <1>2 DEF RunIds
<1>4. r \notin Running
  BY <1>1, <1>2 DEF Running, Base, QueueFits
<1>5. NewRun \in Run /\ NewRun # NULL
  BY BulkAssumption DEF NewRun, Run, Styles, Statuses
<1> HIDE DEF r
<1>6. runs'[r] = NewRun /\ \A s \in RunIds : s # r => runs'[s] = runs[s]
  BY <1>1, <1>3 DEF Base, TypeOK
<1>7. Running' = Running \cup {r}
  BY <1>3, <1>5, <1>6 DEF Running
<1>8. bulkJobs[j] # NULL
  BY <1>1 DEF Base, QueueFits
<1> QED BY <1>1, <1>3, <1>4, <1>5, <1>6, <1>7, <1>8 DEF r

-----------------------------------------------------------------------------
\* Where the runs are

\* A step of a run leaves the size of every sheet, and no status goes back to PENDING.
LEMMA AdvancesKeepSheets ==
  ASSUME Base, NEW r \in RunIds, Advances(r)
  PROVE  /\ r \in Running
         /\ \A j \in JobIds :
              /\ bulkJobs'[j].totalRows = bulkJobs[j].totalRows
              /\ bulkJobs[j].status # "PENDING" => bulkJobs'[j].status # "PENDING"
              /\ bulkJobs'[j] = NULL <=> bulkJobs[j] = NULL
<1>1. r \in Running
  BY MarkProcessingStep, EmitStartedStep, ReadSettingsStep, SendRowStep, LogRowStep,
     CountRowStep, EmitRowStep, MarkCompletedStep DEF Advances, Moves
<1>2. CASE UNCHANGED bulkJobs
  BY <1>1, <1>2
<1>3. ASSUME NEW job, Writes(r[1], job),
             job.status \in {"PROCESSING", "COMPLETED"} \/ job.status = bulkJobs[r[1]].status
      PROVE  \A j \in JobIds :
               /\ bulkJobs'[j].totalRows = bulkJobs[j].totalRows
               /\ bulkJobs[j].status # "PENDING" => bulkJobs'[j].status # "PENDING"
               /\ bulkJobs'[j] = NULL <=> bulkJobs[j] = NULL
  BY <1>1, <1>3, WritesKeepTable DEF Writes, TableKept
<1>4. UNCHANGED bulkJobs \/ MarkProcessing(r) \/ CountRow(r) \/ MarkCompleted(r)
  BY EmitStartedStep, ReadSettingsStep, SendRowStep, LogRowStep, EmitRowStep DEF Advances
<1>5. CASE MarkProcessing(r)
  BY <1>1, <1>3, <1>5, MarkProcessingStep
<1>6. CASE CountRow(r)
  BY <1>1, <1>3, <1>6, CountRowStep
<1>7. CASE MarkCompleted(r)
  BY <1>1, <1>3, <1>7, MarkCompletedStep
<1> QED BY <1>1, <1>2, <1>4, <1>5, <1>6, <1>7

\* The run that does a step is where it should be after it.
LEMMA AdvancedRunFits ==
  ASSUME Base, RunsFit, NEW r \in RunIds, Advances(r)
  PROVE  RunFits(runs[r], bulkJobs[r[1]])' /\ \E new : Moves(r, new)
<1>1. r \in Running /\ r[1] \in JobIds /\ bulkJobs'[r[1]].totalRows = bulkJobs[r[1]].totalRows
      /\ (bulkJobs[r[1]].status # "PENDING" => bulkJobs'[r[1]].status # "PENDING")
  BY AdvancesKeepSheets, RunNames
<1>2. RunFits(runs[r], bulkJobs[r[1]])
  BY <1>1 DEF RunsFit
<1>3. /\ runs[r].i \in Nat /\ runs[r].successCount \in Nat /\ runs[r].failCount \in Nat
      /\ bulkJobs[r[1]].totalRows \in Nat
  BY <1>1, FieldTypes
<1> USE DEF RunFits, LoggedBy
<1>4. ASSUME NEW new, Moves(r, new), SamePlace(r, new),
             new.pc = "start" \/ runs[r].pc # "start" \/ bulkJobs'[r[1]].status # "PENDING",
             \/ runs[r].pc = "start" /\ new.pc = "emitStarted"
             \/ runs[r].pc = "emitStarted" /\ new.pc = "getSettings"
             \/ runs[r].pc = "getSettings" /\ new.pc = NextRow(r, 0)
             \/ runs[r].pc = "send" /\ new.pc = "log"
             \/ runs[r].pc = "count" /\ new.pc = "emitRow"
             \/ runs[r].pc = "complete" /\ new.pc = "emitCompleted"
      PROVE  RunFits(runs[r], bulkJobs[r[1]])'
  <2>1. runs'[r] = new
    BY <1>4, MovesOneRun
  <2>2. NextRow(r, 0) = IF 0 < bulkJobs[r[1]].totalRows THEN "send" ELSE "complete"
    BY DEF NextRow, TotalRows
  <2> QED BY <1>1, <1>2, <1>3, <1>4, <2>1, <2>2 DEF SamePlace
<1>5. CASE MarkProcessing(r)
  <2>1. PICK new, job : /\ Moves(r, new) /\ SamePlace(r, new)
                        /\ runs[r].pc = "start" /\ new.pc = "emitStarted"
                        /\ Writes(r[1], job) /\ job.status = "PROCESSING"
    BY <1>5, MarkProcessingStep
  <2>2. bulkJobs'[r[1]].status # "PENDING"
    BY <1>1, <2>1, WritesKeepTable
  <2> QED BY <1>4, <2>1, <2>2
<1>6. CASE EmitStarted(r)
  BY <1>4, <1>6, EmitStartedStep
<1>7. CASE ReadSettings(r)
  BY <1>4, <1>7, ReadSettingsStep
<1>8. CASE \E accepted \in {0, 1}, result \in Statuses : SendRow(r, accepted, result)
  BY <1>4, <1>8, SendRowStep
<1>9. CASE LogRow(r)
  <2>1. PICK new : /\ Moves(r, new) /\ runs[r].pc = "log" /\ new.pc = "count"
                   /\ new.i = runs[r].i
                   /\ runs[r].result = "SUCCESS"
                        => /\ new.successCount = runs[r].successCount + 1
                           /\ new.failCount = runs[r].failCount
                   /\ runs[r].result = "FAILED"
                        => /\ new.successCount = runs[r].successCount
                           /\ new.failCount = runs[r].failCount + 1
    BY <1>9, LogRowStep
  <2>2. runs'[r] = new
    BY <2>1, MovesOneRun
  <2>3. runs[r].result \in {"SUCCESS", "FAILED"}
    BY <1>1, FieldTypes DEF Statuses
  <2>4. new.successCount + new.failCount = runs[r].i + 1
    BY <1>2, <1>3, <2>1, <2>3
  <2> QED BY <1>1, <1>2, <1>3, <2>1, <2>2, <2>4
<1>10. CASE CountRow(r)
  BY <1>4, <1>10, CountRowStep
<1>11. CASE EmitRow(r)
  <2>1. PICK new : /\ Moves(r, new)
                   /\ runs[r].pc = "emitRow" /\ new.pc = NextRow(r, runs[r].i + 1)
                   /\ new.i = runs[r].i + 1
                   /\ new.successCount = runs[r].successCount
                   /\ new.failCount = runs[r].failCount
    BY <1>11, EmitRowStep
  <2>2. runs'[r] = new
    BY <2>1, MovesOneRun
  <2>3. new.pc = IF runs[r].i + 1 < bulkJobs[r[1]].totalRows THEN "send" ELSE "complete"
    BY <2>1 DEF NextRow, TotalRows
  <2> QED BY <1>1, <1>2, <1>3, <2>1, <2>2, <2>3
<1>12. CASE MarkCompleted(r)
  BY <1>4, <1>12, MarkCompletedStep
<1>13. \E new : Moves(r, new)
  BY MarkProcessingStep, EmitStartedStep, ReadSettingsStep, SendRowStep, LogRowStep,
     CountRowStep, EmitRowStep, MarkCompletedStep DEF Advances
<1> QED
  BY <1>5, <1>6, <1>7, <1>8, <1>9, <1>10, <1>11, <1>12, <1>13 DEF Advances

\* Every run stays where it should be.
LEMMA RunsFitStep ==
  ASSUME Base, RunsFit, [Next]_vars
  PROVE  RunsFit'
<1>1. ASSUME NEW j \in JobIds, NEW rows \in 0 .. MaxRows, CreateBulkJob(j, rows)
      PROVE  RunsFit'
  BY <1>1, CreateStep, JobOfRun DEF RunsFit
<1>2. ASSUME NEW j \in JobIds, TakeBulk(j)
      PROVE  RunsFit'
  <2>1. PICK r \in RunIds :
          /\ Running' = Running \cup {r} /\ runs'[r] = NewRun
          /\ \A s \in RunIds : s # r => runs'[s] = runs[s]
          /\ r \notin Running
          /\ UNCHANGED bulkJobs
    BY <1>2, TakeStep
  <2>2. RunFits(NewRun, bulkJobs[r[1]])
    BY DEF RunFits, NewRun, LoggedBy
  <2> QED BY <2>1, <2>2, RunningRuns DEF RunsFit, Base
<1>3. ASSUME NEW r \in RunIds, Advances(r)
      PROVE  RunsFit'
  <2>1. /\ Running' = Running
        /\ \A s \in RunIds : s # r => runs'[s] = runs[s]
    BY <1>3, AdvancedRunFits, MovesOneRun
  <2>2. RunFits(runs[r], bulkJobs[r[1]])'
    BY <1>3, AdvancedRunFits
  <2>3. ASSUME NEW s \in Running, s # r
        PROVE  RunFits(runs[s], bulkJobs[s[1]])'
    <3>1. s \in RunIds /\ s[1] \in JobIds
      BY JobOfRun
    <3> QED BY <1>3, <2>1, <2>3, <3>1, AdvancesKeepSheets DEF RunsFit, RunFits
  <2> QED BY <2>1, <2>2, <2>3 DEF RunsFit
<1>4. CASE Quiet
  BY <1>4 DEF Quiet, RunsFit
<1> QED BY <1>1, <1>2, <1>3, <1>4, StepKinds

-----------------------------------------------------------------------------
\* The log

\* LogRow is the only step that writes to the log.
LEMMA OnlyLogRowLogs ==
  ASSUME Base, [Next]_vars
  PROVE  UNCHANGED logs \/ \E r \in RunIds : LogRow(r)
<1>1. ASSUME NEW r \in RunIds, Advances(r)
      PROVE  UNCHANGED logs \/ LogRow(r)
  BY <1>1, MarkProcessingStep, EmitStartedStep, ReadSettingsStep, SendRowStep,
     CountRowStep, EmitRowStep, MarkCompletedStep DEF Advances
<1> QED BY <1>1, StepKinds, CreateStep, TakeStep DEF Quiet

\* It adds its row to the rows that have an entry of its result.
LEMMA LogRowLogs ==
  ASSUME Base, RunsFit, NEW r, LogRow(r)
  PROVE  /\ r \in Running /\ runs[r].i \in Rows /\ runs[r].result \in Statuses
         /\ \A j \in JobIds, status \in Statuses :
              Logged(j, status)' = IF j = r[1] /\ status = runs[r].result
                                   THEN Logged(j, status) \cup {runs[r].i}
                                   ELSE Logged(j, status)
<1>1. r \in Running /\ runs[r].pc = "log" /\ Logs(r[1], runs[r].i, runs[r].result)
  BY LogRowStep DEF Moves
<1>2. r[1] \in JobIds /\ runs[r].i \in Rows /\ runs[r].result \in Statuses
  BY <1>1, JobOfRun, RowOfRun, FieldTypes
<1>3. /\ logs \in [JobIds -> [Rows -> [Statuses -> Nat]]]
      /\ logs'[r[1]][runs[r].i][runs[r].result] = logs[r[1]][runs[r].i][runs[r].result] + 1
      /\ \A i \in JobIds, other \in Rows, result \in Statuses :
           <<i, other, result>> # <<r[1], runs[r].i, runs[r].result>>
             => logs'[i][other][result] = logs[i][other][result]
  BY <1>1, <1>2, OneEntryMore DEF Base, TypeOK
<1>4. ASSUME NEW j \in JobIds, NEW status \in Statuses,
             ~(j = r[1] /\ status = runs[r].result)
      PROVE  Logged(j, status)' = Logged(j, status)
  BY <1>3, <1>4 DEF Logged
<1>5. ASSUME NEW j \in JobIds, NEW status \in Statuses,
             j = r[1] /\ status = runs[r].result
      PROVE  Logged(j, status)' = Logged(j, status) \cup {runs[r].i}
  <2>1. logs[j][runs[r].i][status] + 1 > 0
    BY <1>2, <1>3, <1>5
  <2>2. \A row \in Rows : logs'[j][row][status] > 0
                            <=> row = runs[r].i \/ logs[j][row][status] > 0
    BY <1>2, <1>3, <1>5, <2>1
  <2> QED BY <1>2, <2>2 DEF Logged
<1> QED BY <1>1, <1>2, <1>4, <1>5

\* Nothing is taken out of the log.
LEMMA LogOnlyGrows ==
  ASSUME Base, RunsFit, [Next]_vars
  PROVE  \A j \in JobIds :
           /\ \A status \in Statuses : Logged(j, status) \subseteq Logged(j, status)'
           /\ LoggedRows(j) \subseteq LoggedRows(j)'
<1>1. \A j \in JobIds, status \in Statuses : Logged(j, status) \subseteq Logged(j, status)'
  <2>1. CASE UNCHANGED logs
    BY <2>1 DEF Logged
  <2>2. ASSUME NEW r \in RunIds, LogRow(r)
        PROVE  \A j \in JobIds, status \in Statuses :
                 Logged(j, status) \subseteq Logged(j, status)'
    BY <2>2, LogRowLogs
  <2> QED BY <2>1, <2>2, OnlyLogRowLogs
<1> QED BY <1>1 DEF LoggedRows, Statuses

\* Any other step of a run leaves what it has behind it as it was.
LEMMA AdvancedTally ==
  ASSUME Base, RunsFit, NEW r \in RunIds, Advances(r), ~LogRow(r)
  PROVE  /\ LoggedBy(runs'[r]) = LoggedBy(runs[r])
         /\ runs'[r].successCount = runs[r].successCount
         /\ runs'[r].failCount = runs[r].failCount
<1>1. ASSUME NEW new, Moves(r, new), SamePlace(r, new),
             runs[r].pc \in {"count", "emitRow"} <=> new.pc \in {"count", "emitRow"}
      PROVE  /\ LoggedBy(runs'[r]) = LoggedBy(runs[r])
             /\ runs'[r].successCount = runs[r].successCount
             /\ runs'[r].failCount = runs[r].failCount
  BY <1>1, MovesOneRun DEF SamePlace, LoggedBy
<1>2. CASE EmitRow(r)
  <2>1. PICK new : /\ Moves(r, new)
                   /\ runs[r].pc = "emitRow" /\ new.pc = NextRow(r, runs[r].i + 1)
                   /\ new.i = runs[r].i + 1
                   /\ new.successCount = runs[r].successCount
                   /\ new.failCount = runs[r].failCount
    BY <1>2, EmitRowStep
  <2>2. new.pc \in {"send", "complete"}
    BY <2>1 DEF NextRow
  <2> QED BY <2>1, <2>2, MovesOneRun DEF LoggedBy
<1>3. CASE MarkProcessing(r)
  BY <1>1, <1>3, MarkProcessingStep
<1>4. CASE EmitStarted(r)
  BY <1>1, <1>4, EmitStartedStep
<1>5. CASE ReadSettings(r)
  <2>1. NextRow(r, 0) \in {"send", "complete"}
    BY DEF NextRow
  <2> QED BY <1>1, <1>5, <2>1, ReadSettingsStep
<1>6. CASE \E accepted \in {0, 1}, result \in Statuses : SendRow(r, accepted, result)
  BY <1>1, <1>6, SendRowStep
<1>7. CASE CountRow(r)
  BY <1>1, <1>7, CountRowStep
<1>8. CASE MarkCompleted(r)
  BY <1>1, <1>8, MarkCompletedStep
<1> QED BY <1>2, <1>3, <1>4, <1>5, <1>6, <1>7, <1>8 DEF Advances

\* The rows that are logged stay the first rows of their sheet.
LEMMA LogsInOrderStep ==
  ASSUME Base, RunsFit, LogsInOrder, [Next]_vars
  PROVE  LogsInOrder'
<1> DEFINE SheetFits(j) ==
             /\ bulkJobs[j] = NULL => LoggedRows(j) = {}
             /\ bulkJobs[j] # NULL => LoggedRows(j) \subseteq RowsOf(j)
             /\ \A row \in LoggedRows(j) : 0 .. (row - 1) \subseteq LoggedRows(j)
           RunFollows(r) == 0 .. (LoggedBy(runs[r]) - 1) \subseteq LoggedRows(r[1])
<1>1. UNCHANGED logs => \A j \in JobIds : LoggedRows(j)' = LoggedRows(j)
  BY DEF LoggedRows, Logged
<1>2. ASSUME NEW r \in Running, r \in Running', LoggedBy(runs'[r]) = LoggedBy(runs[r])
      PROVE  RunFollows(r)'
  <2>1. r[1] \in JobIds
    BY JobOfRun
  <2>2. LoggedBy(runs[r])' = LoggedBy(runs[r])
    BY <1>2 DEF LoggedBy
  <2> QED BY <2>1, <2>2, LogOnlyGrows DEF LogsInOrder
<1>3. ASSUME NEW j \in JobIds, NEW rows \in 0 .. MaxRows, CreateBulkJob(j, rows)
      PROVE  LogsInOrder'
  <2>1. /\ bulkJobs[j] = NULL /\ bulkJobs'[j] # NULL
        /\ \A i \in JobIds : i # j => bulkJobs'[i] = bulkJobs[i]
        /\ Running' = Running /\ UNCHANGED <<logs, runs>>
    BY <1>3, CreateStep
  <2>2. \A i \in JobIds : SheetFits(i)'
    BY <1>1, <2>1 DEF LogsInOrder, RowsOf
  <2>3. \A r \in Running' : RunFollows(r)'
    BY <1>2, <2>1
  <2> QED BY <2>2, <2>3 DEF LogsInOrder
<1>4. ASSUME NEW j \in JobIds, TakeBulk(j)
      PROVE  LogsInOrder'
  <2>1. PICK r \in RunIds :
          /\ Running' = Running \cup {r} /\ runs'[r] = NewRun
          /\ \A s \in RunIds : s # r => runs'[s] = runs[s]
          /\ r \notin Running
          /\ UNCHANGED <<bulkJobs, logs>>
    BY <1>4, TakeStep
  <2>2. \A i \in JobIds : SheetFits(i)'
    BY <1>1, <2>1 DEF LogsInOrder, RowsOf
  <2>3. LoggedBy(runs[r])' = 0
    BY <2>1 DEF LoggedBy, NewRun
  <2>4. \A s \in Running : RunFollows(s)'
    BY <1>2, <2>1, RunningRuns DEF Base
  <2> QED BY <2>1, <2>2, <2>3, <2>4 DEF LogsInOrder
<1>5. CASE Quiet
  <2>1. \A i \in JobIds : SheetFits(i)'
    BY <1>1, <1>5 DEF LogsInOrder, RowsOf, Quiet
  <2>2. \A r \in Running' : RunFollows(r)'
    BY <1>2, <1>5 DEF Quiet
  <2> QED BY <2>1, <2>2 DEF LogsInOrder
<1>6. ASSUME NEW r \in RunIds, Advances(r)
      PROVE  LogsInOrder'
  <2>1. /\ r \in Running /\ Running' = Running
        /\ \A s \in RunIds : s # r => runs'[s] = runs[s]
        /\ \A j \in JobIds : /\ bulkJobs'[j].totalRows = bulkJobs[j].totalRows
                             /\ bulkJobs'[j] = NULL <=> bulkJobs[j] = NULL
    BY <1>6, AdvancedRunFits, MovesOneRun, AdvancesKeepSheets
  <2>2. \A j \in JobIds : RowsOf(j)' = RowsOf(j)
    BY <2>1 DEF RowsOf
  <2>3. \A s \in Running : s # r => RunFollows(s)'
    BY <1>2, <2>1, RunningRuns DEF Base
  <2>4. CASE LogRow(r)
    <3> DEFINE i == runs[r].i
    <3>1. PICK new : /\ Moves(r, new) /\ runs[r].pc = "log"
                     /\ new.pc = "count" /\ new.i = i
      BY <2>4, LogRowStep
    <3>2. /\ i \in Rows /\ runs[r].result \in Statuses /\ i \in RowsOf(r[1])
          /\ r[1] \in JobIds /\ bulkJobs[r[1]] # NULL /\ i \in Nat
      BY <2>1, <3>1, LogRowLogs, RowOfRun, JobOfRun, FieldTypes
    <3>3. /\ LoggedRows(r[1])' = LoggedRows(r[1]) \cup {i}
          /\ \A j \in JobIds : j # r[1] => LoggedRows(j)' = LoggedRows(j)
      BY <2>4, <3>2, LogRowLogs DEF LoggedRows, Statuses
    <3>4. 0 .. (i - 1) \subseteq LoggedRows(r[1])
      BY <2>1, <3>1 DEF LogsInOrder, LoggedBy
    <3>5. LoggedBy(runs[r])' = i + 1
      BY <3>1, MovesOneRun DEF LoggedBy
    <3>6. RunFollows(r)'
      BY <3>2, <3>3, <3>4, <3>5
    <3>7. \A j \in JobIds : SheetFits(j)'
      BY <2>1, <2>2, <3>2, <3>3, <3>4 DEF LogsInOrder
    <3> QED BY <2>1, <2>3, <3>6, <3>7 DEF LogsInOrder
  <2>5. CASE ~LogRow(r)
    <3>1. UNCHANGED logs
      BY <1>6, <2>5, MarkProcessingStep, EmitStartedStep, ReadSettingsStep, SendRowStep,
         CountRowStep, EmitRowStep, MarkCompletedStep DEF Advances
    <3>2. \A j \in JobIds : SheetFits(j)'
      BY <1>1, <2>1, <2>2, <3>1 DEF LogsInOrder
    <3>3. LoggedBy(runs'[r]) = LoggedBy(runs[r])
      BY <1>6, <2>5, AdvancedTally
    <3> QED BY <1>2, <2>1, <2>3, <3>2, <3>3 DEF LogsInOrder
  <2> QED BY <2>4, <2>5
<1> QED BY <1>3, <1>4, <1>5, <1>6, StepKinds

\* A completed job has every row of its sheet in the log.
LEMMA CompletedStep ==
  ASSUME Base, RunsFit, LogsInOrder, CompletedJobsAreLogged, [Next]_vars
  PROVE  CompletedJobsAreLogged'
<1> SUFFICES ASSUME NEW j \in JobIds, bulkJobs'[j] # NULL, bulkJobs'[j].status = "COMPLETED"
             PROVE  RowsOf(j)' \subseteq LoggedRows(j)'
  BY DEF CompletedJobsAreLogged, Uploaded, LoggedRows
<1>1. LoggedRows(j) \subseteq LoggedRows(j)'
  BY LogOnlyGrows
<1>2. ASSUME bulkJobs[j] # NULL, bulkJobs[j].status = "COMPLETED",
             bulkJobs'[j].totalRows = bulkJobs[j].totalRows
      PROVE  RowsOf(j)' \subseteq LoggedRows(j)'
  BY <1>1, <1>2 DEF CompletedJobsAreLogged, Uploaded, LoggedRows, RowsOf
<1>3. ASSUME NEW i \in JobIds, NEW rows \in 0 .. MaxRows, CreateBulkJob(i, rows)
      PROVE  RowsOf(j)' \subseteq LoggedRows(j)'
  <2>1. bulkJobs'[i].status = "PENDING" /\ \A k \in JobIds : k # i => bulkJobs'[k] = bulkJobs[k]
    BY <1>3, CreateStep
  <2>2. bulkJobs'[j] = bulkJobs[j]
    BY <2>1
  <2> QED BY <1>2, <2>2
<1>4. CASE UNCHANGED bulkJobs
  BY <1>2, <1>4
<1>5. ASSUME NEW r \in RunIds, Advances(r)
      PROVE  RowsOf(j)' \subseteq LoggedRows(j)'
  <2>1. r \in Running /\ r[1] \in JobIds /\ bulkJobs'[j].totalRows = bulkJobs[j].totalRows
        /\ bulkJobs[j] # NULL
    BY <1>5, AdvancesKeepSheets, RunNames
  <2>2. CASE MarkCompleted(r) /\ j = r[1]
    <3>1. runs[r].pc = "complete"
      BY <2>2, MarkCompletedStep
    <3>2. LoggedBy(runs[r]) = bulkJobs[j].totalRows
      BY <2>1, <2>2, <3>1 DEF RunsFit, RunFits, LoggedBy
    <3>3. RowsOf(j) \subseteq LoggedRows(j)
      BY <2>1, <2>2, <3>2 DEF LogsInOrder, RowsOf
    <3> QED BY <1>1, <2>1, <3>3 DEF RowsOf
  <2>3. ASSUME NEW job, Writes(r[1], job), job.status # "COMPLETED" \/ r[1] # j
                                           \/ job.status = bulkJobs[r[1]].status
        PROVE  bulkJobs[j].status = "COMPLETED"
    BY <2>1, <2>3, WritesKeepTable
  <2>4. CASE ~(MarkCompleted(r) /\ j = r[1])
    <3>1. CASE UNCHANGED bulkJobs
      BY <1>4, <3>1
    <3>2. CASE MarkProcessing(r)
      BY <1>2, <2>1, <2>3, <3>2, MarkProcessingStep
    <3>3. CASE CountRow(r)
      BY <1>2, <2>1, <2>3, <3>3, CountRowStep
    <3>4. CASE MarkCompleted(r)
      BY <1>2, <2>1, <2>3, <2>4, <3>4, MarkCompletedStep
    <3> QED BY <1>5, <3>1, <3>2, <3>3, <3>4, EmitStartedStep, ReadSettingsStep, SendRowStep,
               LogRowStep, EmitRowStep DEF Advances
  <2> QED BY <2>2, <2>4
<1> QED BY <1>3, <1>4, <1>5, StepKinds, TakeStep DEF Quiet

-----------------------------------------------------------------------------
\* The counts

\* The rows with an entry are finitely many; more rows are counted higher.
LEMMA LoggedFinite ==
  ASSUME NEW j, NEW status
  PROVE  /\ IsFiniteSet(Logged(j, status))
         /\ Cardinality(Logged(j, status)) \in Nat
<1>1. IsFiniteSet(Rows)
  BY FS_Interval, BulkAssumption DEF Rows
<1>2. Logged(j, status) \in SUBSET Rows
  BY DEF Logged
<1>3. IsFiniteSet(Logged(j, status))
  BY <1>1, <1>2, FS_Subset
<1> QED BY <1>3, FS_CardinalityType

\* So are those before a row.
LEMMA LoggedBelowFinite ==
  ASSUME NEW j, NEW status, NEW row
  PROVE  /\ IsFiniteSet(LoggedBelow(j, status, row))
         /\ Cardinality(LoggedBelow(j, status, row)) \in Nat
         /\ Cardinality(LoggedBelow(j, status, row)) <= Cardinality(Logged(j, status))
<1>1. LoggedBelow(j, status, row) \in SUBSET Logged(j, status)
  BY DEF LoggedBelow
<1>2. IsFiniteSet(LoggedBelow(j, status, row))
      /\ Cardinality(LoggedBelow(j, status, row)) <= Cardinality(Logged(j, status))
  BY <1>1, LoggedFinite, FS_Subset
<1> QED BY <1>2, FS_CardinalityType

\* Counts of the log only go up.
LEMMA CountsOnlyGrow ==
  ASSUME Base, RunsFit, [Next]_vars, NEW j \in JobIds, NEW status \in Statuses
  PROVE  /\ Cardinality(Logged(j, status)) \in Nat
         /\ Cardinality(Logged(j, status)') \in Nat
         /\ Cardinality(Logged(j, status)) <= Cardinality(Logged(j, status)')
         /\ \A row : /\ Cardinality(LoggedBelow(j, status, row)) \in Nat
                     /\ Cardinality(LoggedBelow(j, status, row)') \in Nat
                     /\ Cardinality(LoggedBelow(j, status, row))
                          <= Cardinality(LoggedBelow(j, status, row)')
<1>1. Logged(j, status) \in SUBSET Logged(j, status)'
  BY LogOnlyGrows
<1>2. IsFiniteSet(Rows) /\ Logged(j, status)' \in SUBSET Rows
  BY FS_Interval, BulkAssumption DEF Rows, Logged
<1>3. IsFiniteSet(Logged(j, status)')
  BY <1>2, FS_Subset
<1>4. Cardinality(Logged(j, status)) <= Cardinality(Logged(j, status)')
  BY <1>1, <1>3, FS_Subset
<1>5. ASSUME NEW row
      PROVE  /\ Cardinality(LoggedBelow(j, status, row)) \in Nat
             /\ Cardinality(LoggedBelow(j, status, row)') \in Nat
             /\ Cardinality(LoggedBelow(j, status, row))
                  <= Cardinality(LoggedBelow(j, status, row)')
  <2>1. /\ LoggedBelow(j, status, row) \in SUBSET LoggedBelow(j, status, row)'
        /\ LoggedBelow(j, status, row)' \in SUBSET Logged(j, status)'
    BY <1>1 DEF LoggedBelow
  <2>2. IsFiniteSet(LoggedBelow(j, status, row)')
    BY <1>3, <2>1, FS_Subset
  <2> QED BY <2>1, <2>2, FS_Subset, FS_CardinalityType, LoggedBelowFinite
<1> QED BY <1>3, <1>4, <1>5, FS_CardinalityType, LoggedFinite

\* No run has tallied more than the log has.
LEMMA TalliesStep ==
  ASSUME Base, RunsFit, TalliesAreLogged, [Next]_vars
  PROVE  TalliesAreLogged'
<1> DEFINE RunTallies(r) ==
             /\ runs[r].successCount
                  <= Cardinality(LoggedBelow(r[1], "SUCCESS", LoggedBy(runs[r])))
             /\ runs[r].failCount
                  <= Cardinality(LoggedBelow(r[1], "FAILED", LoggedBy(runs[r])))
<1>1. ASSUME NEW r \in Running, LoggedBy(runs'[r]) = LoggedBy(runs[r]),
             runs'[r].successCount = runs[r].successCount,
             runs'[r].failCount = runs[r].failCount
      PROVE  RunTallies(r)'
  <2>1. /\ r[1] \in JobIds /\ runs[r].successCount \in Nat /\ runs[r].failCount \in Nat
        /\ RunTallies(r)
    BY JobOfRun, FieldTypes DEF TalliesAreLogged
  <2>2. PICK row : row = LoggedBy(runs[r])
    OBVIOUS
  <2>3. \A status \in Statuses :
          /\ Cardinality(LoggedBelow(r[1], status, row)) \in Nat
          /\ Cardinality(LoggedBelow(r[1], status, row)') \in Nat
          /\ Cardinality(LoggedBelow(r[1], status, row))
               <= Cardinality(LoggedBelow(r[1], status, row)')
    BY <2>1, CountsOnlyGrow
  <2>4. /\ runs'[r].successCount <= Cardinality(LoggedBelow(r[1], "SUCCESS", row)')
        /\ runs'[r].failCount <= Cardinality(LoggedBelow(r[1], "FAILED", row)')
    BY <1>1, <2>1, <2>2, <2>3 DEF Statuses
  <2>5. LoggedBy(runs[r])' = row
    BY <1>1, <2>2 DEF LoggedBy
  <2> QED BY <2>4, <2>5
<1>2. ASSUME NEW j \in JobIds, NEW rows \in 0 .. MaxRows, CreateBulkJob(j, rows)
      PROVE  TalliesAreLogged'
  BY <1>1, <1>2, CreateStep DEF TalliesAreLogged
<1>3. ASSUME NEW j \in JobIds, TakeBulk(j)
      PROVE  TalliesAreLogged'
  <2>1. PICK r \in RunIds :
          /\ Running' = Running \cup {r} /\ runs'[r] = NewRun
          /\ \A s \in RunIds : s # r => runs'[s] = runs[s]
          /\ r \notin Running
          /\ UNCHANGED logs
    BY <1>3, TakeStep
  <2>2. \A row : \A status \in Statuses : Cardinality(LoggedBelow(r[1], status, row)') \in Nat
    BY CountsOnlyGrow, RunNames
  <2>3. RunTallies(r)'
    <3>1. runs'[r].successCount = 0 /\ runs'[r].failCount = 0
      BY <2>1 DEF NewRun
    <3>2. PICK row : row = LoggedBy(runs[r])'
      OBVIOUS
    <3> QED BY <2>2, <3>1, <3>2 DEF Statuses
  <2>4. \A s \in Running : RunTallies(s)'
    BY <1>1, <2>1, RunningRuns DEF Base
  <2> QED BY <2>1, <2>3, <2>4 DEF TalliesAreLogged
<1>4. CASE Quiet
  BY <1>1, <1>4 DEF TalliesAreLogged, Quiet
<1>5. ASSUME NEW r \in RunIds, Advances(r)
      PROVE  TalliesAreLogged'
  <2>1. /\ r \in Running /\ Running' = Running
        /\ \A s \in RunIds : s # r => runs'[s] = runs[s]
    BY <1>5, AdvancedRunFits, MovesOneRun, AdvancesKeepSheets
  <2>2. \A s \in Running : s # r => RunTallies(s)'
    BY <1>1, <2>1, RunningRuns DEF Base
  <2>3. CASE ~LogRow(r)
    BY <1>1, <1>5, <2>1, <2>2, <2>3, AdvancedTally DEF TalliesAreLogged
  <2>4. CASE LogRow(r)
    <3>1. PICK new, i, result :
             /\ Moves(r, new) /\ runs[r].pc = "log" /\ new.pc = "count"
             /\ i = runs[r].i /\ new.i = i /\ result = runs[r].result
             /\ result = "SUCCESS" => /\ new.successCount = runs[r].successCount + 1
                                      /\ new.failCount = runs[r].failCount
             /\ result = "FAILED" => /\ new.successCount = runs[r].successCount
                                     /\ new.failCount = runs[r].failCount + 1
      BY <2>4, LogRowStep
    <3>2. /\ r[1] \in JobIds /\ i \in Nat /\ i \in Rows /\ result \in {"SUCCESS", "FAILED"}
          /\ runs[r].successCount \in Nat /\ runs[r].failCount \in Nat
          /\ LoggedBy(runs[r]) = i
      BY <2>1, <3>1, <2>4, LogRowLogs, JobOfRun, FieldTypes DEF Statuses, LoggedBy
    <3>3. LoggedBy(runs[r])' = i + 1 /\ runs'[r] = new
      BY <3>1, MovesOneRun DEF LoggedBy
    <3>4. \A status \in {"SUCCESS", "FAILED"} :
            /\ Cardinality(LoggedBelow(r[1], status, i + 1)') \in Nat
            /\ Cardinality(LoggedBelow(r[1], status, i)) \in Nat
            /\ Cardinality(LoggedBelow(r[1], status, i + 1)')
                 >= Cardinality(LoggedBelow(r[1], status, i)) + (IF status = result THEN 1 ELSE 0)
      <4> SUFFICES ASSUME NEW status \in {"SUCCESS", "FAILED"}
                   PROVE  /\ Cardinality(LoggedBelow(r[1], status, i + 1)') \in Nat
                          /\ Cardinality(LoggedBelow(r[1], status, i)) \in Nat
                          /\ Cardinality(LoggedBelow(r[1], status, i + 1)')
                               >= Cardinality(LoggedBelow(r[1], status, i))
                                    + (IF status = result THEN 1 ELSE 0)
        OBVIOUS
      <4> DEFINE before == LoggedBelow(r[1], status, i)
                 after == LoggedBelow(r[1], status, i + 1)'
      <4>1. Logged(r[1], status)' = IF status = result THEN Logged(r[1], status) \cup {i}
                                    ELSE Logged(r[1], status)
        BY <2>4, <3>1, <3>2, LogRowLogs DEF Statuses
      <4>2. Cardinality(after) \in Nat /\ IsFiniteSet(after)
        <5>1. IsFiniteSet(Rows) /\ after \in SUBSET Rows
          BY FS_Interval, BulkAssumption DEF Rows, LoggedBelow, Logged
        <5> QED BY <5>1, FS_Subset, FS_CardinalityType
      <4>3. Cardinality(before) \in Nat /\ IsFiniteSet(before)
        BY LoggedBelowFinite
      <4>4. i \notin before
        BY <3>2 DEF LoggedBelow
      <4>5. before \subseteq after
        BY <3>2, <4>1 DEF LoggedBelow, Logged, Rows
      <4>6. status = result => i \in after
        BY <3>2, <4>1 DEF LoggedBelow
      <4> HIDE DEF before, after
      <4>7. CASE status = result
        <5>1. Cardinality(before \cup {i}) = Cardinality(before) + 1
          BY <4>3, <4>4, FS_AddElement
        <5>2. (before \cup {i}) \in SUBSET after
          BY <4>5, <4>6, <4>7
        <5>3. Cardinality(before \cup {i}) <= Cardinality(after)
          BY <4>2, <5>2, FS_Subset
        <5> QED BY <4>2, <4>3, <4>7, <5>1, <5>3 DEF before, after
      <4>8. CASE status # result
        <5>1. Cardinality(before) <= Cardinality(after)
          BY <4>2, <4>5, FS_Subset
        <5> QED BY <4>2, <4>3, <4>8, <5>1 DEF before, after
      <4> QED BY <4>7, <4>8
    <3>5. /\ runs[r].successCount <= Cardinality(LoggedBelow(r[1], "SUCCESS", i))
          /\ runs[r].failCount <= Cardinality(LoggedBelow(r[1], "FAILED", i))
      BY <2>1, <3>2 DEF TalliesAreLogged
    <3>6. /\ new.successCount <= Cardinality(LoggedBelow(r[1], "SUCCESS", i + 1)')
          /\ new.failCount <= Cardinality(LoggedBelow(r[1], "FAILED", i + 1)')
      <4> HIDE DEF RunTallies
      <4>1. CASE result = "SUCCESS"
        BY <3>1, <3>2, <3>4, <3>5, <4>1
      <4>2. CASE result = "FAILED"
        BY <3>1, <3>2, <3>4, <3>5, <4>2
      <4> QED BY <3>2, <4>1, <4>2
    <3>7. RunTallies(r)'
      BY <3>3, <3>6
    <3> QED BY <2>1, <2>2, <3>7 DEF TalliesAreLogged
  <2> QED BY <2>3, <2>4
<1> QED BY <1>2, <1>3, <1>4, <1>5, StepKinds

\* What a run has tallied may be shown.
LEMMA TalliesMayBeShown ==
  ASSUME Base, RunsFit, TalliesAreLogged, NEW r \in Running
  PROVE  ShownIsLogged(r[1], runs[r])
<1>1. runs[r].successCount \in Nat /\ runs[r].failCount \in Nat
  BY FieldTypes
<1>2. PICK row : row = LoggedBy(runs[r])
  OBVIOUS
<1>3. /\ runs[r].successCount <= Cardinality(LoggedBelow(r[1], "SUCCESS", row))
      /\ runs[r].failCount <= Cardinality(LoggedBelow(r[1], "FAILED", row))
  BY <1>2 DEF TalliesAreLogged
<1>4. \A status : /\ Cardinality(LoggedBelow(r[1], status, row)) \in Nat
                  /\ Cardinality(Logged(r[1], status)) \in Nat
                  /\ Cardinality(LoggedBelow(r[1], status, row))
                       <= Cardinality(Logged(r[1], status))
  BY LoggedBelowFinite, LoggedFinite
<1> QED BY <1>1, <1>3, <1>4 DEF ShownIsLogged

\* What could be shown before a step can be shown after it.
LEMMA ShownStaysLogged ==
  ASSUME Base, RunsFit, [Next]_vars, NEW j \in JobIds, NEW shown,
         shown.successCount \in Nat, shown.failCount \in Nat, ShownIsLogged(j, shown)
  PROVE  /\ shown.successCount <= Cardinality(Logged(j, "SUCCESS")')
         /\ shown.failCount <= Cardinality(Logged(j, "FAILED")')
<1>1. \A status \in Statuses :
        /\ Cardinality(Logged(j, status)) \in Nat
        /\ Cardinality(Logged(j, status)') \in Nat
        /\ Cardinality(Logged(j, status)) <= Cardinality(Logged(j, status)')
  BY CountsOnlyGrow
<1> QED BY <1>1 DEF ShownIsLogged, Statuses

\* No event shows more than the log has.
LEMMA RoomsStep ==
  ASSUME Base, RunsFit, TalliesAreLogged, RoomsAreLogged, [Next]_vars
  PROVE  RoomsAreLogged'
<1> SUFFICES ASSUME NEW j \in JobIds
             PROVE  ShownIsLogged(j, room[j])'
  BY DEF RoomsAreLogged
<1>1. ASSUME room'[j] = room[j]
      PROVE  ShownIsLogged(j, room[j])'
  <2>1. room[j] \in Event
    BY DEF Base, TypeOK
  <2>2. room[j].successCount \in Nat /\ room[j].failCount \in Nat
    BY <2>1 DEF Event
  <2>3. ShownIsLogged(j, room[j])
    BY DEF RoomsAreLogged
  <2>4. PICK shown : shown = room[j]
    OBVIOUS
  <2>5. /\ shown.successCount <= Cardinality(Logged(j, "SUCCESS")')
        /\ shown.failCount <= Cardinality(Logged(j, "FAILED")')
    BY <2>2, <2>3, <2>4, ShownStaysLogged
  <2> QED BY <1>1, <2>4, <2>5 DEF ShownIsLogged
<1>2. ASSUME NEW r \in Running, NEW event, Shows(r[1], event),
             event.successCount = runs[r].successCount, event.failCount = runs[r].failCount
      PROVE  ShownIsLogged(j, room[j])'
  <2>1. CASE j = r[1]
    <3>1. room'[j] = event
      BY <1>2, <2>1 DEF Shows, Base, TypeOK
    <3>2. event.successCount \in Nat /\ event.failCount \in Nat
      BY <1>2, FieldTypes
    <3>3. ShownIsLogged(j, event)
      BY <1>2, <2>1, TalliesMayBeShown DEF ShownIsLogged
    <3>4. /\ event.successCount <= Cardinality(Logged(j, "SUCCESS")')
          /\ event.failCount <= Cardinality(Logged(j, "FAILED")')
      BY <3>2, <3>3, ShownStaysLogged
    <3> QED BY <3>1, <3>4 DEF ShownIsLogged
  <2>2. CASE j # r[1]
    <3>1. room'[j] = room[j]
      BY <1>2, <2>2 DEF Shows, Base, TypeOK
    <3> QED BY <1>1, <3>1
  <2> QED BY <2>1, <2>2
<1>3. ASSUME NEW r \in RunIds, EmitStarted(r) \/ EmitRow(r) \/ EmitCompleted(r)
      PROVE  ShownIsLogged(j, room[j])'
  BY <1>2, <1>3, EmitStartedStep, EmitRowStep, EmitCompletedStep DEF Moves, Ends
<1>4. UNCHANGED room \/ \E r \in RunIds : EmitStarted(r) \/ EmitRow(r) \/ EmitCompleted(r)
  BY StepKinds, CreateStep, TakeStep, MarkProcessingStep, ReadSettingsStep, SendRowStep,
     LogRowStep, CountRowStep, MarkCompletedStep DEF Advances
<1> QED BY <1>1, <1>3, <1>4

\* No counter of the table is ahead of the log.
LEMMA CountsStep ==
  ASSUME Base, RunsFit, TalliesAreLogged, CountsAreLogged, RoomsAreLogged, [Next]_vars
  PROVE  CountsAreLogged'
<1> DEFINE Adds(job) == job.processedCount = job.successCount + job.failCount
<1>0. CountsAreLogged <=> \A j \in Uploaded : /\ Adds(bulkJobs[j])
                                              /\ ShownIsLogged(j, bulkJobs[j])
                                              /\ ShownIsLogged(j, room[j])
  BY DEF CountsAreLogged, ShownIsLogged
<1>1. CountsAreLogged' <=> \A j \in Uploaded' : /\ Adds(bulkJobs'[j])
                                                /\ ShownIsLogged(j, bulkJobs[j])'
                                                /\ ShownIsLogged(j, room[j])'
  BY DEF CountsAreLogged, ShownIsLogged
<1>2. RoomsAreLogged'
  BY RoomsStep
<1> SUFFICES ASSUME NEW j \in Uploaded'
             PROVE  Adds(bulkJobs'[j]) /\ ShownIsLogged(j, bulkJobs[j])'
  BY <1>1, <1>2 DEF RoomsAreLogged, Uploaded
<1>3. j \in JobIds
  BY DEF Uploaded
<1>4. ASSUME NEW shown, shown.successCount \in Nat, shown.failCount \in Nat,
             ShownIsLogged(j, shown), Adds(bulkJobs'[j]),
             bulkJobs'[j].successCount = shown.successCount,
             bulkJobs'[j].failCount = shown.failCount
      PROVE  Adds(bulkJobs'[j]) /\ ShownIsLogged(j, bulkJobs[j])'
  <2>1. /\ shown.successCount <= Cardinality(Logged(j, "SUCCESS")')
        /\ shown.failCount <= Cardinality(Logged(j, "FAILED")')
    BY <1>3, <1>4, ShownStaysLogged
  <2> QED BY <1>4, <2>1 DEF ShownIsLogged
<1>5. ASSUME bulkJobs[j] # NULL, SameCounts(j, bulkJobs'[j])
      PROVE  Adds(bulkJobs'[j]) /\ ShownIsLogged(j, bulkJobs[j])'
  <2>1. bulkJobs[j] \in BulkJob
    BY <1>3, <1>5 DEF Base, TypeOK
  <2>2. bulkJobs[j].successCount \in Nat /\ bulkJobs[j].failCount \in Nat
    BY <2>1 DEF BulkJob
  <2>3. PICK shown : shown = bulkJobs[j]
    OBVIOUS
  <2>4. ShownIsLogged(j, shown) /\ Adds(shown)
    BY <1>0, <1>3, <1>5, <2>3 DEF Uploaded
  <2>5. /\ bulkJobs'[j].successCount = shown.successCount
        /\ bulkJobs'[j].failCount = shown.failCount
        /\ Adds(bulkJobs'[j])
    BY <1>5, <2>3, <2>4 DEF SameCounts
  <2> QED BY <1>4, <2>2, <2>3, <2>4, <2>5
<1>6. CASE bulkJobs'[j] = bulkJobs[j]
  <2>1. bulkJobs[j] # NULL
    BY <1>6 DEF Uploaded
  <2>2. SameCounts(j, bulkJobs'[j])
    BY <1>6 DEF SameCounts
  <2> QED BY <1>5, <2>1, <2>2
<1>7. ASSUME NEW i \in JobIds, NEW rows \in 0 .. MaxRows, CreateBulkJob(i, rows)
      PROVE  Adds(bulkJobs'[j]) /\ ShownIsLogged(j, bulkJobs[j])'
  <2>1. CASE i = j
    <3>1. /\ bulkJobs'[j].processedCount = 0
          /\ bulkJobs'[j].successCount = 0 /\ bulkJobs'[j].failCount = 0
      BY <1>7, <2>1, CreateStep
    <3>2. \A status \in Statuses : Cardinality(Logged(j, status)') \in Nat
      BY <1>3, CountsOnlyGrow
    <3> QED BY <3>1, <3>2 DEF ShownIsLogged, Statuses
  <2>2. CASE i # j
    BY <1>3, <1>6, <1>7, <2>2, CreateStep
  <2> QED BY <2>1, <2>2
<1>8. ASSUME NEW r \in Running, NEW job, Writes(r[1], job), SameCounts(r[1], job)
      PROVE  Adds(bulkJobs'[j]) /\ ShownIsLogged(j, bulkJobs[j])'
  <2>1. /\ bulkJobs'[r[1]] = job /\ bulkJobs[r[1]] # NULL
        /\ \A i \in JobIds : i # r[1] => bulkJobs'[i] = bulkJobs[i]
    BY <1>8, WritesKeepTable, JobOfRun
  <2> QED BY <1>3, <1>5, <1>6, <1>8, <2>1
<1>9. ASSUME NEW r \in RunIds, CountRow(r)
      PROVE  Adds(bulkJobs'[j]) /\ ShownIsLogged(j, bulkJobs[j])'
  <2>1. PICK job : /\ r \in Running /\ runs[r].pc = "count" /\ Writes(r[1], job)
                   /\ job.processedCount = runs[r].i + 1
                   /\ job.successCount = runs[r].successCount
                   /\ job.failCount = runs[r].failCount
    BY <1>9, CountRowStep DEF Moves
  <2>2. /\ bulkJobs'[r[1]] = job
        /\ \A i \in JobIds : i # r[1] => bulkJobs'[i] = bulkJobs[i]
    BY <2>1, WritesKeepTable
  <2>3. CASE j = r[1]
    <3>1. runs[r].successCount \in Nat /\ runs[r].failCount \in Nat
      BY <2>1, FieldTypes
    <3>2. Adds(job)
      BY <2>1 DEF RunsFit, RunFits, LoggedBy
    <3>3. PICK shown : shown = runs[r]
      OBVIOUS
    <3>4. ShownIsLogged(j, shown)
      BY <2>1, <2>3, <3>3, TalliesMayBeShown
    <3> QED BY <1>4, <2>1, <2>2, <2>3, <3>1, <3>2, <3>3, <3>4
  <2>4. CASE j # r[1]
    BY <1>3, <1>6, <2>2, <2>4
  <2> QED BY <2>3, <2>4
<1>10. ASSUME NEW r \in RunIds, Advances(r)
       PROVE  Adds(bulkJobs'[j]) /\ ShownIsLogged(j, bulkJobs[j])'
  <2>1. CASE MarkProcessing(r)
    BY <1>8, <2>1, MarkProcessingStep DEF Moves
  <2>2. CASE MarkCompleted(r)
    BY <1>8, <2>2, MarkCompletedStep DEF Moves
  <2>3. CASE CountRow(r)
    BY <1>9, <2>3
  <2>4. CASE UNCHANGED bulkJobs
    BY <1>6, <2>4
  <2> QED BY <1>10, <2>1, <2>2, <2>3, <2>4, EmitStartedStep, ReadSettingsStep, SendRowStep,
             LogRowStep, EmitRowStep DEF Advances
<1>11. UNCHANGED bulkJobs => bulkJobs'[j] = bulkJobs[j]
  OBVIOUS
<1> HIDE DEF Adds
<1> QED BY <1>6, <1>7, <1>10, <1>11, StepKinds, TakeStep DEF Quiet

-----------------------------------------------------------------------------
\* The mails

\* Sets of stalls are finite, and a set within another is no larger.
LEMMA StallsFinite ==
  ASSUME NEW S \in SUBSET (0 .. MaxStalledCount)
  PROVE  /\ IsFiniteSet(S) /\ Cardinality(S) \in Nat
         /\ \A T \in SUBSET S : Cardinality(T) \in Nat /\ Cardinality(T) <= Cardinality(S)
<1>1. IsFiniteSet(0 .. MaxStalledCount)
  BY FS_Interval, BulkAssumption
<1>2. IsFiniteSet(S)
  BY <1>1, FS_Subset
<1>3. \A T \in SUBSET S : IsFiniteSet(T) /\ Cardinality(T) <= Cardinality(S)
  BY <1>2, FS_Subset
<1> QED BY <1>2, <1>3, FS_CardinalityType

\* One element adds one at most.
LEMMA OneMore ==
  ASSUME NEW S, IsFiniteSet(S), NEW x
  PROVE  /\ IsFiniteSet(S \cup {x})
         /\ Cardinality(S \cup {x}) \in Nat
         /\ Cardinality(S \cup {x}) <= Cardinality(S) + 1
<1>1. /\ IsFiniteSet(S \cup {x})
      /\ Cardinality(S \cup {x}) = IF x \in S THEN Cardinality(S) ELSE Cardinality(S) + 1
  BY FS_AddElement
<1>2. Cardinality(S) \in Nat
  BY FS_CardinalityType
<1>3. CASE x \in S
  BY <1>1, <1>2, <1>3
<1>4. CASE x \notin S
  BY <1>1, <1>2, <1>4
<1> QED BY <1>3, <1>4

\* A run has the mail of this row accepted and will log it.
WillLog(run, row) ==
  run # NULL /\ run.pc = "log" /\ run.i = row /\ run.result = "SUCCESS"

\* A step of a run other than SendRow leaves it no mail to log that it had not.
LEMMA OnlySendsAreLogged ==
  ASSUME Base, [Next]_vars,
         ~\E r \in RunIds, accepted \in {0, 1}, result \in Statuses : SendRow(r, accepted, result),
         NEW r \in RunIds, NEW row, WillLog(runs'[r], row)
  PROVE  WillLog(runs[r], row)
<1>1. ASSUME NEW j \in JobIds, NEW rows \in 0 .. MaxRows, CreateBulkJob(j, rows)
      PROVE  WillLog(runs[r], row)
  BY <1>1, CreateStep
<1>2. ASSUME NEW j \in JobIds, TakeBulk(j)
      PROVE  WillLog(runs[r], row)
  <2>1. PICK s \in RunIds : /\ runs'[s] = NewRun
                            /\ \A t \in RunIds : t # s => runs'[t] = runs[t]
    BY <1>2, TakeStep
  <2>2. NewRun.pc = "start"
    BY DEF NewRun
  <2> QED BY <2>1, <2>2 DEF WillLog
<1>3. CASE Quiet
  BY <1>3 DEF Quiet, Running, WillLog
<1>4. ASSUME NEW s \in RunIds, Advances(s)
      PROVE  WillLog(runs[r], row)
  <2>1. PICK new : Moves(s, new) /\ new.pc # "log"
    <3>1. NextRow(s, 0) # "log" /\ NextRow(s, runs[s].i + 1) # "log"
      BY DEF NextRow
    <3> QED BY <1>4, <3>1, MarkProcessingStep, EmitStartedStep, ReadSettingsStep, LogRowStep,
               CountRowStep, EmitRowStep, MarkCompletedStep DEF Advances
  <2> QED BY <2>1, MovesOneRun DEF WillLog
<1> QED BY <1>1, <1>2, <1>3, <1>4, StepKinds

\* SendRow is the only step that mails a customer.
LEMMA OnlySendRowMails ==
  ASSUME Base, [Next]_vars
  PROVE  \/ UNCHANGED <<mails, styles>>
         \/ \E r \in RunIds, accepted \in {0, 1}, result \in Statuses :
              SendRow(r, accepted, result)
<1>1. ASSUME NEW r \in RunIds, Advances(r)
      PROVE  \/ UNCHANGED <<mails, styles>>
             \/ \E accepted \in {0, 1}, result \in Statuses : SendRow(r, accepted, result)
  BY <1>1, MarkProcessingStep, EmitStartedStep, ReadSettingsStep, LogRowStep,
     CountRowStep, EmitRowStep, MarkCompletedStep DEF Advances
<1> QED BY <1>1, StepKinds, CreateStep, TakeStep DEF Quiet

\* An entry SUCCESS stands for a mail of its own.
LEMMA SuccessesStep ==
  ASSUME Base, RunsFit, SuccessesMailed, [Next]_vars
  PROVE  SuccessesMailed'
<1> SUFFICES ASSUME NEW j \in JobIds, NEW row \in Rows
             PROVE  (logs[j][row]["SUCCESS"] + Cardinality(ToLog(j, row)) <= mails[j][row])'
  BY DEF SuccessesMailed
<1> DEFINE before == ToLog(j, row)
           after == ToLog(j, row)'
<1>1. /\ before = { k \in 0 .. MaxStalledCount : WillLog(runs[<<j, k>>], row) }
      /\ after = { k \in 0 .. MaxStalledCount : WillLog(runs'[<<j, k>>], row) }
      /\ \A k \in 0 .. MaxStalledCount : <<j, k>> \in RunIds
  BY DEF ToLog, WillLog, RunIds
<1>2. before \in SUBSET (0 .. MaxStalledCount) /\ after \in SUBSET (0 .. MaxStalledCount)
  BY <1>1
<1>3. /\ logs[j][row]["SUCCESS"] \in Nat /\ mails[j][row] \in Nat
      /\ logs[j][row]["SUCCESS"] + Cardinality(before) <= mails[j][row]
  BY DEF Base, TypeOK, Statuses, SuccessesMailed
<1> HIDE DEF before, after
<1>4. IsFiniteSet(before) /\ Cardinality(before) \in Nat
      /\ IsFiniteSet(after) /\ Cardinality(after) \in Nat
  BY <1>2, StallsFinite
<1> SUFFICES logs'[j][row]["SUCCESS"] + Cardinality(after) <= mails'[j][row]
  BY DEF after
<1>5. CASE UNCHANGED logs /\ UNCHANGED mails
           /\ ~\E r \in RunIds, accepted \in {0, 1}, result \in Statuses :
                 SendRow(r, accepted, result)
  <2>1. after \in SUBSET before
    BY <1>1, <1>5, OnlySendsAreLogged
  <2>2. Cardinality(after) <= Cardinality(before)
    BY <1>2, <2>1, StallsFinite
  <2> QED BY <1>3, <1>4, <1>5, <2>2
<1>6. ASSUME NEW r \in RunIds, NEW accepted \in {0, 1}, NEW result \in Statuses,
             SendRow(r, accepted, result)
      PROVE  logs'[j][row]["SUCCESS"] + Cardinality(after) <= mails'[j][row]
  <2>1. PICK new : /\ Moves(r, new) /\ runs[r].pc = "send" /\ new.pc = "log"
                   /\ new.result = result /\ new.i = runs[r].i
                   /\ result = "SUCCESS" => accepted = 1
                   /\ Mails(r[1], runs[r].i, accepted, runs[r].template)
                   /\ UNCHANGED logs
    BY <1>6, SendRowStep DEF SamePlace
  <2>2. /\ r \in Running /\ r[1] \in JobIds /\ r[2] \in 0 .. MaxStalledCount
        /\ r = <<r[1], r[2]>>
        /\ runs[r].i \in Rows /\ runs[r].template \in Styles
    BY <2>1, RowOfRun, FieldTypes, RunNames DEF Moves
  <2>3. /\ mails'[r[1]][runs[r].i] = mails[r[1]][runs[r].i] + accepted
        /\ \A i \in JobIds, other \in Rows :
             <<i, other>> # <<r[1], runs[r].i>> => mails'[i][other] = mails[i][other]
    BY <2>1, <2>2, MailsOfOneRow DEF Base
  <2>4. runs'[r] = new /\ \A s \in RunIds : s # r => runs'[s] = runs[s]
    BY <2>1, MovesOneRun
  <2>5. \A k \in after : k \in before \/ (<<j, k>> = r /\ WillLog(new, row))
    BY <1>1, <2>4
  <2>6. CASE j = r[1] /\ row = runs[r].i /\ result = "SUCCESS"
    <3>1. mails'[j][row] = mails[j][row] + 1
      BY <2>1, <2>3, <2>6
    <3>2. after \in SUBSET (before \cup {r[2]})
      BY <2>2, <2>5
    <3>3. /\ IsFiniteSet(before \cup {r[2]})
          /\ Cardinality(before \cup {r[2]}) <= Cardinality(before) + 1
          /\ Cardinality(before \cup {r[2]}) \in Nat
      BY <1>4, OneMore
    <3>4. Cardinality(after) <= Cardinality(before \cup {r[2]})
      BY <3>2, <3>3, FS_Subset
    <3> QED BY <1>3, <1>4, <2>1, <3>1, <3>3, <3>4
  <2>7. CASE ~(j = r[1] /\ row = runs[r].i /\ result = "SUCCESS")
    <3>1. after \in SUBSET before
      BY <2>1, <2>2, <2>5, <2>7 DEF WillLog
    <3>2. Cardinality(after) <= Cardinality(before)
      BY <1>2, <3>1, StallsFinite
    <3>3. mails'[j][row] >= mails[j][row] /\ mails'[j][row] \in Nat
      BY <1>3, <2>2, <2>3
    <3> QED BY <1>3, <1>4, <2>1, <3>2, <3>3
  <2> QED BY <2>6, <2>7
<1>7. ASSUME NEW r \in RunIds, LogRow(r)
      PROVE  logs'[j][row]["SUCCESS"] + Cardinality(after) <= mails'[j][row]
  <2>1. PICK new : /\ Moves(r, new) /\ runs[r].pc = "log" /\ new.pc = "count"
                   /\ Logs(r[1], runs[r].i, runs[r].result)
                   /\ UNCHANGED mails
    BY <1>7, LogRowStep
  <2>2. /\ r \in Running /\ r[1] \in JobIds /\ r[2] \in 0 .. MaxStalledCount
        /\ r = <<r[1], r[2]>> /\ runs[r] # NULL
        /\ runs[r].i \in Rows /\ runs[r].result \in Statuses
    BY <2>1, RowOfRun, FieldTypes, RunNames DEF Moves, Running
  <2>3. /\ logs'[r[1]][runs[r].i][runs[r].result] = logs[r[1]][runs[r].i][runs[r].result] + 1
        /\ \A i \in JobIds, other \in Rows, result \in Statuses :
             <<i, other, result>> # <<r[1], runs[r].i, runs[r].result>>
               => logs'[i][other][result] = logs[i][other][result]
    BY <2>1, <2>2, OneEntryMore DEF Base
  <2>4. runs'[r] = new /\ \A s \in RunIds : s # r => runs'[s] = runs[s]
    BY <2>1, MovesOneRun
  <2>5. after \in SUBSET before /\ (j = r[1] => r[2] \notin after)
    BY <1>1, <2>1, <2>2, <2>4 DEF WillLog
  <2>6. CASE j = r[1] /\ row = runs[r].i /\ runs[r].result = "SUCCESS"
    <3>1. r[2] \in before
      BY <1>1, <2>1, <2>2, <2>6 DEF WillLog
    <3>2. /\ IsFiniteSet(before \ {r[2]})
          /\ Cardinality(before \ {r[2]}) = Cardinality(before) - 1
      BY <1>4, <3>1, FS_RemoveElement
    <3>3. after \in SUBSET (before \ {r[2]})
      BY <2>5, <2>6
    <3>4. Cardinality(after) <= Cardinality(before) - 1
      BY <3>2, <3>3, FS_Subset
    <3>5. logs'[j][row]["SUCCESS"] = logs[j][row]["SUCCESS"] + 1
      BY <2>3, <2>6
    <3> QED BY <1>3, <1>4, <2>1, <3>4, <3>5
  <2>7. CASE ~(j = r[1] /\ row = runs[r].i /\ runs[r].result = "SUCCESS")
    <3>1. logs'[j][row]["SUCCESS"] = logs[j][row]["SUCCESS"]
      BY <2>3, <2>7 DEF Statuses
    <3>2. Cardinality(after) <= Cardinality(before)
      BY <1>2, <2>5, StallsFinite
    <3> QED BY <1>3, <1>4, <2>1, <3>1, <3>2
  <2> QED BY <2>6, <2>7
<1> QED BY <1>5, <1>6, <1>7, OnlyLogRowLogs, OnlySendRowMails

\* What BullMQ's record of a job is changed by.
LEMMA QueueMoves ==
  ASSUME Base, [Next]_vars, NEW j \in JobIds
  PROVE  \/ queue'[j] = queue[j]
         \/ TakeBulk(j) \/ Stall(j) \/ EnqueueBulk(j)
         \/ \E r \in RunIds : r[1] = j /\ Current(r) /\ (EmitCompleted(r) \/ Throw(r))
<1>1. ASSUME NEW i \in JobIds, i # j, TakeBulk(i) \/ Stall(i) \/ EnqueueBulk(i)
      PROVE  queue'[j] = queue[j]
  BY <1>1 DEF TakeBulk, Stall, EnqueueBulk, Base, TypeOK
<1>2. ASSUME NEW i \in JobIds, NEW rows \in 0 .. MaxRows, CreateBulkJob(i, rows)
      PROVE  queue'[j] = queue[j]
  BY <1>2, CreateStep
<1>3. ASSUME NEW i \in JobIds, EnqueueRejected(i)
      PROVE  queue'[j] = queue[j]
  BY <1>3 DEF EnqueueRejected
<1>4. ASSUME NEW template \in Templates, SetActiveTemplate(template) \/ ClearActiveTemplate
      PROVE  queue'[j] = queue[j]
  BY <1>4, SettingsSteps
<1>5. ASSUME NEW r \in RunIds, Advances(r)
      PROVE  queue'[j] = queue[j]
  BY <1>5, MarkProcessingStep, EmitStartedStep, ReadSettingsStep, SendRowStep, LogRowStep,
     CountRowStep, EmitRowStep, MarkCompletedStep DEF Advances
<1>6. ASSUME NEW r \in RunIds, EmitCompleted(r) \/ Throw(r), ~(r[1] = j /\ Current(r))
      PROVE  queue'[j] = queue[j]
  <2>1. PICK state \in {"completed", "failed"} : Ends(r, state)
    BY <1>6, EmitCompletedStep, ThrowStep
  <2>2. r[1] \in JobIds
    BY RunNames
  <2> QED BY <1>6, <2>1, <2>2 DEF Ends, Base, TypeOK
<1>7. Crash \/ UNCHANGED vars => queue'[j] = queue[j]
  BY DEF Crash, vars
<1> QED BY <1>1, <1>2, <1>3, <1>4, <1>5, <1>6, <1>7
           DEF Next, Elsewhere, Upload, Process, Advances

\* The number of runs there have been goes up when a job is taken, and never down.
LEMMA StartedStep ==
  ASSUME Base, [Next]_vars, NEW j \in JobIds
  PROVE  /\ Started(j) \in Nat /\ Started(j)' \in Nat
         /\ Started(j) <= Started(j)'
         /\ TakeBulk(j) => Started(j)' = Started(j) + 1
<1>0. MaxStalledCount \in Nat
  BY BulkAssumption
<1>1. /\ queue[j] \in QueueJob /\ queue[j].stalls \in Nat
      /\ queue[j].state \in {"waiting", "active", "completed"}
           => queue[j].stalls <= MaxStalledCount
      /\ queue[j].state = "none" => queue[j].stalls = 0
  <2>1. queue[j] \in QueueJob
    BY DEF Base, TypeOK
  <2>2. queue[j].stalls \in Nat
    BY <2>1, BulkAssumption DEF QueueJob
  <2> QED BY <2>1, <2>2 DEF Base, QueueFits
<1> USE DEF Started, LeastOf
<1>2. Started(j) \in Nat
  BY <1>0, <1>1
<1> DEFINE Grown == Started(j)' \in Nat /\ Started(j) <= Started(j)'
<1>3. ASSUME queue'[j] = queue[j]
      PROVE  Grown
  BY <1>2, <1>3
<1>4. ASSUME TakeBulk(j)
      PROVE  Started(j)' = Started(j) + 1 /\ Grown
  <2>1. /\ queue[j].state = "waiting"
        /\ queue'[j].state = "active" /\ queue'[j].stalls = queue[j].stalls
    BY <1>1, <1>4, TakeStep DEF Base, TypeOK, QueueJob
  <2> QED BY <1>0, <1>1, <2>1
<1>5. ASSUME Stall(j)
      PROVE  Grown
  <2>1. PICK job \in QueueJob :
          /\ queue' = [queue EXCEPT ![j] = job]
          /\ job.state \in {"waiting", "failed"}
          /\ job.stalls = queue[j].stalls + 1
          /\ job.state = "waiting" <=> queue[j].stalls < MaxStalledCount
    BY <1>5, StallMoves
  <2>2. queue'[j] = job /\ queue[j].state = "active"
    BY <1>5, <2>1 DEF Stall, Base, TypeOK
  <2> QED BY <1>0, <1>1, <2>1, <2>2
<1>6. ASSUME EnqueueBulk(j)
      PROVE  Grown
  <2>1. /\ queue[j].state = "none"
        /\ queue'[j].state = "waiting" /\ queue'[j].stalls = queue[j].stalls
    BY <1>1, <1>6 DEF EnqueueBulk, Base, TypeOK, QueueFits, QueueJob
  <2> QED BY <1>1, <2>1
<1>7. ASSUME NEW r, NEW state \in {"completed", "failed"}, Ends(r, state)
      PROVE  Grown
  <2>1. /\ queue'[j].stalls = queue[j].stalls
        /\ \/ queue'[j].state = queue[j].state
           \/ j = r[1] /\ Current(r) /\ queue'[j].state = state
    BY <1>7, EndsOneRun
  <2> QED BY <1>2, <2>1 DEF Current
<1>8. ASSUME NEW r \in RunIds, EmitCompleted(r) \/ Throw(r)
      PROVE  Grown
  BY <1>7, <1>8, EmitCompletedStep, ThrowStep
<1> HIDE DEF Grown
<1>9. Grown
  BY <1>3, <1>4, <1>5, <1>6, <1>8, QueueMoves
<1> QED BY <1>2, <1>4, <1>9 DEF Grown

\* A run may still mail this row.
MayStillMail(run, row) == run # NULL /\ TriedBy(run) <= row

\* No step but TakeBulk lets a run mail a row it could not, and after SendRow the run
\* cannot mail that row again.
LEMMA TriesOnlyGrow ==
  ASSUME Base, RunsFit, [Next]_vars, NEW r \in RunIds, NEW row \in Rows,
         MayStillMail(runs'[r], row)
  PROVE  \/ MayStillMail(runs[r], row)
         \/ \E j \in JobIds : TakeBulk(j) /\ r = <<j, queue[j].stalls>>
<1>1. ASSUME NEW j \in JobIds, NEW rows \in 0 .. MaxRows, CreateBulkJob(j, rows)
      PROVE  MayStillMail(runs[r], row)
  BY <1>1, CreateStep
<1>2. ASSUME NEW j \in JobIds, TakeBulk(j), r # <<j, queue[j].stalls>>
      PROVE  MayStillMail(runs[r], row)
  BY <1>2, TakeStep
<1>3. CASE Quiet
  BY <1>3 DEF Quiet, Running, MayStillMail
<1>4. ASSUME NEW s \in RunIds, Advances(s)
      PROVE  MayStillMail(runs[r], row)
  <2>1. s \in Running /\ \A t \in RunIds : t # s => runs'[t] = runs[t]
    BY <1>4, AdvancedRunFits, MovesOneRun, AdvancesKeepSheets
  <2>2. runs[s].i \in Nat /\ row \in Nat /\ runs[s] # NULL
    BY <2>1, FieldTypes, BulkAssumption DEF Rows, Running
  <2>3. PICK new : /\ Moves(s, new)
                   /\ TriedBy(runs[s]) <= TriedBy(new) /\ TriedBy(new) \in Nat
                   /\ TriedBy(runs[s]) \in Nat
    <3> USE <2>2 DEF TriedBy, SamePlace
    <3>1. CASE MarkProcessing(s)
      BY <3>1, MarkProcessingStep
    <3>2. CASE EmitStarted(s)
      BY <3>2, EmitStartedStep
    <3>3. CASE ReadSettings(s)
      BY <3>3, ReadSettingsStep DEF NextRow
    <3>4. CASE \E accepted \in {0, 1}, result \in Statuses : SendRow(s, accepted, result)
      BY <3>4, SendRowStep
    <3>5. CASE LogRow(s)
      BY <3>5, LogRowStep
    <3>6. CASE CountRow(s)
      BY <3>6, CountRowStep
    <3>7. CASE EmitRow(s)
      BY <3>7, EmitRowStep DEF NextRow
    <3>8. CASE MarkCompleted(s)
      BY <3>8, MarkCompletedStep
    <3> QED BY <1>4, <3>1, <3>2, <3>3, <3>4, <3>5, <3>6, <3>7, <3>8 DEF Advances
  <2>4. runs'[s] = new
    BY <2>3, MovesOneRun
  <2>5. CASE r = s
    BY <2>2, <2>3, <2>4, <2>5 DEF MayStillMail
  <2>6. CASE r # s
    BY <2>1, <2>6 DEF MayStillMail
  <2> QED BY <2>5, <2>6
<1> QED BY <1>1, <1>2, <1>3, <1>4, StepKinds

\* Mails of a row and runs that may still send one are no more than the runs so far.
LEMMA SendsStep ==
  ASSUME Base, RunsFit, SendsCounted, [Next]_vars
  PROVE  SendsCounted'
<1> SUFFICES ASSUME NEW j \in JobIds, NEW row \in Rows
             PROVE  (mails[j][row] + Cardinality(MayMail(j, row)) <= Started(j))'
  BY DEF SendsCounted
<1> DEFINE before == MayMail(j, row)
           after == MayMail(j, row)'
<1>1. /\ before = { k \in 0 .. MaxStalledCount : MayStillMail(runs[<<j, k>>], row) }
      /\ after = { k \in 0 .. MaxStalledCount : MayStillMail(runs'[<<j, k>>], row) }
      /\ \A k \in 0 .. MaxStalledCount : <<j, k>> \in RunIds
  BY DEF MayMail, MayStillMail, RunIds, TriedBy
<1>2. before \in SUBSET (0 .. MaxStalledCount) /\ after \in SUBSET (0 .. MaxStalledCount)
  BY <1>1
<1>3. mails[j][row] \in Nat /\ mails[j][row] + Cardinality(before) <= Started(j)
  BY DEF Base, TypeOK, SendsCounted
<1>4. /\ Started(j) \in Nat /\ Started(j)' \in Nat /\ Started(j) <= Started(j)'
      /\ TakeBulk(j) => Started(j)' = Started(j) + 1
  BY StartedStep
<1> HIDE DEF before, after
<1>5. IsFiniteSet(before) /\ Cardinality(before) \in Nat
      /\ IsFiniteSet(after) /\ Cardinality(after) \in Nat
  BY <1>2, StallsFinite
<1> SUFFICES mails'[j][row] + Cardinality(after) <= Started(j)'
  BY DEF after
<1>6. CASE TakeBulk(j)
  <2>0. PICK k : k = queue[j].stalls
    OBVIOUS
  <2>1. after \in SUBSET (before \cup {k})
    <3>1. ASSUME NEW l \in after, l \notin before
          PROVE  l = k
      BY <1>1, <2>0, <3>1, TriesOnlyGrow
    <3> QED BY <3>1
  <2>2. /\ IsFiniteSet(before \cup {k}) /\ Cardinality(before \cup {k}) \in Nat
        /\ Cardinality(before \cup {k}) <= Cardinality(before) + 1
    BY <1>5, OneMore
  <2>3. Cardinality(after) <= Cardinality(before \cup {k})
    BY <2>1, <2>2, FS_Subset
  <2>4. mails'[j][row] = mails[j][row]
    BY <1>6, TakeStep
  <2> QED BY <1>3, <1>4, <1>5, <1>6, <2>2, <2>3, <2>4
<1>7. CASE ~TakeBulk(j)
  <2>1. after \in SUBSET before
    BY <1>1, <1>7, TriesOnlyGrow
  <2>2. Cardinality(after) <= Cardinality(before)
    BY <1>2, <2>1, StallsFinite
  <2>3. CASE UNCHANGED mails
    BY <1>3, <1>4, <1>5, <2>2, <2>3
  <2>4. ASSUME NEW r \in RunIds, NEW accepted \in {0, 1}, NEW result \in Statuses,
               SendRow(r, accepted, result)
        PROVE  mails'[j][row] + Cardinality(after) <= Started(j)'
    <3>1. PICK new : /\ Moves(r, new) /\ runs[r].pc = "send" /\ new.pc = "log"
                     /\ new.i = runs[r].i
                     /\ Mails(r[1], runs[r].i, accepted, runs[r].template)
      BY <2>4, SendRowStep DEF SamePlace
    <3>2. /\ r \in Running /\ r[1] \in JobIds /\ r[2] \in 0 .. MaxStalledCount
          /\ r = <<r[1], r[2]>> /\ runs[r] # NULL
          /\ runs[r].i \in Rows /\ runs[r].template \in Styles /\ runs[r].i \in Nat
      BY <3>1, RowOfRun, FieldTypes, RunNames DEF Moves, Running
    <3>3. /\ mails'[r[1]][runs[r].i] = mails[r[1]][runs[r].i] + accepted
          /\ \A i \in JobIds, other \in Rows :
               <<i, other>> # <<r[1], runs[r].i>> => mails'[i][other] = mails[i][other]
      BY <3>1, <3>2, MailsOfOneRow DEF Base
    <3>4. CASE j = r[1] /\ row = runs[r].i
      <4>1. r[2] \in before
        <5>1. MayStillMail(runs[r], row)
          BY <3>1, <3>2, <3>4 DEF MayStillMail, TriedBy
        <5> QED BY <1>1, <3>2, <3>4, <5>1
      <4>2. r[2] \notin after
        <5>1. runs'[r] = new
          BY <3>1, MovesOneRun
        <5>2. ~MayStillMail(runs'[r], row)
          BY <3>1, <3>2, <3>4, <5>1 DEF MayStillMail, TriedBy
        <5> QED BY <1>1, <3>2, <3>4, <5>2
      <4>3. after \in SUBSET (before \ {r[2]})
        BY <2>1, <4>2
      <4>4. /\ IsFiniteSet(before \ {r[2]})
            /\ Cardinality(before \ {r[2]}) = Cardinality(before) - 1
        BY <1>5, <4>1, FS_RemoveElement
      <4>5. Cardinality(after) <= Cardinality(before) - 1
        BY <4>3, <4>4, FS_Subset
      <4>6. mails'[j][row] <= mails[j][row] + 1 /\ mails'[j][row] \in Nat
        BY <1>3, <3>3, <3>4
      <4> QED BY <1>3, <1>4, <1>5, <4>5, <4>6
    <3>5. CASE ~(j = r[1] /\ row = runs[r].i)
      <4>1. mails'[j][row] = mails[j][row]
        BY <3>3, <3>5
      <4> QED BY <1>3, <1>4, <1>5, <2>2, <4>1
    <3> QED BY <3>4, <3>5
  <2> QED BY <2>3, <2>4, OnlySendRowMails
<1> QED BY <1>6, <1>7

-----------------------------------------------------------------------------
\* The safety of bulk jobs

\* The inductive invariant holds before the first step.
LEMMA BulkInit == Init => BulkInv
<1> SUFFICES ASSUME Init PROVE BulkInv
  OBVIOUS
<1>1. Base
  BY BaseInit
<1>2. Running = {} /\ Uploaded = {}
  BY DEF Init, Running, Uploaded
<1>3. \A j \in JobIds, status \in Statuses : Logged(j, status) = {}
  BY DEF Init, Logged
<1>4. RunsFit /\ CompletedJobsAreLogged /\ TalliesAreLogged
  BY <1>2 DEF RunsFit, CompletedJobsAreLogged, TalliesAreLogged
<1>5. LogsInOrder
  BY <1>2, <1>3 DEF LogsInOrder, LoggedRows, Statuses
<1>6. RoomsAreLogged /\ CountsAreLogged
  <2>1. \A j \in JobIds : room[j].successCount = 0 /\ room[j].failCount = 0
    BY DEF Init
  <2>2. \A j \in JobIds, status \in Statuses : Cardinality(Logged(j, status)) \in Nat
    BY LoggedFinite
  <2> QED BY <1>2, <2>1, <2>2 DEF RoomsAreLogged, ShownIsLogged, CountsAreLogged, Statuses
<1>7. SuccessesMailed
  <2>1. \A j \in JobIds, row \in Rows : Cardinality(ToLog(j, row)) = 0
    <3>1. \A j \in JobIds, row \in Rows : ToLog(j, row) = {}
      BY DEF Init, ToLog, RunIds
    <3> QED BY <3>1, FS_EmptySet
  <2>2. \A j \in JobIds, row \in Rows : logs[j][row]["SUCCESS"] = 0 /\ mails[j][row] = 0
    BY DEF Init, Statuses
  <2> QED BY <2>1, <2>2 DEF SuccessesMailed
<1>8. SendsCounted
  <2>1. \A j \in JobIds, row \in Rows : MayMail(j, row) = {}
    BY DEF Init, MayMail, RunIds
  <2>2. \A j \in JobIds : Started(j) = 0 /\ \A row \in Rows : mails[j][row] = 0
    BY DEF Init, Started
  <2> QED BY <2>1, <2>2, FS_EmptySet DEF SendsCounted
<1> QED BY <1>1, <1>4, <1>5, <1>6, <1>7, <1>8 DEF BulkInv

\* Every step of the system keeps it.
LEMMA BulkStep == BulkInv /\ [Next]_vars => BulkInv'
BY BaseStep, RunsFitStep, LogsInOrderStep, CompletedStep, TalliesStep, CountsStep, RoomsStep,
   SuccessesStep, SendsStep DEF BulkInv

\* The inductive invariant of bulk jobs: through stalls, crashes, rejected calls and runs
\* that overlap, the log grows row by row, no tally is ahead of it, an entry SUCCESS has
\* a mail of its own, and the mails of a row are covered by runs that were started.
THEOREM BulkInvariant == Spec => []BulkInv
<1> QED BY BulkInit, BulkStep, PTL DEF Spec

\* Type correctness of the bulk jobs module.
THEOREM BulkTypeCorrect == Spec => []TypeOK
BY BulkInvariant, PTL DEF BulkInv, Base

\* A job marked COMPLETED has an entry for every row of its sheet (lines 101-104).
THEOREM CompletedMeansLogged == Spec => []CompletedJobsAreLogged
BY BulkInvariant, PTL DEF BulkInv

\* Neither the counters of the table (lines 78-85) nor those of the last event of a room
\* (87-96, 105) are ahead of the log, whatever runs overwrite each other's.
THEOREM CountsMatchTheLog == Spec => []CountsAreLogged
BY BulkInvariant, PTL DEF BulkInv

\* A row has no more SUCCESS entries than its customer was sent mails.
THEOREM SuccessMeansMailed == Spec => []LoggedSuccessWasMailed
<1>1. BulkInv => LoggedSuccessWasMailed
  <2> SUFFICES ASSUME BulkInv, NEW j \in JobIds, NEW row \in Rows
               PROVE  logs[j][row]["SUCCESS"] <= mails[j][row]
    BY DEF LoggedSuccessWasMailed
  <2>1. Cardinality(ToLog(j, row)) \in Nat
    BY StallsFinite DEF ToLog
  <2>2. logs[j][row]["SUCCESS"] \in Nat /\ mails[j][row] \in Nat
    BY DEF BulkInv, Base, TypeOK, Statuses
  <2> QED BY <2>1, <2>2 DEF BulkInv, SuccessesMailed
<1> QED BY <1>1, BulkInvariant, PTL

\* A customer gets one mail for every run of the job at most, and there are no more of
\* those than the stalls BullMQ allows, and one.
THEOREM MailsAreBounded == Spec => []OneMailPerRowPerRun
<1>1. BulkInv => OneMailPerRowPerRun
  <2> SUFFICES ASSUME BulkInv, NEW j \in JobIds, NEW row \in Rows
               PROVE  /\ mails[j][row] <= queue[j].stalls + 1
                      /\ mails[j][row] <= MaxStalledCount + 1
    BY DEF OneMailPerRowPerRun
  <2>1. Cardinality(MayMail(j, row)) \in Nat
    BY StallsFinite DEF MayMail
  <2>2. mails[j][row] \in Nat /\ queue[j] \in QueueJob
    BY DEF BulkInv, Base, TypeOK
  <2>3. queue[j].stalls \in Nat /\ MaxStalledCount \in Nat
    BY <2>2, BulkAssumption DEF QueueJob
  <2>4. mails[j][row] <= Started(j)
    <3>1. mails[j][row] + Cardinality(MayMail(j, row)) <= Started(j)
      BY DEF BulkInv, SendsCounted
    <3>2. Started(j) \in Nat
      BY <2>3 DEF Started, LeastOf
    <3> QED BY <2>1, <2>2, <3>1, <3>2
  <2>5. /\ queue[j].state = "none" => queue[j].stalls = 0
        /\ queue[j].state = "waiting" => queue[j].stalls <= MaxStalledCount
    BY DEF BulkInv, Base, QueueFits
  <2> QED BY <2>2, <2>3, <2>4, <2>5 DEF Started, LeastOf
<1> QED BY <1>1, BulkInvariant, PTL
=============================================================================
