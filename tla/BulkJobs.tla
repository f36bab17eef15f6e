------------------------------ MODULE BulkJobs ------------------------------
(***************************************************************************)
(* Bulk confirmation mails: BulkJobsService stores an uploaded sheet and   *)
(* queues it, BulkNotificationProcessor mails it row by row, and           *)
(* BulkNotificationGateway shows the progress.  SettingsService holds the  *)
(* template the mails are written with.                                    *)
(*                                                                         *)
(* A run of process() is an async function: each action is one awaited     *)
(* call or one emit, and another run, upload or setting may act between.   *)
(* BullMQ runs a job again from its first row when the job has stalled; a  *)
(* run that only lost its lock goes on beside the new one.                 *)
(***************************************************************************)
EXTENDS Integers, FiniteSets, TemplateRenderer

CONSTANTS
  JobIds,           \* uploads there can be; the queue job has the row's id in its data
  MaxRows,          \* bound: rows of a sheet that have a name and an address
  Templates,        \* templates there are, and the texts of each
  Texts,
  Seeded,           \* whether prisma/seed.ts was run on the database
  Concurrency,      \* the @Processor option: 5
  MaxStalledCount,  \* BullMQ's maxStalledCount: 1 by default
  NULL

VARIABLES
  bulkJobs,         \* the BulkJob table; NULL is an id not yet used
  logs,             \* the NotificationLog table: entries by job, row and status
  settings,         \* the Settings row; NULL if there is none
  uploads,          \* jobs whose upload handler is between create and queue.add
  queue,            \* BullMQ's record of each job
  runs,             \* the continuation of each run of process()
  room,             \* the last event sent to the room of each job
  \* History, read by no action:
  mails,            \* mails accepted by the server, by job and row
  styles            \* templates those mails were written with, by job

vars == <<bulkJobs, logs, settings, uploads, queue, runs, room, mails, styles>>

Rows == 0 .. (MaxRows - 1)
RunIds == JobIds \X (0 .. MaxStalledCount)   \* a job and how often it had stalled
Styles == Templates \cup {NULL}              \* NULL is the text built into processRow()
Settings == [activeTemplate : Styles]
Statuses == {"SUCCESS", "FAILED"}

\* The schema's fourth status, FAILED, is written by no code.
BulkJob == [status : {"PENDING", "PROCESSING", "COMPLETED"}, totalRows : 0 .. MaxRows,
            processedCount : Nat, successCount : Nat, failCount : Nat]

\* Why BullMQ has filed a job as failed.
FailedReasons == {"none", "rejected call", "stalled too often"}

QueueJob == [state : {"none", "waiting", "active", "completed", "failed"},
             stalls : 0 .. (MaxStalledCount + 1), failedReason : FailedReasons]

Run == [pc : {"start", "emitStarted", "getSettings", "send", "log", "count", "emitRow",
              "complete", "emitCompleted"},
        i : Nat, template : Styles, result : Statuses, successCount : Nat, failCount : Nat]

Event == [type : {"none", "job-started", "row-processed", "job-completed"},
          successCount : Nat, failCount : Nat]

NewRun == [pc |-> "start", i |-> 0, template |-> NULL, result |-> "FAILED",
           successCount |-> 0, failCount |-> 0]

ASSUME BulkAssumption ==
  /\ MaxRows \in Nat
  /\ Concurrency \in Nat \ {0}
  /\ MaxStalledCount \in Nat
  /\ Seeded \in BOOLEAN
  /\ DOMAIN Texts = Templates
  /\ NULL \notin Templates
  /\ NULL \notin Settings
  /\ NULL \notin BulkJob
  /\ NULL \notin Run

\* The settings row is as the seed, or staff in an earlier life of the process, left it.
Init ==
  /\ bulkJobs = [j \in JobIds |-> NULL]
  /\ logs = [j \in JobIds |-> [row \in Rows |-> [status \in Statuses |-> 0]]]
  /\ settings \in IF Seeded THEN Settings ELSE {NULL}
  /\ uploads = {}
  /\ queue = [j \in JobIds |-> [state |-> "none", stalls |-> 0, failedReason |-> "none"]]
  /\ runs = [r \in RunIds |-> NULL]
  /\ room = [j \in JobIds |-> [type |-> "none", successCount |-> 0, failCount |-> 0]]
  /\ mails = [j \in JobIds |-> [row \in Rows |-> 0]]
  /\ styles = [j \in JobIds |-> {}]

Table == <<bulkJobs, logs>>
Sent == <<mails, styles>>

Running == { r \in RunIds : runs[r] # NULL }
At(r, pc) == r \in Running /\ runs[r].pc = pc
Goto(r, run) == runs' = [runs EXCEPT ![r] = run]
TotalRows(r) == bulkJobs[r[1]].totalRows

\* The run that holds the lock of its job.
Current(r) == queue[r[1]].state = "active" /\ queue[r[1]].stalls = r[2]

\* process() has returned or thrown; BullMQ files the job unless the lock is lost.
EndRun(r, state, reason) ==
  /\ runs' = [runs EXCEPT ![r] = NULL]
  /\ queue' = IF Current(r)
              THEN [queue EXCEPT ![r[1]].state = state, ![r[1]].failedReason = reason]
              ELSE queue

Push(r, type) ==
  room' = [room EXCEPT ![r[1]] = [type |-> type, successCount |-> runs[r].successCount,
                                  failCount |-> runs[r].failCount]]

-----------------------------------------------------------------------------
\* uploadAndEnqueue()

\* Lines 25-34; a file that does not parse ends the request with nothing done.
CreateBulkJob(j, rows) ==
  /\ bulkJobs[j] = NULL
  /\ bulkJobs' = [bulkJobs EXCEPT
       ![j] = [status |-> "PENDING", totalRows |-> rows,
               processedCount |-> 0, successCount |-> 0, failCount |-> 0]]
  /\ uploads' = uploads \cup {j}
  /\ UNCHANGED <<logs, settings, queue, runs, room, Sent>>

\* Lines 36-40.
EnqueueBulk(j) ==
  /\ j \in uploads
  /\ uploads' = uploads \ {j}
  /\ queue' = [queue EXCEPT ![j].state = "waiting"]
  /\ UNCHANGED <<Table, settings, runs, room, Sent>>

\* queue.add rejects: the row stays PENDING and nothing will run it.
EnqueueRejected(j) ==
  /\ j \in uploads
  /\ uploads' = uploads \ {j}
  /\ UNCHANGED <<Table, settings, queue, runs, room, Sent>>

-----------------------------------------------------------------------------
\* SettingsService: each method ends in one write that carries only the row's id
\* from its reads.  Without a row `settings!.id` throws and nothing is written.

WriteSettings(template) ==
  /\ settings # NULL
  /\ settings' = [settings EXCEPT !.activeTemplate = template]
  /\ UNCHANGED <<Table, uploads, queue, runs, room, Sent>>

SetActiveTemplate(template) == template \in Templates /\ WriteSettings(template)

ClearActiveTemplate == WriteSettings(NULL)

-----------------------------------------------------------------------------
\* process()

\* A worker with a free slot starts a waiting job from its first row.
TakeBulk(j) ==
  /\ queue[j].state = "waiting"
  /\ Cardinality(Running) < Concurrency
  /\ queue' = [queue EXCEPT ![j].state = "active"]
  /\ Goto(<<j, queue[j].stalls>>, NewRun)
  /\ UNCHANGED <<Table, settings, uploads, room, Sent>>

\* Lines 37-40.
MarkProcessing(r) ==
  /\ At(r, "start")
  /\ bulkJobs' = [bulkJobs EXCEPT ![r[1]].status = "PROCESSING"]
  /\ Goto(r, [runs[r] EXCEPT !.pc = "emitStarted"])
  /\ UNCHANGED <<logs, settings, uploads, queue, room, Sent>>

\* Line 41.
EmitStarted(r) ==
  /\ At(r, "emitStarted")
  /\ Push(r, "job-started")
  /\ Goto(r, [runs[r] EXCEPT !.pc = "getSettings"])
  /\ UNCHANGED <<Table, settings, uploads, queue, Sent>>

\* Mutant: the loop starts at row 1, the numbering of the sheet.
NextRowOffByOne(r, i) == IF i + 1 < TotalRows(r) THEN "send" ELSE "complete"

\* The head of the loop, line 50.
NextRow(r, i) == IF i < TotalRows(r) THEN "send" ELSE "complete"

\* Mutant: the row is asserted to be there, as in the two methods above.
ReadSettingsAsserted(r) ==
  /\ At(r, "getSettings")
  /\ IF settings = NULL THEN EndRun(r, "failed", "TypeError")
     ELSE /\ Goto(r, [runs[r] EXCEPT !.template = settings.activeTemplate, !.pc = NextRow(r, 0)])
          /\ UNCHANGED queue
  /\ UNCHANGED <<Table, settings, uploads, room, Sent>>

\* settings?.activeTemplate
ActiveTemplate == IF settings = NULL THEN NULL ELSE settings.activeTemplate

\* Lines 44-50: the template is read once for the whole run.
ReadSettings(r) ==
  /\ At(r, "getSettings")
  /\ Goto(r, [runs[r] EXCEPT !.template = ActiveTemplate, !.pc = NextRow(r, 0)])
  /\ UNCHANGED <<Table, settings, uploads, queue, room, Sent>>

\* The names of processRow()'s `variables`, lines 119-125.
Variables == {"customerName", "serviceName", "date", "startTime", "endTime"}

\* Lines 130-140: the subject and the body of a mail written with `template`.
MailText(template) ==
  IF template = NULL
  THEN [subject |-> <<Plain>>,
        body |-> <<Plain, Value("customerName"), Plain, Value("serviceName"), Plain,
                   Value("date"), Plain, Value("startTime"), Plain>>]
  ELSE [subject |-> Render(Texts[template].subject, Variables),
        body |-> Render(Texts[template].body, Variables)]

\* One awaited sendMail, written with `template`; the server may have accepted the
\* mail of a send that is rejected.  `recorded` is what the run makes of the result.
Send(r, accepted, result, template, recorded, pc) ==
  /\ At(r, "send")
  /\ result = "SUCCESS" => accepted = 1
  /\ mails' = [mails EXCEPT ![r[1]][runs[r].i] = @ + accepted]
  /\ styles' = [styles EXCEPT ![r[1]] = IF accepted = 1 THEN @ \cup {template} ELSE @]
  /\ Goto(r, [runs[r] EXCEPT !.result = recorded, !.pc = pc])
  /\ UNCHANGED <<Table, settings, uploads, queue, room>>

\* Mutants: each row is written with the template of the moment; a failing send
\* counts as a success; a rejected send is tried again at once.
SendRowRestyled(r, accepted, result) ==
  Send(r, accepted, result, ActiveTemplate, result, "log")

SendRowOptimistic(r, accepted, result) ==
  Send(r, accepted, result, runs[r].template, "SUCCESS", "log")

SendRowRetried(r, accepted, result) ==
  /\ At(r, "send")
  /\ mails[r[1]][runs[r].i] < 4
  /\ Send(r, accepted, result, runs[r].template, result,
          IF result = "SUCCESS" THEN "log" ELSE "send")

\* processRow(), lines 114-152: a rejected send is caught and becomes the row's
\* result.
SendRow(r, accepted, result) ==
  Send(r, accepted, result, runs[r].template, result, "log")

Tally(run) ==
  [run EXCEPT !.successCount = IF run.result = "SUCCESS" THEN @ + 1 ELSE @,
              !.failCount    = IF run.result = "FAILED"  THEN @ + 1 ELSE @]

\* Mutant: only failures are worth an entry.
LogRowFailures(r) ==
  /\ At(r, "log")
  /\ logs' = IF runs[r].result = "FAILED"
             THEN [logs EXCEPT ![r[1]][runs[r].i]["FAILED"] = @ + 1] ELSE logs
  /\ Goto(r, [Tally(runs[r]) EXCEPT !.pc = "count"])
  /\ UNCHANGED <<bulkJobs, settings, uploads, queue, room, Sent>>

\* Lines 56-73.
LogRow(r) ==
  /\ At(r, "log")
  /\ logs' = [logs EXCEPT ![r[1]][runs[r].i][runs[r].result] = @ + 1]
  /\ Goto(r, [Tally(runs[r]) EXCEPT !.pc = "count"])
  /\ UNCHANGED <<bulkJobs, settings, uploads, queue, room, Sent>>

Count(r, processed, success, fail) ==
  /\ At(r, "count")
  /\ bulkJobs' = [bulkJobs EXCEPT ![r[1]].processedCount = processed,
                                  ![r[1]].successCount = success,
                                  ![r[1]].failCount = fail]
  /\ Goto(r, [runs[r] EXCEPT !.pc = "emitRow"])
  /\ UNCHANGED <<logs, settings, uploads, queue, room, Sent>>

\* Mutants: the rows still to do are written for the rows done; the row's counters
\* are added to instead of overwritten.
CountRowRemaining(r) ==
  Count(r, TotalRows(r) - runs[r].i, runs[r].successCount, runs[r].failCount)

CountRowIncrement(r) ==
  Count(r, bulkJobs[r[1]].processedCount + 1,
        bulkJobs[r[1]].successCount + runs[r].successCount,
        bulkJobs[r[1]].failCount + runs[r].failCount)

\* Lines 75-85: the run's own counters overwrite the table's.
CountRow(r) == Count(r, runs[r].i + 1, runs[r].successCount, runs[r].failCount)

\* Lines 87-98 and the next turn of the loop.
EmitRow(r) ==
  /\ At(r, "emitRow")
  /\ Push(r, "row-processed")
  /\ Goto(r, [runs[r] EXCEPT !.i = @ + 1, !.pc = NextRow(r, runs[r].i + 1)])
  /\ UNCHANGED <<Table, settings, uploads, queue, Sent>>

\* Mutant: only a sheet with rows is marked.
MarkCompletedNonEmpty(r) ==
  /\ At(r, "complete")
  /\ TotalRows(r) > 0
  /\ bulkJobs' = [bulkJobs EXCEPT ![r[1]].status = "COMPLETED"]
  /\ Goto(r, [runs[r] EXCEPT !.pc = "emitCompleted"])
  /\ UNCHANGED <<logs, settings, uploads, queue, room, Sent>>

\* Mutant: the last row's event is taken for the end of the job.
MarkCompletedSilent(r) ==
  /\ At(r, "complete")
  /\ bulkJobs' = [bulkJobs EXCEPT ![r[1]].status = "COMPLETED"]
  /\ EndRun(r, "completed", "none")
  /\ UNCHANGED <<logs, settings, uploads, room, Sent>>

\* Lines 101-104.
MarkCompleted(r) ==
  /\ At(r, "complete")
  /\ bulkJobs' = [bulkJobs EXCEPT ![r[1]].status = "COMPLETED"]
  /\ Goto(r, [runs[r] EXCEPT !.pc = "emitCompleted"])
  /\ UNCHANGED <<logs, settings, uploads, queue, room, Sent>>

\* Lines 105-112.
EmitCompleted(r) ==
  /\ At(r, "emitCompleted")
  /\ Push(r, "job-completed")
  /\ EndRun(r, "completed", "none")
  /\ UNCHANGED <<Table, settings, uploads, Sent>>

\* A call of the database rejects, before or after the database has acted.
\* Nothing catches that; the queue job has one attempt, and the BulkJob row keeps
\* the status it has.
Throw(r) ==
  /\ r \in Running
  /\ runs[r].pc # "send"
  /\ EndRun(r, "failed", "rejected call")
  /\ UNCHANGED <<Table, settings, uploads, room, Sent>>

-----------------------------------------------------------------------------
\* Mutant: no limit to how often a job is put back.
StallForever(j) ==
  /\ queue[j].state = "active"
  /\ queue[j].stalls <= MaxStalledCount + 1
  /\ queue' = [queue EXCEPT ![j].state = "waiting", ![j].stalls = @ + 1]
  /\ UNCHANGED <<Table, settings, uploads, runs, room, Sent>>

\* The lock of an active job has expired: its run is gone, or too slow to renew it.
Stall(j) ==
  /\ queue[j].state = "active"
  /\ queue' = [queue EXCEPT
       ![j] = IF queue[j].stalls < MaxStalledCount
              THEN [queue[j] EXCEPT !.state = "waiting", !.stalls = @ + 1]
              ELSE [state |-> "failed", stalls |-> queue[j].stalls + 1,
                    failedReason |-> "stalled too often"]]
  /\ UNCHANGED <<Table, settings, uploads, runs, room, Sent>>

StallGone(j) == Stall(j) /\ runs[<<j, queue[j].stalls>>] = NULL

\* The process dies and is started again.
Crash ==
  /\ runs' = [r \in RunIds |-> NULL]
  /\ uploads' = {}
  /\ UNCHANGED <<Table, settings, queue, room, Sent>>

-----------------------------------------------------------------------------
Process(r) ==
  \/ MarkProcessing(r)
  \/ EmitStarted(r)
  \/ ReadSettings(r)
  \/ \E accepted \in {0, 1}, result \in Statuses : SendRow(r, accepted, result)
  \/ LogRow(r)
  \/ CountRow(r)
  \/ EmitRow(r)
  \/ MarkCompleted(r)
  \/ EmitCompleted(r)

Upload(j) == EnqueueBulk(j) \/ EnqueueRejected(j)

\* Everything but the runs of process() and the death of the process.
Elsewhere ==
  \/ \E j \in JobIds :
       \/ \E rows \in 0 .. MaxRows : CreateBulkJob(j, rows)
       \/ Upload(j)
       \/ TakeBulk(j)
       \/ Stall(j)
  \* Without templates there is nothing to choose, and to clear changes nothing.
  \/ \E template \in Templates : SetActiveTemplate(template) \/ ClearActiveTemplate

Next == Elsewhere \/ (\E r \in RunIds : Process(r) \/ Throw(r)) \/ Crash

Spec == Init /\ [][Next]_vars

\* Handlers and runs that have their answer go on, the worker polls the queue, and
\* BullMQ's periodic check finds the jobs whose run is gone.  Nothing is assumed of
\* staff, crashes, rejected calls or slow runs.
Fairness ==
  /\ \A j \in JobIds :
       /\ WF_vars(Upload(j))
       /\ WF_vars(TakeBulk(j))
       /\ WF_vars(StallGone(j))
  /\ \A r \in RunIds : WF_vars(Process(r))

FairSpec == Spec /\ Fairness

-----------------------------------------------------------------------------
TypeOK ==
  /\ bulkJobs \in [JobIds -> BulkJob \cup {NULL}]
  /\ logs \in [JobIds -> [Rows -> [Statuses -> Nat]]]
  /\ settings \in Settings \cup {NULL}
  /\ uploads \subseteq JobIds
  /\ queue \in [JobIds -> QueueJob]
  /\ runs \in [RunIds -> Run \cup {NULL}]
  /\ room \in [JobIds -> Event]
  /\ mails \in [JobIds -> [Rows -> Nat]]
  /\ styles \in [JobIds -> SUBSET Styles]

RowsOf(j) == 0 .. (bulkJobs[j].totalRows - 1)
Logged(j, status) == { row \in Rows : logs[j][row][status] > 0 }
Uploaded == { j \in JobIds : bulkJobs[j] # NULL }

\* README.md:119: the log of a completed job accounts for every row of its sheet,
\* whatever stalls, crashes and overlapping runs there were on the way.
CompletedJobsAreLogged ==
  \A j \in Uploaded :
    bulkJobs[j].status = "COMPLETED"
      => RowsOf(j) \subseteq Logged(j, "SUCCESS") \cup Logged(j, "FAILED")

\* No count is ahead of the log, neither in the table (lines 78-85) nor on the
\* screens watching the job (87-96, 105), also while two runs overwrite each other.
CountsAreLogged ==
  \A j \in Uploaded :
    /\ bulkJobs[j].processedCount = bulkJobs[j].successCount + bulkJobs[j].failCount
    /\ \A shown \in {bulkJobs[j], room[j]} :
         /\ shown.successCount <= Cardinality(Logged(j, "SUCCESS"))
         /\ shown.failCount <= Cardinality(Logged(j, "FAILED"))

\* An entry SUCCESS stands for a mail the server accepted, of this row, in a run of
\* its own.
LoggedSuccessWasMailed ==
  \A j \in JobIds, row \in Rows : logs[j][row]["SUCCESS"] <= mails[j][row]

\* A customer gets one mail per run of the job at most; only a stall, and BullMQ
\* allows MaxStalledCount of them, starts another run.
OneMailPerRowPerRun ==
  \A j \in JobIds, row \in Rows :
    /\ mails[j][row] <= queue[j].stalls + 1
    /\ mails[j][row] <= MaxStalledCount + 1

\* A job the queue has completed without a stall is completed in the table, with
\* one log entry per row and counters that add up its entries.
FinishedSheets ==
  \A j \in JobIds :
    queue[j].state = "completed" /\ queue[j].stalls = 0 =>
      /\ bulkJobs[j].status = "COMPLETED"
      /\ bulkJobs[j].processedCount = bulkJobs[j].totalRows
      /\ \A row \in RowsOf(j) : logs[j][row]["SUCCESS"] + logs[j][row]["FAILED"] = 1
      /\ bulkJobs[j].successCount = Cardinality(Logged(j, "SUCCESS"))

\* The rows of a sheet that ran without a stall are written with one template, also
\* when staff switch it while the sheet is mailed (lines 44-45).
OneTemplatePerSheet ==
  \A j \in JobIds : queue[j].stalls = 0 => Cardinality(styles[j]) <= 1

Rank(job) == CASE job.status = "PENDING" -> 0
               [] job.status = "PROCESSING" -> 1
               [] job.status = "COMPLETED" -> 2

\* The status and the progress of a job go back only if the job has stalled.
ProgressOnlyForward ==
  [][\A j \in Uploaded :
       queue[j].stalls = 0 =>
         /\ Rank(bulkJobs[j]) <= Rank(bulkJobs'[j])
         /\ bulkJobs[j].processedCount <= bulkJobs'[j].processedCount]_vars

\* Nothing of a job stays under way for ever: its upload ends, the queue files it,
\* and its runs, overtaken ones included, come to an end.
UploadsSettle ==
  \A j \in JobIds :
    <>[](/\ j \notin uploads
         /\ queue[j].state \notin {"waiting", "active"}
         /\ \A r \in Running : r[1] # j)

\* The results of a job are there to be looked up later (README.md:119), so it should
\* end as COMPLETED (bulk-notification.processor.ts:101-104): through crashes, stalls,
\* rejected mails, an empty sheet or a database without settings (line 45), unless
\* queue.add never took it, the database rejected a call, or it stalled too often.
UploadsComplete ==
  \A j \in JobIds :
    j \in Uploaded
      ~> \/ j \in Uploaded /\ bulkJobs[j].status = "COMPLETED"
         \/ j \notin uploads /\ queue[j].state = "none"
         \/ queue[j].failedReason \in {"rejected call", "stalled too often"}

\* schema.prisma:96: a template supports placeholders like {customerName}, {service},
\* {date}, {time}; no customer reads one that was left as it is.
NoRawPlaceholders ==
  \A j \in JobIds : \A template \in styles[j] :
    LET mail == MailText(template)
    IN  Placeholders(mail.subject) \cup Placeholders(mail.body) = {}

-----------------------------------------------------------------------------
LoggedRows(j) == Logged(j, "SUCCESS") \cup Logged(j, "FAILED")
LeastOf(m, n) == IF m < n THEN m ELSE n

\* What module Sheet keeps of a job.
Sheets == [status : {"PENDING", "PROCESSING", "COMPLETED"}, rows : 0 .. MaxRows,
           settled : SUBSET Rows, mails : [Rows -> Nat], retries : 0 .. MaxStalledCount]

ASSUME NullIsNoSheet == NULL \notin Sheets

SheetOf(j) ==
  IF bulkJobs[j] = NULL THEN NULL
  ELSE [status |-> bulkJobs[j].status, rows |-> bulkJobs[j].totalRows,
        settled |-> LoggedRows(j), mails |-> mails[j],
        retries |-> LeastOf(queue[j].stalls, MaxStalledCount)]

Promise == INSTANCE Sheet WITH
  Jobs <- JobIds,
  MaxRetries <- MaxStalledCount,
  sheet <- [j \in JobIds |-> SheetOf(j)]

\* With runs that overlap, die, throw and are repeated, a bulk job is still a sheet
\* whose rows are settled in order and mailed once per attempt at most.
ImplementsSheet == Promise!Spec
=============================================================================
