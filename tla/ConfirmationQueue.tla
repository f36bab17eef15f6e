------------------------- MODULE ConfirmationQueue -------------------------
(***************************************************************************)
(* The BullMQ queue 'appointment-notifications' and its one worker, the    *)
(* AppointmentNotificationProcessor.  BullMQ is a library: its part (first *)
(* in first out, one job active at a time, one attempt, stalled jobs put   *)
(* back) is modelled from how src/ configures it, with every option left   *)
(* at its default.                                                         *)
(***************************************************************************)
EXTENDS Integers, Sequences

CONSTANTS
  AppointmentIds,
  MaxStalledCount,   \* BullMQ's maxStalledCount: 1 by default
  MaxStalls,         \* bound: stalls of one job the runs explore
  MaxStarted         \* bound: jobs the worker starts on in a run

ASSUME QueueAssumption == {MaxStalledCount, MaxStalls, MaxStarted} \subseteq Nat

VARIABLE jobs        \* every job ever added, oldest first

Job == [ appointmentId : AppointmentIds,
         state  : {"waiting", "active", "completed", "failed"},
         stalls : Nat,       \* times the job lost its worker
         sent   : BOOLEAN,   \* the current run's sendMail has returned
         mails  : Nat ]      \* history: mails the SMTP server has accepted

NewJob(id) == [appointmentId |-> id, state |-> "waiting", stalls |-> 0,
               sent |-> FALSE, mails |-> 0]

\* this.notificationQueue.add('send-confirmation', ...)
AddJob(id) == jobs' = Append(jobs, NewJob(id))

-----------------------------------------------------------------------------
\* Mutants: a worker without concurrency limit; a completed run that skipped
\* the send; a run that sends again after its send has returned.

TakeConcurrently(j) ==
  /\ jobs[j].state = "waiting"
  /\ j <= MaxStarted
  /\ jobs' = [jobs EXCEPT ![j].state = "active", ![j].sent = FALSE]

FinishUnsent(j) ==
  /\ jobs[j].state = "active"
  /\ jobs' = [jobs EXCEPT ![j].state = "completed"]

DeliverAgain(j) ==
  /\ jobs[j].state = "active"
  /\ jobs[j].mails <= MaxStalls + 2
  /\ jobs' = [jobs EXCEPT ![j].sent = TRUE, ![j].mails = @ + 1]

-----------------------------------------------------------------------------
\* The worker fetches the oldest waiting job when it has none in hand.
Take(j) ==
  /\ jobs[j].state = "waiting"
  /\ \A k \in DOMAIN jobs : jobs[k].state # "active"
  /\ \A k \in DOMAIN jobs : k < j => jobs[k].state # "waiting"
  /\ j <= MaxStarted
  /\ jobs' = [jobs EXCEPT ![j].state = "active", ![j].sent = FALSE]

\* process(): the awaited sendMail resolves.
Deliver(j) ==
  /\ jobs[j].state = "active"
  /\ ~jobs[j].sent
  /\ jobs' = [jobs EXCEPT ![j].sent = TRUE, ![j].mails = @ + 1]

\* process() rethrows what sendMail throws and BullMQ, with one attempt, marks
\* the job failed.  The server may have accepted the mail and lost the reply.
Reject(j, accepted) ==
  /\ jobs[j].state = "active"
  /\ ~jobs[j].sent
  /\ jobs' = [jobs EXCEPT ![j].state = "failed", ![j].mails = @ + accepted]

\* process() returns.
Finish(j) ==
  /\ jobs[j].state = "active"
  /\ jobs[j].sent
  /\ jobs' = [jobs EXCEPT ![j].state = "completed"]

\* The worker dies, or loses its lock on the job, in the middle of a run: the job
\* goes back to the queue, or fails when it has stalled too often.  What the old
\* run had under way may still reach the mail server.
Stall(j, accepted) ==
  /\ jobs[j].state = "active"
  /\ jobs[j].stalls < MaxStalls
  /\ accepted = 1 => ~jobs[j].sent
  /\ jobs' = [jobs EXCEPT
       ![j].state = IF jobs[j].stalls < MaxStalledCount THEN "waiting" ELSE "failed",
       ![j].stalls = @ + 1,
       ![j].sent = FALSE,
       ![j].mails = @ + accepted]

Worker ==
  \E j \in DOMAIN jobs :
    \/ Take(j)
    \/ Deliver(j)
    \/ \E accepted \in {0, 1} : Reject(j, accepted)
    \/ Finish(j)
    \/ \E accepted \in {0, 1} : Stall(j, accepted)

-----------------------------------------------------------------------------
\* A customer gets at most one mail per run of the job: duplicates come only from
\* stalls, never from the processor (appointment-notification.processor.ts:28-64).
OneMailPerRun == \A j \in DOMAIN jobs : jobs[j].mails <= jobs[j].stalls + 1

\* README.md:113: a job the queue counts as completed has sent its mail, whatever
\* stalls and restarts came before the run that completed it.
CompletedJobsSentMail ==
  \A j \in DOMAIN jobs : jobs[j].state = "completed" => jobs[j].mails > 0

\* Jobs are started in the order of queue.add (appointments.service.ts:217), which
\* is the order of the CONFIRMED updates only if the handlers take turns: no job is
\* started while an older one still waits, also when the older one has stalled.
FirstConfirmedFirstMailed ==
  \A j, k \in DOMAIN jobs :
    j < k /\ jobs[j].state = "waiting" => jobs[k].state = "waiting"
=============================================================================
