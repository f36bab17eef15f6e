------------------------- MODULE BulkWatchersProofs -------------------------
(***************************************************************************)
(* Proofs about the people who wait for a bulk job: whoever joins the room *)
(* of a job and then reads the job learns of its completion.               *)
(***************************************************************************)
EXTENDS BulkWatchers, BulkJobsProofs

\* A client has read a job only in its room.
ClientsFit ==
  /\ clients \in [Clients -> Client]
  /\ \A w \in Clients : clients[w].view # "none" => clients[w].job \in JobIds

WatchersInv == BulkInv /\ ClientsFit /\ CompletionIsTold

-----------------------------------------------------------------------------
\* Every step of the watchers' system is a step of the bulk jobs or leaves them alone.
LEMMA WatchIsBulk == [WatchNext]_watchVars => [Next]_vars
<1> SUFFICES ASSUME [WatchNext]_watchVars
             PROVE  [Next]_vars
  OBVIOUS
<1>1. \A r \in RunIds : Serve(r) => Process(r)
  BY DEF Serve
<1>2. \A r \in RunIds : Fail(r) => Throw(r)
  BY DEF Fail
<1>3. Restart => Crash
  BY DEF Restart
<1>4. \A w \in Clients :
        (\E j \in JobIds : Subscribe(w, j)) \/ Unsubscribe(w) \/ ReadJob(w) => UNCHANGED vars
  BY DEF Subscribe, Unsubscribe, ReadJob
<1>5. UNCHANGED watchVars => UNCHANGED vars
  BY DEF watchVars
<1> QED BY <1>1, <1>2, <1>3, <1>4, <1>5 DEF WatchNext, Next

\* People who watch change nothing of the bulk jobs: what is proved of these, that they
\* are sheets included, holds with any number of screens joining, leaving and reading.
THEOREM WatchersOnlyWatch == WatchSpec => Spec
<1>1. WatchInit => Init
  BY DEF WatchInit
<1> QED BY <1>1, WatchIsBulk, PTL DEF WatchSpec, Spec

\* What the end of a run, told or lost, does to the clients.
LEMMA ShowStep ==
  ASSUME ClientsFit, NEW j \in JobIds, NEW view \in {"told", "lost"},
         clients' = Show(j, view)
  PROVE  /\ ClientsFit'
         /\ \A w \in Clients :
              /\ clients'[w].job = clients[w].job
              /\ clients[w].job = j => clients'[w].view = view
              /\ clients[w].job # j => clients'[w] = clients[w]
<1>1. ASSUME NEW w \in Clients
      PROVE  /\ clients'[w] \in Client
             /\ clients'[w].view # "none" => clients'[w].job \in JobIds
             /\ clients'[w].job = clients[w].job
             /\ clients[w].job = j => clients'[w].view = view
             /\ clients[w].job # j => clients'[w] = clients[w]
  <2>1. clients[w] \in Client /\ (clients[w].view # "none" => clients[w].job \in JobIds)
    BY <1>1 DEF ClientsFit
  <2>2. clients'[w] = IF clients[w].job = j THEN [clients[w] EXCEPT !.view = view]
                      ELSE clients[w]
    BY <1>1 DEF Show
  <2> QED BY <2>1, <2>2 DEF Client
<1>2. DOMAIN clients' = Clients
  BY DEF Show
<1>3. clients' = [w \in Clients |-> clients'[w]]
  BY DEF Show
<1> QED BY <1>1, <1>3 DEF ClientsFit

\* A step that tells nobody anything keeps the promise if whoever waits already waited, and
\* a completed job was completed before or is about to be told of.
LEMMA StillTold ==
  ASSUME CompletionIsTold,
         \A w \in Clients :
           clients'[w].view = "waiting"
             => /\ clients[w].view = "waiting" /\ clients'[w].job = clients[w].job
                /\ clients[w].job \in JobIds,
         \A j \in JobIds :
           bulkJobs'[j].status = "COMPLETED"
             => \/ bulkJobs[j].status = "COMPLETED"
                \/ \E r \in Running' : r[1] = j /\ runs'[r].pc = "emitCompleted",
         \A r \in Running :
           runs[r].pc = "emitCompleted" => r \in Running' /\ runs'[r].pc = "emitCompleted"
  PROVE  CompletionIsTold'
BY DEF CompletionIsTold

\* A step of a run before its last one completes no job without being about to tell.
LEMMA AdvancesTell ==
  ASSUME Base, RunsFit, NEW r \in RunIds, Advances(r)
  PROVE  /\ r \in Running /\ Running' = Running /\ runs[r].pc # "emitCompleted"
         /\ \A s \in RunIds : s # r => runs'[s] = runs[s]
         /\ \A j \in JobIds :
              bulkJobs'[j].status = "COMPLETED"
                => \/ bulkJobs[j].status = "COMPLETED"
                   \/ j = r[1] /\ runs'[r].pc = "emitCompleted"
<1>1. /\ r \in Running /\ Running' = Running
      /\ \A s \in RunIds : s # r => runs'[s] = runs[s]
  BY AdvancesKeepSheets, AdvancedRunFits, MovesOneRun
<1>2. ASSUME NEW job, Writes(r[1], job)
      PROVE  /\ bulkJobs'[r[1]] = job
             /\ \A j \in JobIds : j # r[1] => bulkJobs'[j] = bulkJobs[j]
  BY <1>1, <1>2, WritesKeepTable
<1>3. CASE MarkProcessing(r)
  <2>1. PICK job : /\ runs[r].pc = "start" /\ Writes(r[1], job) /\ job.status = "PROCESSING"
    BY <1>3, MarkProcessingStep
  <2>2. \A j \in JobIds :
          bulkJobs'[j].status = "COMPLETED" => bulkJobs[j].status = "COMPLETED"
    BY <1>2, <2>1
  <2> QED BY <1>1, <2>1, <2>2
<1>4. CASE CountRow(r)
  <2>1. PICK job : /\ runs[r].pc = "count" /\ Writes(r[1], job)
                   /\ job.status = bulkJobs[r[1]].status
    BY <1>4, CountRowStep
  <2>2. \A j \in JobIds :
          bulkJobs'[j].status = "COMPLETED" => bulkJobs[j].status = "COMPLETED"
    BY <1>2, <2>1
  <2> QED BY <1>1, <2>1, <2>2
<1>5. CASE MarkCompleted(r)
  <2>1. PICK new, job : /\ Moves(r, new) /\ runs[r].pc = "complete"
                        /\ new.pc = "emitCompleted" /\ Writes(r[1], job)
    BY <1>5, MarkCompletedStep
  <2>2. runs'[r].pc = "emitCompleted"
    BY <2>1, MovesOneRun
  <2> QED BY <1>1, <1>2, <2>1, <2>2
<1>6. ASSUME runs[r].pc # "emitCompleted", UNCHANGED bulkJobs
      PROVE  /\ r \in Running /\ Running' = Running /\ runs[r].pc # "emitCompleted"
             /\ \A s \in RunIds : s # r => runs'[s] = runs[s]
             /\ \A j \in JobIds :
                  bulkJobs'[j].status = "COMPLETED"
                    => \/ bulkJobs[j].status = "COMPLETED"
                       \/ j = r[1] /\ runs'[r].pc = "emitCompleted"
  BY <1>1, <1>6
<1>7. EmitStarted(r) => runs[r].pc = "emitStarted" /\ UNCHANGED bulkJobs
  BY EmitStartedStep
<1>8. ReadSettings(r) => runs[r].pc = "getSettings" /\ UNCHANGED bulkJobs
  BY ReadSettingsStep
<1>9. (\E accepted \in {0, 1}, result \in Statuses : SendRow(r, accepted, result))
        => runs[r].pc = "send" /\ UNCHANGED bulkJobs
  BY SendRowStep
<1>10. LogRow(r) => runs[r].pc = "log" /\ UNCHANGED bulkJobs
  BY LogRowStep
<1>11. EmitRow(r) => runs[r].pc = "emitRow" /\ UNCHANGED bulkJobs
  BY EmitRowStep
<1> QED BY <1>3, <1>4, <1>5, <1>6, <1>7, <1>8, <1>9, <1>10, <1>11 DEF Advances

\* Uploads, the queue and staff move no run and complete no job.
LEMMA ElsewhereTells ==
  ASSUME Base, Elsewhere
  PROVE  /\ \A r \in Running : r \in Running' /\ runs'[r] = runs[r]
         /\ \A j \in JobIds :
              bulkJobs'[j].status = "COMPLETED" => bulkJobs[j].status = "COMPLETED"
<1>1. ASSUME UNCHANGED <<bulkJobs, runs>>
      PROVE  /\ \A r \in Running : r \in Running' /\ runs'[r] = runs[r]
             /\ \A j \in JobIds :
                  bulkJobs'[j].status = "COMPLETED" => bulkJobs[j].status = "COMPLETED"
  BY <1>1 DEF Running
<1>2. ASSUME NEW j \in JobIds, NEW rows \in 0 .. MaxRows, CreateBulkJob(j, rows)
      PROVE  /\ \A r \in Running : r \in Running' /\ runs'[r] = runs[r]
             /\ \A i \in JobIds :
                  bulkJobs'[i].status = "COMPLETED" => bulkJobs[i].status = "COMPLETED"
  <2>1. /\ bulkJobs'[j].status = "PENDING" /\ UNCHANGED runs /\ Running' = Running
        /\ \A i \in JobIds : i # j => bulkJobs'[i] = bulkJobs[i]
    BY <1>2, CreateStep
  <2> QED BY <2>1
<1>3. ASSUME NEW j \in JobIds, TakeBulk(j)
      PROVE  /\ \A r \in Running : r \in Running' /\ runs'[r] = runs[r]
             /\ \A i \in JobIds :
                  bulkJobs'[i].status = "COMPLETED" => bulkJobs[i].status = "COMPLETED"
  <2>1. PICK r \in RunIds : /\ r \notin Running /\ Running' = Running \cup {r}
                            /\ \A s \in RunIds : s # r => runs'[s] = runs[s]
                            /\ UNCHANGED bulkJobs
    BY <1>3, TakeStep
  <2> QED BY <2>1 DEF Running
<1>4. \A j \in JobIds : Upload(j) \/ Stall(j) => UNCHANGED <<bulkJobs, runs>>
  BY DEF Upload, EnqueueBulk, EnqueueRejected, Stall, Table
<1>5. \A template \in Templates :
        SetActiveTemplate(template) \/ ClearActiveTemplate => UNCHANGED <<bulkJobs, runs>>
  BY DEF SetActiveTemplate, ClearActiveTemplate, WriteSettings, Table
<1> QED BY <1>1, <1>2, <1>3, <1>4, <1>5 DEF Elsewhere

\* The end of a run that has completed its job is told to all who wait, or lost to them.
LEMMA TellingStep ==
  ASSUME Base, ClientsFit, CompletionIsTold, NEW r \in RunIds,
         NEW state \in {"completed", "failed"}, Ends(r, state), UNCHANGED bulkJobs,
         NEW view \in {"told", "lost"}, clients' = Show(r[1], view)
  PROVE  ClientsFit' /\ CompletionIsTold'
<1>1. /\ ClientsFit'
      /\ \A w \in Clients :
           /\ clients'[w].job = clients[w].job
           /\ clients[w].job = r[1] => clients'[w].view = view
           /\ clients[w].job # r[1] => clients'[w] = clients[w]
  BY RunNames, ShowStep
<1>2. /\ Running' = Running \ {r}
      /\ \A s \in RunIds : s # r => runs'[s] = runs[s]
  BY EndsOneRun
<1>3. ASSUME NEW w \in Clients, clients'[w].view = "waiting",
             bulkJobs'[clients'[w].job].status = "COMPLETED"
      PROVE  \E s \in Running' : s[1] = clients'[w].job /\ runs'[s].pc = "emitCompleted"
  <2>1. clients[w].job # r[1] /\ clients'[w] = clients[w]
    BY <1>1, <1>3
  <2>2. PICK s \in Running : s[1] = clients[w].job /\ runs[s].pc = "emitCompleted"
    BY <1>3, <2>1 DEF CompletionIsTold
  <2>3. s # r /\ s \in RunIds
    BY <2>1, <2>2 DEF Running
  <2> QED BY <1>2, <2>1, <2>2, <2>3
<1> QED BY <1>1, <1>3 DEF CompletionIsTold

\* The end of any other run changes nothing for those who wait.
LEMMA OtherEndStep ==
  ASSUME Base, ClientsFit, CompletionIsTold, NEW r \in RunIds,
         NEW state \in {"completed", "failed"}, Ends(r, state), UNCHANGED <<bulkJobs, clients>>,
         runs[r].pc # "emitCompleted"
  PROVE  ClientsFit' /\ CompletionIsTold'
<1>1. /\ Running' = Running \ {r} /\ Running \subseteq RunIds
      /\ \A s \in RunIds : s # r => runs'[s] = runs[s]
  BY EndsOneRun DEF Running
<1>2. \A s \in Running :
        runs[s].pc = "emitCompleted" => s \in Running' /\ runs'[s].pc = "emitCompleted"
  BY <1>1
<1> QED BY <1>2, StillTold DEF ClientsFit

\* Joining, leaving and reading.
LEMMA ClientStep ==
  ASSUME ClientsFit, CompletionIsTold, UNCHANGED vars, NEW w \in Clients,
         (\E j \in JobIds : Subscribe(w, j)) \/ Unsubscribe(w) \/ ReadJob(w)
  PROVE  ClientsFit' /\ CompletionIsTold'
<1>1. UNCHANGED <<bulkJobs, runs>> /\ Running' = Running
  BY DEF vars, Running
<1>2. clients[w] \in Client
  BY DEF ClientsFit
<1>3. ASSUME NEW c, c \in Client, clients' = [clients EXCEPT ![w] = c],
             c.view # "none" => c.job \in JobIds,
             c.view = "waiting" => bulkJobs[c.job].status # "COMPLETED"
      PROVE  ClientsFit' /\ CompletionIsTold'
  <2>1. clients'[w] = c /\ \A v \in Clients : v # w => clients'[v] = clients[v]
    BY <1>3 DEF ClientsFit
  <2>2. ClientsFit'
    BY <1>3, <2>1 DEF ClientsFit
  <2>3. ASSUME NEW v \in Clients, clients'[v].view = "waiting",
               bulkJobs'[clients'[v].job].status = "COMPLETED"
        PROVE  \E s \in Running' : s[1] = clients'[v].job /\ runs'[s].pc = "emitCompleted"
    <3>1. v # w
      BY <1>1, <1>3, <2>1, <2>3
    <3> QED BY <1>1, <2>1, <2>3, <3>1 DEF CompletionIsTold
  <2> QED BY <2>2, <2>3 DEF CompletionIsTold
<1>4. ASSUME NEW j \in JobIds, Subscribe(w, j)
      PROVE  ClientsFit' /\ CompletionIsTold'
  BY <1>3, <1>4 DEF Subscribe, Joined, Client
<1>5. CASE Unsubscribe(w)
  BY <1>3, <1>5 DEF Unsubscribe, Joined, Client
<1>6. CASE ReadJob(w)
  <2>1. PICK view : view = IF bulkJobs[clients[w].job].status = "COMPLETED" THEN "told"
                           ELSE "waiting"
    OBVIOUS
  <2>2. clients' = [clients EXCEPT ![w] = [clients[w] EXCEPT !.view = view]]
    BY <1>6, <2>1 DEF ReadJob
  <2>3. /\ [clients[w] EXCEPT !.view = view] \in Client
        /\ [clients[w] EXCEPT !.view = view].view = view
        /\ [clients[w] EXCEPT !.view = view].job = clients[w].job
        /\ clients[w].job \in JobIds
    BY <1>2, <1>6, <2>1 DEF ReadJob, Client
  <2>4. view = "waiting" => bulkJobs[clients[w].job].status # "COMPLETED"
    BY <2>1
  <2>5. PICK c : c = [clients[w] EXCEPT !.view = view]
    OBVIOUS
  <2>6. /\ c \in Client /\ clients' = [clients EXCEPT ![w] = c]
        /\ c.view # "none" => c.job \in JobIds
        /\ c.view = "waiting" => bulkJobs[c.job].status # "COMPLETED"
    BY <2>2, <2>3, <2>4, <2>5
  <2> QED BY <1>3, <2>6
<1> QED BY <1>4, <1>5, <1>6

-----------------------------------------------------------------------------
\* Nobody waits at the start.
LEMMA WatchersInit == WatchInit => WatchersInv
<1> SUFFICES ASSUME WatchInit PROVE WatchersInv
  OBVIOUS
<1>1. BulkInv
  BY BulkInit DEF WatchInit
<1>2. ClientsFit /\ CompletionIsTold
  BY DEF WatchInit, ClientsFit, CompletionIsTold, Joined, Client
<1> QED BY <1>1, <1>2 DEF WatchersInv

\* Every step keeps the watchers' invariant.
LEMMA WatchersStep ==
  ASSUME WatchersInv, [WatchNext]_watchVars
  PROVE  WatchersInv'
<1>1. /\ [Next]_vars
      /\ BulkInv /\ Base /\ RunsFit /\ ClientsFit /\ CompletionIsTold
  BY WatchIsBulk DEF WatchersInv, BulkInv
<1>2. BulkInv'
  BY <1>1, BulkStep
<1>3. ASSUME \A j \in JobIds :
               bulkJobs'[j].status = "COMPLETED"
                 => \/ bulkJobs[j].status = "COMPLETED"
                    \/ \E r \in Running' : r[1] = j /\ runs'[r].pc = "emitCompleted",
             \A r \in Running :
               runs[r].pc = "emitCompleted" => r \in Running' /\ runs'[r].pc = "emitCompleted",
             UNCHANGED clients
      PROVE  ClientsFit' /\ CompletionIsTold'
  BY <1>1, <1>3, StillTold DEF ClientsFit
<1>4. Elsewhere /\ UNCHANGED clients => ClientsFit' /\ CompletionIsTold'
  BY <1>1, <1>3, ElsewhereTells
<1>5. ASSUME NEW r \in RunIds, Serve(r)
      PROVE  ClientsFit' /\ CompletionIsTold'
  <2>1. CASE Advances(r)
    <3>1. /\ r \in Running /\ Running' = Running /\ runs[r].pc # "emitCompleted"
          /\ \A s \in RunIds : s # r => runs'[s] = runs[s]
          /\ \A j \in JobIds :
               bulkJobs'[j].status = "COMPLETED"
                 => \/ bulkJobs[j].status = "COMPLETED"
                    \/ j = r[1] /\ runs'[r].pc = "emitCompleted"
          /\ Running \subseteq RunIds
      BY <1>1, <2>1, AdvancesTell DEF Running
    <3>2. UNCHANGED clients
      BY <1>5, <3>1 DEF Serve
    <3> QED BY <1>3, <3>1, <3>2
  <2>2. CASE EmitCompleted(r)
    <3>1. Ends(r, "completed") /\ runs[r].pc = "emitCompleted" /\ UNCHANGED bulkJobs
      BY <1>1, <2>2, EmitCompletedStep
    <3>2. clients' = Show(r[1], "told")
      BY <1>5, <3>1 DEF Serve
    <3> QED BY <1>1, <3>1, <3>2, TellingStep
  <2> QED BY <1>5, <2>1, <2>2 DEF Serve, Process, Advances
<1>6. ASSUME NEW r \in RunIds, Fail(r)
      PROVE  ClientsFit' /\ CompletionIsTold'
  <2>1. Ends(r, "failed") /\ UNCHANGED bulkJobs
    BY <1>1, <1>6, ThrowStep DEF Fail
  <2>2. CASE runs[r].pc = "emitCompleted"
    BY <1>1, <1>6, <2>1, <2>2, TellingStep DEF Fail
  <2>3. CASE runs[r].pc # "emitCompleted"
    BY <1>1, <1>6, <2>1, <2>3, OtherEndStep DEF Fail
  <2> QED BY <2>2, <2>3
<1>7. Restart => ClientsFit' /\ CompletionIsTold'
  BY DEF Restart, ClientsFit, CompletionIsTold, Joined, Client
<1>8. ASSUME NEW w \in Clients,
             (\E j \in JobIds : Subscribe(w, j)) \/ Unsubscribe(w) \/ ReadJob(w)
      PROVE  ClientsFit' /\ CompletionIsTold'
  <2>1. UNCHANGED vars
    BY <1>8 DEF Subscribe, Unsubscribe, ReadJob
  <2> QED BY <1>1, <1>8, <2>1, ClientStep
<1>9. ASSUME UNCHANGED watchVars
      PROVE  ClientsFit' /\ CompletionIsTold'
  <2>1. UNCHANGED <<bulkJobs, runs, clients>> /\ Running' = Running
    BY <1>9 DEF watchVars, vars, Running
  <2> QED BY <1>3, <2>1
<1> QED BY <1>2, <1>4, <1>5, <1>6, <1>7, <1>8, <1>9 DEF WatchNext, WatchersInv

\* What holds of bulk jobs holds with people watching them, and of those people.
THEOREM WatchersInvariant == WatchSpec => []WatchersInv
<1> QED BY WatchersInit, WatchersStep, PTL DEF WatchSpec

\* Whoever joins the room of a job and then reads the job learns of its completion, from
\* the read or from the event (lines 101-112), also while overlapping runs move the status
\* back and forth.
THEOREM WatchersAreTold == WatchSpec => []CompletionIsTold
BY WatchersInvariant, PTL DEF WatchersInv
=============================================================================
