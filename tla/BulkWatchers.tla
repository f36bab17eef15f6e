---------------------------- MODULE BulkWatchers ----------------------------
(***************************************************************************)
(* The people who wait for a bulk job: sockets that join and leave the     *)
(* rooms of BulkNotificationGateway, and GET /bulk-jobs/:id, which tells   *)
(* what became of a job whose events were missed.                          *)
(***************************************************************************)
EXTENDS BulkJobs

CONSTANT Clients          \* sockets, each watching one job at a time

VARIABLE clients

watchVars == <<vars, clients>>

\* `view`: has not read the job since joining; has read that it is not completed;
\* knows that it is; was waiting when the event was lost.
Client == [job : JobIds \cup {NULL}, view : {"none", "waiting", "told", "lost"}]

Joined(job) == [job |-> job, view |-> "none"]

WatchInit == Init /\ clients = [w \in Clients |-> Joined(NULL)]

\* handleSubscribe(), lines 33-41.  The id of a job is known once its row is there.
Subscribe(w, j) ==
  /\ clients[w].job = NULL
  /\ bulkJobs[j] # NULL
  /\ clients' = [clients EXCEPT ![w] = Joined(j)]
  /\ UNCHANGED vars

\* handleUnsubscribe(), or the connection is gone.
Unsubscribe(w) ==
  /\ clients[w].job # NULL
  /\ clients' = [clients EXCEPT ![w] = Joined(NULL)]
  /\ UNCHANGED vars

\* findOne(), bulk-jobs.service.ts:52-63.  Bound: one read of a client after it joined.
ReadJob(w) ==
  LET c == clients[w]
  IN  /\ c.job # NULL
      /\ c.view = "none"
      /\ clients' = [clients EXCEPT
           ![w].view = IF bulkJobs[c.job].status = "COMPLETED" THEN "told" ELSE "waiting"]
      /\ UNCHANGED vars

\* The sockets in the room of a job when its completion is told, or should be.
Show(j, view) ==
  [w \in Clients |->
     IF clients[w].job = j THEN [clients[w] EXCEPT !.view = view] ELSE clients[w]]

\* A step of process(); emitJobCompleted() reaches everyone in the room at the time.
Serve(r) ==
  /\ Process(r)
  /\ clients' = IF runs[r].pc = "emitCompleted" THEN Show(r[1], "told") ELSE clients

\* The update of line 101 has acted and is rejected all the same: no event.
Fail(r) ==
  /\ Throw(r)
  /\ clients' = IF runs[r].pc = "emitCompleted" THEN Show(r[1], "lost") ELSE clients

\* The connections die with the process, and a new one is in no room.
Restart == Crash /\ clients' = [w \in Clients |-> Joined(NULL)]

WatchNext ==
  \/ Elsewhere /\ UNCHANGED clients
  \/ \E r \in RunIds : Serve(r) \/ Fail(r)
  \/ Restart
  \/ \E w \in Clients :
       \/ \E j \in JobIds : Subscribe(w, j)
       \/ Unsubscribe(w)
       \/ ReadJob(w)

WatchSpec == WatchInit /\ [][WatchNext]_watchVars

-----------------------------------------------------------------------------
\* README.md:119: whoever joins the room of a job and then reads the job learns of
\* its completion, from the read or from the event, also while overlapping runs move
\* the status back and forth.  Nothing is awaited between the update (line 101) and
\* the event (105), so only an update that acts and is rejected loses the event.
CompletionIsTold ==
  \A w \in Clients :
    LET j == clients[w].job
    IN  clients[w].view = "waiting" /\ bulkJobs[j].status = "COMPLETED"
          => \E r \in Running : r[1] = j /\ runs[r].pc = "emitCompleted"
=============================================================================
