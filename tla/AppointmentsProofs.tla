------------------------- MODULE AppointmentsProofs -------------------------
(***************************************************************************)
(* Proofs about Appointments, for any number of handlers, appointments,    *)
(* services, days, durations and start texts.                              *)
(***************************************************************************)
EXTENDS Appointments, TimeSlotsProofs, FiniteSetTheorems

-----------------------------------------------------------------------------
\* The queue of confirmation mails: what every step of its worker, and every job
\* added, preserves.

\* The worker replaces one job of the queue by another.
LEMMA WorkerTypes ==
  ASSUME jobs \in Seq(Job), Worker
  PROVE  /\ jobs' \in Seq(Job)
         /\ Len(jobs') = Len(jobs)
         /\ \A k \in 1 .. Len(jobs) : jobs'[k].appointmentId = jobs[k].appointmentId
<1>1. PICK j \in DOMAIN jobs, accepted \in {0, 1} :
        Take(j) \/ Deliver(j) \/ Reject(j, accepted) \/ Finish(j) \/ Stall(j, accepted)
  BY DEF Worker
<1>2. jobs[j] \in Job
  OBVIOUS
<1>4. jobs[j].mails + 1 \in Nat /\ jobs[j].mails + accepted \in Nat /\ jobs[j].stalls + 1 \in Nat
  <2> accepted \in Nat
    OBVIOUS
  <2> QED BY <1>2 DEF Job
<1>3. PICK new \in Job : /\ jobs' = [jobs EXCEPT ![j] = new]
                         /\ new.appointmentId = jobs[j].appointmentId
  <2>1. CASE Take(j)
    <3> DEFINE new == [jobs[j] EXCEPT !.state = "active", !.sent = FALSE]
    <3>1. new \in Job /\ new.appointmentId = jobs[j].appointmentId
      BY <1>2, <1>4 DEF Job
    <3>2. jobs' = [jobs EXCEPT ![j] = new]
      BY <2>1 DEF Take
    <3> QED BY <3>1, <3>2
  <2>2. CASE Deliver(j)
    <3> DEFINE new == [jobs[j] EXCEPT !.sent = TRUE, !.mails = @ + 1]
    <3>1. new \in Job /\ new.appointmentId = jobs[j].appointmentId
      BY <1>2, <1>4 DEF Job
    <3>2. jobs' = [jobs EXCEPT ![j] = new]
      BY <2>2 DEF Deliver
    <3> QED BY <3>1, <3>2
  <2>3. CASE Reject(j, accepted)
    <3> DEFINE new == [jobs[j] EXCEPT !.state = "failed", !.mails = @ + accepted]
    <3>1. new \in Job /\ new.appointmentId = jobs[j].appointmentId
      BY <1>2, <1>4 DEF Job
    <3>2. jobs' = [jobs EXCEPT ![j] = new]
      BY <2>3 DEF Reject
    <3> QED BY <3>1, <3>2
  <2>4. CASE Finish(j)
    <3> DEFINE new == [jobs[j] EXCEPT !.state = "completed"]
    <3>1. new \in Job /\ new.appointmentId = jobs[j].appointmentId
      BY <1>2, <1>4 DEF Job
    <3>2. jobs' = [jobs EXCEPT ![j] = new]
      BY <2>4 DEF Finish
    <3> QED BY <3>1, <3>2
  <2>5. CASE Stall(j, accepted)
    <3> DEFINE new ==
          [jobs[j] EXCEPT !.state = IF jobs[j].stalls < MaxStalledCount THEN "waiting" ELSE "failed",
                          !.stalls = @ + 1, !.sent = FALSE, !.mails = @ + accepted]
    <3>1. new \in Job /\ new.appointmentId = jobs[j].appointmentId
      BY <1>2, <1>4 DEF Job
    <3>2. jobs' = [jobs EXCEPT ![j] = new]
      BY <2>5 DEF Stall
    <3> QED BY <3>1, <3>2
  <2> QED BY <1>1, <2>1, <2>2, <2>3, <2>4, <2>5
<1> QED BY <1>3

-----------------------------------------------------------------------------
\* A job that may still send has sent less than it has been run; a job that is past
\* its send has sent something.
MailsCounted ==
  \A j \in DOMAIN jobs :
    /\ jobs[j].mails <= jobs[j].stalls + 1
    /\ jobs[j].state = "waiting" => jobs[j].mails <= jobs[j].stalls
    /\ jobs[j].state = "active" /\ ~jobs[j].sent => jobs[j].mails <= jobs[j].stalls
    /\ jobs[j].state = "active" /\ jobs[j].sent => jobs[j].mails > 0
    /\ jobs[j].state = "completed" => jobs[j].mails > 0

\* Behind a job that waits or runs, every job waits.
LaterJobsWait ==
  \A j, k \in DOMAIN jobs :
    j < k /\ jobs[j].state \in {"waiting", "active"} => jobs[k].state = "waiting"

QueueInv == MailsCounted /\ LaterJobsWait

\* A new job waits behind all others and has sent nothing.
LEMMA AddKeepsQueue ==
  ASSUME jobs \in Seq(Job), QueueInv, NEW id \in AppointmentIds, AddJob(id)
  PROVE  QueueInv'
<1>1. /\ DOMAIN jobs = 1 .. Len(jobs)
      /\ DOMAIN jobs' = 1 .. (Len(jobs) + 1)
      /\ \A k \in DOMAIN jobs : jobs'[k] = jobs[k]
      /\ jobs'[Len(jobs) + 1] = NewJob(id)
  BY DEF AddJob
<1>2. Len(jobs) \in Nat
  OBVIOUS
<1>3. \A k \in DOMAIN jobs' : k \in DOMAIN jobs \/ k = Len(jobs) + 1
  BY <1>1, <1>2
<1>4. MailsCounted'
  BY <1>1, <1>3 DEF QueueInv, MailsCounted, NewJob
<1>5. LaterJobsWait'
  <2> SUFFICES ASSUME NEW j \in DOMAIN jobs', NEW k \in DOMAIN jobs', j < k,
                      jobs'[j].state \in {"waiting", "active"}
               PROVE  jobs'[k].state = "waiting"
    BY DEF LaterJobsWait
  <2>1. j \in DOMAIN jobs
    BY <1>1, <1>2
  <2>2. CASE k \in DOMAIN jobs
    BY <1>1, <2>1, <2>2 DEF QueueInv, LaterJobsWait
  <2>3. CASE k = Len(jobs) + 1
    BY <1>1, <2>3 DEF NewJob
  <2> QED BY <1>3, <2>2, <2>3
<1> QED BY <1>4, <1>5 DEF QueueInv

\* Every step of the worker keeps the counts and the order.
LEMMA WorkerKeepsQueue ==
  ASSUME jobs \in Seq(Job), QueueInv, Worker
  PROVE  QueueInv'
<1>1. PICK j \in DOMAIN jobs, accepted \in {0, 1} :
        Take(j) \/ Deliver(j) \/ Reject(j, accepted) \/ Finish(j) \/ Stall(j, accepted)
  BY DEF Worker
<1>2. /\ jobs[j] \in Job
      /\ jobs[j].mails \in Nat /\ jobs[j].stalls \in Nat
      /\ accepted \in Nat /\ accepted <= 1
  <2>1. jobs[j] \in Job
    OBVIOUS
  <2> QED BY <2>1 DEF Job
<1>3. /\ DOMAIN jobs' = DOMAIN jobs
      /\ \A k \in DOMAIN jobs \ {j} : jobs'[k] = jobs[k]
  BY <1>1 DEF Take, Deliver, Reject, Finish, Stall
<1>4. /\ jobs'[j].mails <= jobs'[j].stalls + 1
      /\ jobs'[j].state = "waiting" => jobs'[j].mails <= jobs'[j].stalls
      /\ jobs'[j].state = "active" /\ ~jobs'[j].sent => jobs'[j].mails <= jobs'[j].stalls
      /\ jobs'[j].state = "active" /\ jobs'[j].sent => jobs'[j].mails > 0
      /\ jobs'[j].state = "completed" => jobs'[j].mails > 0
  <2> USE <1>2 DEF QueueInv, MailsCounted, Job
  <2>1. CASE Take(j)
    <3>1. /\ jobs'[j].state = "active" /\ jobs'[j].sent = FALSE
          /\ jobs'[j].mails = jobs[j].mails /\ jobs'[j].stalls = jobs[j].stalls
      BY <2>1 DEF Take
    <3> QED BY <2>1, <3>1 DEF Take
  <2>2. CASE Deliver(j)
    <3>1. /\ jobs'[j].state = "active" /\ jobs'[j].sent = TRUE
          /\ jobs'[j].mails = jobs[j].mails + 1 /\ jobs'[j].stalls = jobs[j].stalls
      BY <2>2 DEF Deliver
    <3>2. jobs[j].mails <= jobs[j].stalls
      BY <2>2 DEF Deliver
    <3> QED BY <3>1, <3>2
  <2>3. CASE Reject(j, accepted)
    <3>1. /\ jobs'[j].state = "failed"
          /\ jobs'[j].mails = jobs[j].mails + accepted /\ jobs'[j].stalls = jobs[j].stalls
      BY <2>3 DEF Reject
    <3>2. jobs[j].mails <= jobs[j].stalls
      BY <2>3 DEF Reject
    <3> QED BY <3>1, <3>2
  <2>4. CASE Finish(j)
    BY <2>4 DEF Finish
  <2>5. CASE Stall(j, accepted)
    <3>1. /\ jobs'[j].state \in {"waiting", "failed"}
          /\ jobs'[j].mails = jobs[j].mails + accepted
          /\ jobs'[j].stalls = jobs[j].stalls + 1
      BY <2>5 DEF Stall
    <3>2. jobs[j].mails + accepted <= jobs[j].stalls + 1
      <4>1. CASE jobs[j].sent
        BY <2>5, <4>1 DEF Stall
      <4>2. CASE ~jobs[j].sent
        <5>1. jobs[j].mails <= jobs[j].stalls
          BY <2>5, <4>2 DEF Stall
        <5> QED BY <5>1
      <4> QED BY <4>1, <4>2
    <3> QED BY <3>1, <3>2
  <2> QED BY <1>1, <2>1, <2>2, <2>3, <2>4, <2>5
<1>5. MailsCounted'
  BY <1>3, <1>4 DEF QueueInv, MailsCounted
\* Only the oldest unfinished job changes its state.
<1>6. /\ \A k \in DOMAIN jobs : k < j => jobs[k].state \notin {"waiting", "active"}
      /\ \A k \in DOMAIN jobs : j < k => jobs[k].state = "waiting"
  <2>1. jobs[j].state \in {"waiting", "active"}
    BY <1>1 DEF Take, Deliver, Reject, Finish, Stall
  <2>2. \A k \in DOMAIN jobs : j < k => jobs[k].state = "waiting"
    BY <2>1 DEF QueueInv, LaterJobsWait
  <2>3. CASE jobs[j].state = "active"
    BY <2>2, <2>3 DEF QueueInv, LaterJobsWait
  <2>4. CASE jobs[j].state = "waiting"
    <3>1. Take(j)
      BY <1>1, <2>4 DEF Deliver, Reject, Finish, Stall
    <3> QED BY <2>2, <3>1 DEF Take
  <2> QED BY <2>1, <2>2, <2>3, <2>4
<1>7. LaterJobsWait'
  <2> SUFFICES ASSUME NEW i \in DOMAIN jobs, NEW k \in DOMAIN jobs, i < k,
                      jobs'[i].state \in {"waiting", "active"}
               PROVE  jobs'[k].state = "waiting"
    BY <1>3 DEF LaterJobsWait
  <2>1. i \in Int /\ j \in Int /\ k \in Int
    OBVIOUS
  <2>2. CASE i = j
    BY <1>3, <1>6, <2>1, <2>2
  <2>3. CASE i # j
    <3>1. jobs[i].state \in {"waiting", "active"} /\ ~(i < j)
      BY <1>3, <1>6, <2>3
    <3>2. j < i /\ k # j
      BY <2>1, <2>3, <3>1
    <3> QED BY <1>3, <1>6, <2>1, <3>2
  <2> QED BY <2>2, <2>3
<1> QED BY <1>5, <1>7 DEF QueueInv

-----------------------------------------------------------------------------
\* The records of the handlers and of the table.

\* A request record's shape follows from its program counter.
LEMMA ShapeOfRequest ==
  ASSUME NEW r \in Request
  PROVE  /\ r.pc \in {"checkSlot", "insert"} => r \in Creating
         /\ r.pc \in {"confirmUpdate", "enqueue", "cancelUpdate"} => r \in Changing
         /\ r.pc \in {"findService", "findBooked", "emit"} => r \in Broadcasting
  BY DEF Request, Idle, Creating, Changing, Broadcasting

\* What the request types say of the records the handlers write.
LEMMA RequestRecords ==
  ASSUME TypeOK, NEW p \in Requests
  PROVE  /\ IdleRequest \in Request
         /\ requests[p] \in Request
         /\ \A s \in ServiceIds, date \in DateStrings : AwaitBroadcast(s, date) \in Request
  BY DEF TypeOK, Request, Idle, Broadcasting, IdleRequest, AwaitBroadcast

\* The canonical text of a day is itself a text a client may send.
LEMMA DaysAreDateStrings ==
  /\ Days \subseteq DateStrings
  /\ \A text \in DateStrings : DayOf[text] \in Days
  BY AppointmentsAssumption DEF Days

\* A row of the table is an appointment, and NULL is none.
LEMMA RowsAreAppointments ==
  ASSUME TypeOK
  PROVE  /\ \A a \in Rows : a \in AppointmentIds /\ appointments[a] \in Appointment
         /\ \A a \in AppointmentIds : a \notin Rows => appointments[a] = NULL
  BY DEF TypeOK, Rows

\* Marking the readers a new row has overtaken keeps the requests well formed.
LEMMA OvertakeType ==
  ASSUME NEW a \in AppointmentIds, NEW reqs \in [Requests -> Request]
  PROVE  /\ Overtake(a, reqs) \in [Requests -> Request]
         /\ \A q \in Requests : Overtake(a, reqs)[q].pc = reqs[q].pc
<1> SUFFICES ASSUME NEW q \in Requests
             PROVE  /\ Overtake(a, reqs)[q] \in Request
                    /\ Overtake(a, reqs)[q].pc = reqs[q].pc
  BY DEF Overtake
<1>1. CASE reqs[q].pc = "insert"
  BY <1>1, ShapeOfRequest DEF Overtake, Creating, Request
<1>2. CASE reqs[q].pc = "emit"
  BY <1>2, ShapeOfRequest DEF Overtake, Broadcasting, Request
<1>3. CASE reqs[q].pc \notin {"insert", "emit"}
  BY <1>3 DEF Overtake
<1> QED BY <1>1, <1>2, <1>3

-----------------------------------------------------------------------------
\* Every step keeps the types: one lemma for each part of the system.

\* The operations of ServicesService keep the types.
LEMMA CatalogueTypes ==
  ASSUME TypeOK, Catalogue
  PROVE  TypeOK'
<1> USE DEF TypeOK, history, Rows
<1>1. PICK s \in ServiceIds :
        \/ \E duration \in Durations, isActive \in BOOLEAN :
             \/ CreateService(s, duration, isActive)
             \/ UpdateService(s, duration, isActive)
        \/ RemoveService(s)
  BY DEF Catalogue
<1>2. services' \in [ServiceIds -> Service]
  <2>1. ASSUME NEW duration \in Durations, NEW isActive \in BOOLEAN,
               CreateService(s, duration, isActive)
        PROVE  services' \in [ServiceIds -> Service]
    BY <2>1 DEF CreateService, Service
  <2>2. ASSUME NEW duration \in Durations, NEW isActive \in BOOLEAN,
               UpdateService(s, duration, isActive)
        PROVE  services' \in [ServiceIds -> Service]
    <3>1. services[s] \in [state : {"live"}, isActive : BOOLEAN, duration : Durations]
      BY <2>2 DEF UpdateService, Service
    <3>2. [services[s] EXCEPT !.isActive = isActive, !.duration = duration] \in Service
      BY <3>1 DEF Service
    <3> QED BY <2>2, <3>2 DEF UpdateService
  <2>3. CASE RemoveService(s)
    BY <2>3 DEF RemoveService, Service
  <2> QED BY <1>1, <2>1, <2>2, <2>3
<1>3. UNCHANGED <<appointments, requests, jobs, board, history>>
  BY <1>1 DEF CreateService, UpdateService, RemoveService
<1> QED BY <1>2, <1>3

\* The first step of each handler keeps the types.
LEMMA StartRequestTypes ==
  ASSUME TypeOK, NEW p \in Requests, StartRequest(p)
  PROVE  TypeOK'
<1> USE DEF history
<1>1. PICK user \in Users :
        \/ \E s \in ServiceIds, date \in DateStrings, startTime \in StartTimes :
             StartCreate(p, user, s, date, startTime)
        \/ \E a \in AppointmentIds : StartConfirm(p, user, a)
        \/ \E a \in AppointmentIds : StartCancel(p, user, a)
  BY DEF StartRequest, StartAs
<1>2. \E r \in Request : requests' = [requests EXCEPT ![p] = r]
  <2>1. ASSUME NEW s \in ServiceIds, NEW date \in DateStrings, NEW startTime \in StartTimes,
               StartCreate(p, user, s, date, startTime)
        PROVE  \E r \in Request : requests' = [requests EXCEPT ![p] = r]
    <3> DEFINE r == [pc |-> "checkSlot", userId |-> user.id, serviceId |-> s, date |-> date,
                     startTime |-> startTime, duration |-> services[s].duration, missed |-> {}]
    <3>1. services[s].duration \in Durations
      BY <2>1 DEF StartCreate, TypeOK, Service
    <3>2. r \in Request
      BY <3>1 DEF Request, Creating, UserIds
    <3>3. requests' = [requests EXCEPT ![p] = r]
      BY <2>1 DEF StartCreate, Goto
    <3> HIDE DEF r
    <3> QED BY <3>2, <3>3
  <2>2. ASSUME NEW a \in AppointmentIds, StartConfirm(p, user, a)
        PROVE  \E r \in Request : requests' = [requests EXCEPT ![p] = r]
    BY <2>2 DEF StartConfirm, Goto, Request, Changing
  <2>3. ASSUME NEW a \in AppointmentIds, StartCancel(p, user, a)
        PROVE  \E r \in Request : requests' = [requests EXCEPT ![p] = r]
    BY <2>3 DEF StartCancel, Goto, Request, Changing
  <2> QED BY <1>1, <2>1, <2>2, <2>3
<1>3. UNCHANGED <<services, appointments, jobs, board, history>>
  BY <1>1 DEF StartCreate, StartConfirm, StartCancel
<1> QED BY <1>2, <1>3 DEF TypeOK

\* The row a create inserts is an appointment.
LEMMA NewRowType ==
  ASSUME TypeOK, NEW p \in Requests, requests[p].pc = "insert"
  PROVE  NewRow(requests[p]) \in Appointment
<1> DEFINE r == requests[p]
<1>1. r \in Creating
  BY RequestRecords, ShapeOfRequest
<1>2. r.duration \in Nat /\ r.startTime \in Time
  BY <1>1, AppointmentsAssumption DEF Creating
<1>3. CalcEndTime(r.startTime, r.duration) \in Time
  BY <1>2, EndOfVisit
<1>4. DayOf[r.date] \in Days
  BY <1>1, DaysAreDateStrings DEF Creating
<1> QED BY <1>1, <1>2, <1>3, <1>4 DEF NewRow, Appointment, Creating

\* The steps of create() keep the types.
LEMMA CreateTypes ==
  ASSUME TypeOK, NEW p \in Requests,
         \/ CreateCheckSlot(p)
         \/ \E a \in AppointmentIds : CreateInsert(p, a)
         \/ CreateRefused(p)
  PROVE  TypeOK'
<1> USE DEF history
<1> DEFINE r == requests[p]
<1>1. CASE CreateCheckSlot(p)
  <2>1. r \in Creating /\ [r EXCEPT !.pc = "insert"] \in Request /\ IdleRequest \in Request
    BY <1>1, RequestRecords, ShapeOfRequest DEF CreateCheckSlot, Creating, Request
  <2>2. requests' \in [Requests -> Request]
    BY <1>1, <2>1 DEF CreateCheckSlot, Goto, TypeOK
  <2> QED BY <1>1, <2>2 DEF CreateCheckSlot, TypeOK
<1>2. ASSUME NEW a \in AppointmentIds, CreateInsert(p, a)
      PROVE  TypeOK'
  <2>1. r \in Creating
    BY <1>2, RequestRecords, ShapeOfRequest DEF CreateInsert
  <2>2. NewRow(r) \in Appointment
    BY <1>2, NewRowType DEF CreateInsert
  <2>3. [requests EXCEPT ![p] = AwaitBroadcast(r.serviceId, r.date)] \in [Requests -> Request]
    BY <2>1, RequestRecords DEF Creating, TypeOK
  <2>4. requests' \in [Requests -> Request]
    BY <1>2, <2>3, OvertakeType DEF CreateInsert
  <2>5. unseen' \in [AppointmentIds -> SUBSET AppointmentIds]
    BY <1>2, <2>1 DEF CreateInsert, TypeOK, Creating
  <2> QED BY <1>2, <2>2, <2>4, <2>5 DEF CreateInsert, TypeOK
<1>3. CASE CreateRefused(p)
  BY <1>3, RequestRecords DEF CreateRefused, Goto, TypeOK
<1> QED BY <1>1, <1>2, <1>3

\* A status change of one row.
LEMMA StatusType ==
  ASSUME NEW row \in Appointment
  PROVE  /\ [row EXCEPT !.status = "CONFIRMED", !.confirmedAt = TRUE] \in Appointment
         /\ [row EXCEPT !.status = "CANCELLED"] \in Appointment
  BY DEF Appointment

\* The steps of confirm() and cancel() keep the types.
LEMMA ChangeTypes ==
  ASSUME TypeOK, RowsOfRequests, NEW p \in Requests,
         ConfirmUpdate(p) \/ ConfirmEnqueue(p) \/ CancelUpdate(p)
  PROVE  TypeOK'
<1> USE DEF history
<1> DEFINE a == requests[p].id
<1>1. /\ requests[p] \in Changing
      /\ a \in AppointmentIds
      /\ appointments[a] \in Appointment
  <2>1. requests[p].pc \in {"confirmUpdate", "enqueue", "cancelUpdate"}
    BY DEF ConfirmUpdate, ConfirmEnqueue, CancelUpdate
  <2>2. requests[p] \in Changing
    BY <2>1, RequestRecords, ShapeOfRequest
  <2>3. a \in Rows
    BY <2>1 DEF RowsOfRequests
  <2> QED BY <2>2, <2>3, RowsAreAppointments
<1>2. AwaitBroadcast(appointments[a].serviceId, appointments[a].date) \in Request
  BY <1>1, RequestRecords, DaysAreDateStrings DEF Appointment
<1>3. CASE ConfirmUpdate(p)
  <2> DEFINE next == [requests EXCEPT ![p].pc = "enqueue"]
  <2>1. next \in [Requests -> Request]
    <3>1. [requests[p] EXCEPT !.pc = "enqueue"] \in Request
      BY <1>1 DEF Changing, Request
    <3> QED BY <3>1 DEF TypeOK
  <2>2. Overtake(a, next) \in [Requests -> Request]
    <3> HIDE DEF next
    <3> QED BY <1>1, <2>1, OvertakeType
  <2>3. requests' \in [Requests -> Request]
    BY <1>3, <2>1, <2>2 DEF ConfirmUpdate
  <2>4. appointments' \in [AppointmentIds -> Appointment \cup {NULL}]
    BY <1>1, <1>3, StatusType DEF ConfirmUpdate, TypeOK
  <2>5. revived' \subseteq AppointmentIds
    BY <1>1, <1>3 DEF ConfirmUpdate, TypeOK
  <2> QED BY <1>3, <2>3, <2>4, <2>5 DEF ConfirmUpdate, TypeOK
<1>4. CASE ConfirmEnqueue(p)
  <2>1. NewJob(a) \in Job
    BY <1>1 DEF NewJob, Job
  <2>2. jobs' \in Seq(Job)
    BY <1>4, <2>1 DEF ConfirmEnqueue, AddJob, TypeOK
  <2> QED BY <1>2, <1>4, <2>2 DEF ConfirmEnqueue, Goto, TypeOK
<1>5. CASE CancelUpdate(p)
  <2>1. appointments' \in [AppointmentIds -> Appointment \cup {NULL}]
    BY <1>1, <1>5, StatusType DEF CancelUpdate, TypeOK
  <2> QED BY <1>2, <1>5, <2>1 DEF CancelUpdate, Goto, TypeOK
<1> QED BY <1>3, <1>4, <1>5

\* The steps of broadcastSlots() keep the types.
LEMMA BroadcastTypes ==
  ASSUME TypeOK, NEW p \in Requests,
         BroadcastFindService(p) \/ BroadcastFindBooked(p) \/ BroadcastEmit(p)
  PROVE  TypeOK'
<1> USE DEF history
<1> DEFINE r == requests[p]
<1>1. r \in Broadcasting
  <2>1. r.pc \in {"findService", "findBooked", "emit"}
    BY DEF BroadcastFindService, BroadcastFindBooked, BroadcastEmit
  <2> QED BY <2>1, RequestRecords, ShapeOfRequest
<1>2. /\ r.serviceId \in ServiceIds /\ r.date \in DateStrings /\ DayOf[r.date] \in Days
      /\ IdleRequest \in Request
  BY <1>1, RequestRecords, DaysAreDateStrings DEF Broadcasting
<1>3. CASE BroadcastFindService(p)
  <2> DEFINE next == [pc |-> "findBooked", serviceId |-> r.serviceId, date |-> r.date,
                      duration |-> services[r.serviceId].duration]
  <2>1. services[r.serviceId].state = "live" => next \in Request
    BY <1>2 DEF TypeOK, Service, Request, Broadcasting
  <2> HIDE DEF next
  <2>2. requests' = [requests EXCEPT ![p] = IF services[r.serviceId].state = "live"
                                            THEN next ELSE IdleRequest]
    BY <1>3 DEF BroadcastFindService, Goto, next
  <2> QED BY <1>2, <1>3, <2>1, <2>2 DEF BroadcastFindService, TypeOK
<1>4. CASE BroadcastFindBooked(p)
  <2>1. r.duration \in Durations
    BY <1>1, <1>4 DEF BroadcastFindBooked, Broadcasting
  <2>2. GetAvailableSlots(r.duration, BookedRanges(r.serviceId, r.date)) \in SUBSET Time
    BY <2>1, SlotsAreTimes, AppointmentsAssumption
  <2>3. EmitSlots(r, BookedRanges(r.serviceId, r.date)) \in Request
    BY <1>2, <2>1, <2>2 DEF EmitSlots, Request, Broadcasting
  <2> QED BY <1>4, <2>3 DEF BroadcastFindBooked, Goto, TypeOK
<1>5. CASE BroadcastEmit(p)
  <2>1. [duration |-> r.duration, slots |-> r.slots] \in Push
    BY <1>1, <1>5 DEF BroadcastEmit, Broadcasting, Push
  <2>2. board' \in [Rooms -> Push \cup {NULL}]
    BY <1>2, <1>5, <2>1 DEF BroadcastEmit, TypeOK, Rooms
  <2>3. dirty' \subseteq Lanes
    BY <1>2, <1>5 DEF BroadcastEmit, TypeOK, Lanes
  <2>4. requests' \in [Requests -> Request]
    BY <1>2, <1>5 DEF BroadcastEmit, Goto, TypeOK
  <2> QED BY <1>5, <2>2, <2>3, <2>4 DEF BroadcastEmit, TypeOK
<1> QED BY <1>3, <1>4, <1>5

\* A handler that stops keeps the types.
LEMMA AbortTypes ==
  ASSUME TypeOK, RowsOfRequests, NEW p \in Requests, Abort(p)
  PROVE  TypeOK'
<1>1. requests' \in [Requests -> Request]
  BY RequestRecords DEF Abort, Goto, TypeOK
<1>2. OwesPush(p) => LaneOf(p) \in Lanes
  <2>1. CASE requests[p].pc = "enqueue"
    <3>1. appointments[requests[p].id] \in Appointment
      BY <2>1, RowsAreAppointments DEF RowsOfRequests
    <3> QED BY <2>1, <3>1 DEF LaneOf, Lane, Lanes, Appointment
  <2>2. CASE requests[p].pc \in {"findService", "findBooked", "emit"}
    <3>1. requests[p] \in Broadcasting
      BY <2>2, RequestRecords, ShapeOfRequest
    <3> QED BY <2>2, <3>1, DaysAreDateStrings DEF LaneOf, Lanes, Broadcasting
  <2> QED BY <2>1, <2>2 DEF OwesPush
<1>3. requests[p].pc = "enqueue" => requests[p].id \in AppointmentIds
  BY RequestRecords, ShapeOfRequest DEF Changing
<1> QED BY <1>1, <1>2, <1>3 DEF Abort, TypeOK

-----------------------------------------------------------------------------
\* How the table changes.

\* A status update of row a: only the status and confirmedAt of one row change, and a
\* row that was not active becomes active only by being revived.
StatusUpdate(a) ==
  /\ a \in Rows
  /\ Rows' = Rows
  /\ unseen' = unseen
  /\ revived \subseteq revived'
  /\ \A b \in Rows : /\ Lane(b)' = Lane(b) /\ Range_(b)' = Range_(b)
                     /\ appointments'[b].startTime = appointments[b].startTime
                     /\ appointments'[b].endTime = appointments[b].endTime
                     /\ appointments'[b].duration = appointments[b].duration
                     /\ appointments'[b].serviceId = appointments[b].serviceId
                     /\ appointments'[b].userId = appointments[b].userId
  /\ \A b \in Rows : Active(b)' => Active(b) \/ (b = a /\ b \in revived')

\* The update of confirm() changes a row's status and nothing else of the table.
LEMMA ConfirmIsStatusUpdate ==
  ASSUME TypeOK, RowsOfRequests, NEW p \in Requests, ConfirmUpdate(p)
  PROVE  StatusUpdate(requests[p].id)
<1> DEFINE a == requests[p].id
<1>1. a \in Rows /\ a \in AppointmentIds /\ appointments[a] \in Appointment
  BY RowsAreAppointments DEF RowsOfRequests, ConfirmUpdate
<1>2. /\ appointments' = [appointments EXCEPT
             ![a] = [appointments[a] EXCEPT !.status = "CONFIRMED", !.confirmedAt = TRUE]]
      /\ [appointments[a] EXCEPT !.status = "CONFIRMED", !.confirmedAt = TRUE] \in Appointment
  BY <1>1, StatusType DEF ConfirmUpdate
<1>3. Rows' = Rows
  BY <1>1, <1>2, AppointmentsAssumption DEF Rows, TypeOK
<1>4. ASSUME NEW b \in Rows
      PROVE  /\ Lane(b)' = Lane(b) /\ Range_(b)' = Range_(b)
             /\ appointments'[b].startTime = appointments[b].startTime
             /\ appointments'[b].endTime = appointments[b].endTime
             /\ appointments'[b].duration = appointments[b].duration
             /\ appointments'[b].serviceId = appointments[b].serviceId
             /\ appointments'[b].userId = appointments[b].userId
  BY <1>1, <1>2 DEF Lane, Range_, Rows, TypeOK, Appointment
<1>5. unseen' = unseen /\ revived \subseteq revived'
  BY DEF ConfirmUpdate
<1>6. ASSUME NEW b \in Rows, Active(b)'
      PROVE  Active(b) \/ (b = a /\ b \in revived')
  <2>1. CASE b = a
    BY <1>1, <2>1 DEF ConfirmUpdate, Active
  <2>2. CASE b # a
    BY <1>2, <1>6, <2>2 DEF Active, Rows, TypeOK
  <2> QED BY <2>1, <2>2
<1> QED BY <1>1, <1>3, <1>4, <1>5, <1>6 DEF StatusUpdate

\* So does the update of cancel().
LEMMA CancelIsStatusUpdate ==
  ASSUME TypeOK, RowsOfRequests, NEW p \in Requests, CancelUpdate(p)
  PROVE  StatusUpdate(requests[p].id)
<1> DEFINE a == requests[p].id
<1>1. a \in Rows /\ a \in AppointmentIds /\ appointments[a] \in Appointment
  BY RowsAreAppointments DEF RowsOfRequests, CancelUpdate
<1>2. /\ appointments' = [appointments EXCEPT
             ![a] = [appointments[a] EXCEPT !.status = "CANCELLED"]]
      /\ [appointments[a] EXCEPT !.status = "CANCELLED"] \in Appointment
  BY <1>1, StatusType DEF CancelUpdate
<1>3. Rows' = Rows
  BY <1>1, <1>2, AppointmentsAssumption DEF Rows, TypeOK
<1>4. ASSUME NEW b \in Rows
      PROVE  /\ Lane(b)' = Lane(b) /\ Range_(b)' = Range_(b)
             /\ appointments'[b].startTime = appointments[b].startTime
             /\ appointments'[b].endTime = appointments[b].endTime
             /\ appointments'[b].duration = appointments[b].duration
             /\ appointments'[b].serviceId = appointments[b].serviceId
             /\ appointments'[b].userId = appointments[b].userId
  BY <1>1, <1>2 DEF Lane, Range_, Rows, TypeOK, Appointment
<1>5. unseen' = unseen /\ revived' = revived
  BY DEF CancelUpdate, history
<1>6. ASSUME NEW b \in Rows, Active(b)'
      PROVE  Active(b)
  <2>1. b # a
    BY <1>1, <1>2, <1>6 DEF Active, TypeOK, Appointment
  <2> QED BY <1>2, <1>6, <2>1 DEF Active, Rows, TypeOK
<1> QED BY <1>1, <1>3, <1>4, <1>5, <1>6 DEF StatusUpdate

\* An insert adds one row and changes no other.
RowInserted(r, a) ==
  /\ a \in AppointmentIds \ Rows
  /\ Rows' = Rows \cup {a}
  /\ appointments'[a] = NewRow(r)
  /\ unseen'[a] = r.missed
  /\ revived' = revived
  /\ \A b \in Rows : appointments'[b] = appointments[b] /\ unseen'[b] = unseen[b]

\* The insert of create() adds the row of its request and changes no other.
LEMMA InsertAddsRow ==
  ASSUME TypeOK, NEW p \in Requests, NEW a \in AppointmentIds, CreateInsert(p, a)
  PROVE  RowInserted(requests[p], a)
<1>1. appointments' = [appointments EXCEPT ![a] = NewRow(requests[p])]
  BY DEF CreateInsert
<1>2. NewRow(requests[p]) # NULL
  BY AppointmentsAssumption, NewRowType DEF CreateInsert
<1> QED BY <1>1, <1>2 DEF RowInserted, CreateInsert, Rows, TypeOK

-----------------------------------------------------------------------------

\* Who writes the table: an insert, a confirm, a cancel.
LEMMA TableSteps ==
  ASSUME [Next]_vars
  PROVE  \/ \E p \in Requests : \/ \E a \in AppointmentIds : CreateInsert(p, a)
                               \/ ConfirmUpdate(p) \/ CancelUpdate(p)
         \/ UNCHANGED appointments
BY DEF Next, vars, history, Mail, Catalogue, CreateService, UpdateService, RemoveService,
       StartRequest, StartAs, StartCreate, StartConfirm, StartCancel, Handler,
       Abort, CreateCheckSlot, CreateRefused, ConfirmEnqueue,
       BroadcastFindService, BroadcastFindBooked, BroadcastEmit

\* How the handlers change when one of them makes a row active: it goes to its
\* next record, the others at most note the row.
LEMMA OvertakeOthers ==
  ASSUME TypeOK, NEW p \in Requests, NEW a \in AppointmentIds, NEW r \in Request,
         r.pc \notin {"insert", "emit"},
         requests' = Overtake(a, [requests EXCEPT ![p] = r])
  PROVE  /\ requests'[p] = r
         /\ \A q \in Requests \ {p} :
              requests'[q] = IF requests[q].pc \in {"insert", "emit"}
                             THEN [requests[q] EXCEPT !.missed = @ \cup {a}]
                             ELSE requests[q]
  BY DEF Overtake, TypeOK

\* Initially the types hold and no handler works on a row.
LEMMA BaseInit ==
  Init => TypeOK /\ RowsOfRequests
<1> SUFFICES ASSUME Init PROVE TypeOK /\ RowsOfRequests
  OBVIOUS
<1>1. IdleRequest \in Request
  BY DEF IdleRequest, Request, Idle
<1>2. RowsOfRequests
  BY DEF Init, RowsOfRequests, IdleRequest
<1>3. TypeOK
  BY <1>1 DEF Init, TypeOK, Service
<1> QED BY <1>2, <1>3

\* A handler that is not taking the step stays on its row.
LEMMA RowsOfRequestsStep ==
  ASSUME TypeOK, RowsOfRequests, NEW p \in Requests,
         StartRequest(p) \/ Handler(p) \/ Abort(p)
  PROVE  RowsOfRequests'
<1> USE DEF history
<1>2. CASE StartRequest(p)
  <2>1. ASSUME NEW user, NEW s, NEW date, NEW startTime,
               StartCreate(p, user, s, date, startTime)
        PROVE  RowsOfRequests'
    BY <2>1 DEF StartCreate, RowsOfRequests, Rows, Goto, TypeOK
  <2>2. ASSUME NEW user, NEW a, StartConfirm(p, user, a)
        PROVE  RowsOfRequests'
    BY <2>2 DEF StartConfirm, RowsOfRequests, Rows, Goto, TypeOK
  <2>3. ASSUME NEW user, NEW a, StartCancel(p, user, a)
        PROVE  RowsOfRequests'
    BY <2>3 DEF StartCancel, RowsOfRequests, Rows, Goto, TypeOK
  <2> QED BY <1>2, <2>1, <2>2, <2>3 DEF StartRequest, StartAs
<1>3. CASE CreateCheckSlot(p) \/ CreateRefused(p) \/ Abort(p)
  <2>1. CreateCheckSlot(p) => [requests[p] EXCEPT !.pc = "insert"].pc = "insert"
    BY RequestRecords, ShapeOfRequest DEF CreateCheckSlot, Creating
  <2>2. PICK r : Goto(p, r) /\ r.pc \in {"insert", "idle"} /\ UNCHANGED appointments
    BY <1>3, <2>1 DEF CreateCheckSlot, CreateRefused, Abort, IdleRequest
  <2> QED BY <2>2 DEF RowsOfRequests, Rows, Goto, TypeOK
<1>4. ASSUME NEW a \in AppointmentIds, CreateInsert(p, a)
      PROVE  RowsOfRequests'
  <2>1. Rows \subseteq Rows'
    BY <1>4, InsertAddsRow DEF RowInserted
  <2> DEFINE r == AwaitBroadcast(requests[p].serviceId, requests[p].date)
  <2>2. r \in Request
    BY <1>4, RequestRecords, ShapeOfRequest DEF CreateInsert, Creating
  <2>3. /\ requests'[p] = r
        /\ \A q \in Requests \ {p} :
             requests'[q] = IF requests[q].pc \in {"insert", "emit"}
                            THEN [requests[q] EXCEPT !.missed = @ \cup {a}]
                            ELSE requests[q]
    BY <1>4, <2>2, OvertakeOthers DEF CreateInsert, AwaitBroadcast
  <2>4. ASSUME NEW q \in Requests,
               requests'[q].pc \in {"confirmUpdate", "enqueue", "cancelUpdate"}
        PROVE  requests'[q].id \in Rows
    <3>1. q # p
      BY <2>3, <2>4 DEF AwaitBroadcast
    <3>2. requests'[q].pc = requests[q].pc
      <4>1. [requests EXCEPT ![p] = r] \in [Requests -> Request]
        BY <2>2 DEF TypeOK
      <4> HIDE DEF r
      <4>2. requests'[q].pc = [requests EXCEPT ![p] = r][q].pc
        BY <1>4, <4>1, OvertakeType DEF CreateInsert, r
      <4> QED BY <3>1, <4>2
    <3> QED BY <2>3, <2>4, <3>1, <3>2 DEF RowsOfRequests
  <2> QED BY <2>1, <2>4 DEF RowsOfRequests
<1>5. CASE ConfirmUpdate(p)
  <2> DEFINE next == [requests EXCEPT ![p].pc = "enqueue"]
  <2>1. Rows' = Rows /\ requests[p].id \in Rows /\ requests[p] \in Changing
    BY <1>5, ConfirmIsStatusUpdate, RequestRecords, ShapeOfRequest
       DEF StatusUpdate, ConfirmUpdate
  <2>2. \A q \in Requests : requests'[q].pc \in {"confirmUpdate", "enqueue", "cancelUpdate"}
          => requests'[q].id = requests[q].id /\ (q = p \/ requests[q].pc = requests'[q].pc)
    BY <1>5 DEF ConfirmUpdate, Overtake, TypeOK
  <2> QED BY <2>1, <2>2 DEF RowsOfRequests
<1>6. CASE ConfirmEnqueue(p)
  BY <1>6 DEF ConfirmEnqueue, RowsOfRequests, Rows, Goto, TypeOK, AwaitBroadcast
<1>7. CASE CancelUpdate(p)
  <2>1. Rows' = Rows
    BY <1>7, CancelIsStatusUpdate DEF StatusUpdate
  <2> QED BY <1>7, <2>1 DEF CancelUpdate, RowsOfRequests, Goto, TypeOK, AwaitBroadcast
<1>8. CASE BroadcastFindService(p) \/ BroadcastFindBooked(p) \/ BroadcastEmit(p)
  BY <1>8 DEF BroadcastFindService, BroadcastFindBooked, BroadcastEmit, EmitSlots,
              RowsOfRequests, Rows, Goto, TypeOK, IdleRequest
<1> QED BY <1>2, <1>3, <1>4, <1>5, <1>6, <1>7, <1>8 DEF Handler

\* Every step keeps the types, and the rows of the handlers in the table.
LEMMA BaseStep ==
  ASSUME TypeOK, RowsOfRequests, [Next]_vars
  PROVE  TypeOK' /\ RowsOfRequests'
<1> USE DEF history
<1>1. ASSUME NEW p \in Requests, StartRequest(p) \/ Handler(p) \/ Abort(p)
      PROVE  TypeOK' /\ RowsOfRequests'
  <2>1. TypeOK'
    BY <1>1, StartRequestTypes, CreateTypes, ChangeTypes, BroadcastTypes, AbortTypes DEF Handler
  <2> QED BY <1>1, <2>1, RowsOfRequestsStep
<1>2. CASE Catalogue
  BY <1>2, CatalogueTypes DEF Catalogue, CreateService, UpdateService, RemoveService,
                              RowsOfRequests, Rows
<1>3. CASE Mail
  BY <1>3, WorkerTypes DEF Mail, TypeOK, RowsOfRequests, Rows
<1>4. CASE UNCHANGED vars
  BY <1>4 DEF vars, TypeOK, RowsOfRequests, Rows
<1> QED BY <1>1, <1>2, <1>3, <1>4 DEF Next

\* Type correctness: every table, handler, job and push keeps its shape.
THEOREM TypeCorrect == Spec => []TypeOK
<1> DEFINE Inv == TypeOK /\ RowsOfRequests
<1>1. Init => Inv
  BY BaseInit
<1>2. Inv /\ [Next]_vars => Inv'
  BY BaseStep
<1>3. Inv => TypeOK
  OBVIOUS
<1> QED BY <1>1, <1>2, <1>3, PTL DEF Spec

-----------------------------------------------------------------------------
\* Overlaps.

RaceInv == CheckedSlotsFree /\ StalePushOnlyFromRace /\ OverlapOnlyFromRace

\* Of a handler that has read the bookings, all that matters later is kept, and it
\* may have noted that it missed row a.
StillReads(q, a) ==
  \/ requests'[q] = requests[q]
  \/ /\ requests'[q].pc = requests[q].pc
     /\ requests'[q].serviceId = requests[q].serviceId
     /\ requests'[q].date = requests[q].date
     /\ requests'[q].duration = requests[q].duration
     /\ requests[q].pc = "insert" => requests'[q].startTime = requests[q].startTime
     /\ requests[q].pc = "emit" => requests'[q].slots = requests[q].slots
     /\ requests'[q].missed = requests[q].missed \cup {a}

\* Noting a missed row leaves the rest of a handler's record as it is.
LEMMA NotingKeepsTheRest ==
  ASSUME TypeOK, NEW q \in Requests, NEW a,
         requests[q].pc \in {"insert", "emit"},
         requests'[q] = [requests[q] EXCEPT !.missed = @ \cup {a}]
  PROVE  /\ StillReads(q, a)
         /\ requests'[q].missed = requests[q].missed \cup {a}
<1>1. CASE requests[q].pc = "insert"
  <2>1. requests[q] \in Creating
    BY <1>1, RequestRecords, ShapeOfRequest
  <2> QED BY <1>1, <2>1 DEF StillReads, Creating
<1>2. CASE requests[q].pc = "emit"
  <2>1. requests[q] \in Broadcasting
    BY <1>2, RequestRecords, ShapeOfRequest
  <2> QED BY <1>2, <2>1 DEF StillReads, Broadcasting
<1> QED BY <1>1, <1>2

\* A step that leaves the table alone and takes its handler to a record that does
\* not hold bookings.
LEMMA QuietStep ==
  ASSUME TypeOK, RaceInv, NEW p \in Requests, NEW r, Goto(p, r),
         r.pc \notin {"insert", "emit"},
         UNCHANGED <<appointments, unseen, revived>>
  PROVE  RaceInv'
<1>1. /\ requests'[p].pc \notin {"insert", "emit"}
      /\ \A q \in Requests \ {p} : requests'[q] = requests[q]
  BY DEF Goto, TypeOK
<1>2. /\ \A a : Active(a)' <=> Active(a)
      /\ \A a : Lane(a)' = Lane(a) /\ Range_(a)' = Range_(a)
  BY DEF Active, Rows, Lane, Range_
<1>3. CheckedSlotsFree'
  BY <1>1, <1>2 DEF RaceInv, CheckedSlotsFree, LaneOf
<1>4. StalePushOnlyFromRace'
  BY <1>1, <1>2 DEF RaceInv, StalePushOnlyFromRace, LaneOf
<1>5. OverlapOnlyFromRace'
  BY <1>2 DEF RaceInv, OverlapOnlyFromRace, Clash
<1> QED BY <1>3, <1>4, <1>5 DEF RaceInv

\* A status update creates no overlap the invariant does not account for.
LEMMA StatusUpdateStep ==
  ASSUME TypeOK, RaceInv, NEW p \in Requests, NEW a, StatusUpdate(a),
         requests'[p].pc \notin {"insert", "emit"},
         \A q \in Requests \ {p} : StillReads(q, a),
         \A q \in Requests \ {p} :
           Active(a)' /\ ~Active(a) /\ requests'[q].pc = "emit" => a \in requests'[q].missed
  PROVE  RaceInv'
<1>1. \A b \in Rows : /\ Lane(b)' = Lane(b) /\ Range_(b)' = Range_(b)
                      /\ Active(b)' => Active(b) \/ (b = a /\ b \in revived')
  BY DEF StatusUpdate
<1>2. \A b : Active(b)' => b \in Rows
  BY DEF StatusUpdate, Active
<1>3. revived \subseteq revived' /\ unseen' = unseen
  BY DEF StatusUpdate
<1>4. CheckedSlotsFree'
  <2> SUFFICES ASSUME NEW q \in Requests, requests'[q].pc = "insert",
                      NEW b \in AppointmentIds, Active(b)', Lane(b)' = LaneOf(q)',
                      RangesOverlap(RangeOf(requests'[q].startTime, requests'[q].duration),
                                    Range_(b)')
               PROVE  b \in requests'[q].missed \/ b \in revived'
    BY DEF CheckedSlotsFree
  <2>1. q # p /\ StillReads(q, a)
    OBVIOUS
  <2>2. /\ requests[q].pc = "insert"
        /\ LaneOf(q)' = LaneOf(q)
        /\ requests'[q].startTime = requests[q].startTime
        /\ requests'[q].duration = requests[q].duration
        /\ requests[q].missed \subseteq requests'[q].missed
    BY <2>1 DEF StillReads, LaneOf
  <2>3. b \in Rows /\ (Active(b) \/ b \in revived')
    BY <1>1, <1>2
  <2> QED BY <1>1, <1>3, <2>2, <2>3 DEF RaceInv, CheckedSlotsFree
<1>5. StalePushOnlyFromRace'
  <2> SUFFICES ASSUME NEW q \in Requests, requests'[q].pc = "emit",
                      NEW b \in AppointmentIds, NEW slot \in requests'[q].slots,
                      Active(b)', Lane(b)' = LaneOf(q)',
                      RangesOverlap(RangeOf(slot, requests'[q].duration), Range_(b)')
               PROVE  b \in requests'[q].missed
    BY DEF StalePushOnlyFromRace
  <2>1. q # p /\ StillReads(q, a)
    OBVIOUS
  <2>2. /\ requests[q].pc = "emit"
        /\ LaneOf(q)' = LaneOf(q)
        /\ requests'[q].slots = requests[q].slots
        /\ requests'[q].duration = requests[q].duration
        /\ requests[q].missed \subseteq requests'[q].missed
    BY <2>1 DEF StillReads, LaneOf
  <2>3. b \in Rows /\ (Active(b) \/ (b = a /\ ~Active(a)))
    BY <1>1, <1>2
  <2>4. CASE Active(b)
    BY <1>1, <2>2, <2>3, <2>4 DEF RaceInv, StalePushOnlyFromRace
  <2>5. CASE b = a /\ ~Active(a)
    BY <2>1, <2>5
  <2> QED BY <2>3, <2>4, <2>5
<1>6. OverlapOnlyFromRace'
  <2> SUFFICES ASSUME NEW b \in AppointmentIds, NEW c \in AppointmentIds, Clash(b, c)'
               PROVE  \/ b \in unseen'[c] \/ c \in unseen'[b]
                      \/ b \in revived'   \/ c \in revived'
    BY DEF OverlapOnlyFromRace
  <2>1. b \in Rows /\ c \in Rows
    BY <1>2 DEF Clash
  <2>2. CASE Active(b) /\ Active(c)
    <3>1. Clash(b, c)
      BY <1>1, <2>1, <2>2 DEF Clash
    <3> QED BY <1>3, <3>1 DEF RaceInv, OverlapOnlyFromRace
  <2>3. CASE ~Active(b) \/ ~Active(c)
    BY <1>1, <2>1, <2>3 DEF Clash
  <2> QED BY <2>2, <2>3
<1> QED BY <1>4, <1>5, <1>6 DEF RaceInv

\* An insert creates overlaps only with rows its slot check has missed, and the
\* handlers it overtakes note the new row.
LEMMA InsertStep ==
  ASSUME TypeOK, RaceInv, NEW p \in Requests, NEW a \in AppointmentIds, CreateInsert(p, a)
  PROVE  RaceInv'
<1> DEFINE r == requests[p]
<1>1. r \in Creating /\ r.duration \in Nat /\ r.startTime \in Time
  BY RequestRecords, ShapeOfRequest, AppointmentsAssumption DEF CreateInsert, Creating
<1>2. RowInserted(r, a)
  BY InsertAddsRow
<1>3. /\ requests'[p].pc \notin {"insert", "emit"}
      /\ \A q \in Requests \ {p} : StillReads(q, a)
      /\ \A q \in Requests \ {p} :
           requests'[q].pc \in {"insert", "emit"} => a \in requests'[q].missed
  <2> DEFINE next == AwaitBroadcast(r.serviceId, r.date)
  <2>1. next \in Request
    BY <1>1, RequestRecords DEF Creating
  <2>2. next.pc = "findService"
    BY DEF AwaitBroadcast
  <2> HIDE DEF next
  <2>3. /\ requests'[p] = next
        /\ \A q \in Requests \ {p} :
             requests'[q] = IF requests[q].pc \in {"insert", "emit"}
                            THEN [requests[q] EXCEPT !.missed = @ \cup {a}]
                            ELSE requests[q]
    BY <2>1, <2>2, OvertakeOthers DEF CreateInsert, next
  <2>4. ASSUME NEW q \in Requests \ {p}, requests[q].pc \in {"insert", "emit"}
        PROVE  StillReads(q, a) /\ a \in requests'[q].missed
    <3>1. requests'[q] = [requests[q] EXCEPT !.missed = @ \cup {a}]
      BY <2>3, <2>4
    <3>2. StillReads(q, a) /\ requests'[q].missed = requests[q].missed \cup {a}
      BY <2>4, <3>1, NotingKeepsTheRest
    <3> QED BY <3>2
  <2>5. ASSUME NEW q \in Requests \ {p}, requests[q].pc \notin {"insert", "emit"}
        PROVE  requests'[q] = requests[q]
    BY <2>3, <2>5
  <2> QED BY <2>2, <2>3, <2>4, <2>5 DEF StillReads
<1>4. /\ Lane(a)' = LaneOf(p)
      /\ Range_(a)' = RangeOf(r.startTime, r.duration)
      /\ unseen'[a] = r.missed
  BY <1>2 DEF RowInserted, NewRow, Lane, LaneOf, Range_, RangeOf, CreateInsert
<1>5. /\ revived' = revived
      /\ \A b \in Rows : /\ Active(b)' <=> Active(b)
                         /\ Lane(b)' = Lane(b) /\ Range_(b)' = Range_(b)
                         /\ unseen'[b] = unseen[b]
  BY <1>2 DEF RowInserted, Active, Lane, Range_
<1>6. \A b : Active(b)' => b = a \/ b \in Rows
  BY <1>2 DEF RowInserted, Active
<1>7. CheckedSlotsFree'
  <2> SUFFICES ASSUME NEW q \in Requests, requests'[q].pc = "insert",
                      NEW b \in AppointmentIds, Active(b)', Lane(b)' = LaneOf(q)',
                      RangesOverlap(RangeOf(requests'[q].startTime, requests'[q].duration),
                                    Range_(b)')
               PROVE  b \in requests'[q].missed \/ b \in revived'
    BY DEF CheckedSlotsFree
  <2>1. q # p /\ StillReads(q, a) /\ a \in requests'[q].missed
    BY <1>3
  <2>2. /\ requests[q].pc = "insert"
        /\ LaneOf(q)' = LaneOf(q)
        /\ requests'[q].startTime = requests[q].startTime
        /\ requests'[q].duration = requests[q].duration
        /\ requests[q].missed \subseteq requests'[q].missed
    BY <2>1 DEF StillReads, LaneOf
  <2> QED BY <1>5, <1>6, <2>1, <2>2 DEF RaceInv, CheckedSlotsFree
<1>8. StalePushOnlyFromRace'
  <2> SUFFICES ASSUME NEW q \in Requests, requests'[q].pc = "emit",
                      NEW b \in AppointmentIds, NEW slot \in requests'[q].slots,
                      Active(b)', Lane(b)' = LaneOf(q)',
                      RangesOverlap(RangeOf(slot, requests'[q].duration), Range_(b)')
               PROVE  b \in requests'[q].missed
    BY DEF StalePushOnlyFromRace
  <2>1. q # p /\ StillReads(q, a) /\ a \in requests'[q].missed
    BY <1>3
  <2>2. /\ requests[q].pc = "emit"
        /\ LaneOf(q)' = LaneOf(q)
        /\ requests'[q].slots = requests[q].slots
        /\ requests'[q].duration = requests[q].duration
        /\ requests[q].missed \subseteq requests'[q].missed
    BY <2>1 DEF StillReads, LaneOf
  <2> QED BY <1>5, <1>6, <2>1, <2>2 DEF RaceInv, StalePushOnlyFromRace
<1>9. OverlapOnlyFromRace'
  <2>1. ASSUME NEW b \in Rows, Active(b)', Lane(b)' = Lane(a)',
               RangesOverlap(Range_(a)', Range_(b)')
        PROVE  b \in unseen'[a] \/ b \in revived'
    <3>1. requests[p].pc = "insert" /\ b \in AppointmentIds
      BY DEF CreateInsert, Rows
    <3> QED BY <1>4, <1>5, <2>1, <3>1 DEF RaceInv, CheckedSlotsFree
  <2>2. \A b \in Rows \cup {a} : Range_(b)' \in TimeRange
    <3>1. Range_(a)' \in TimeRange
      BY <1>1, <1>4, EndOfVisit DEF RangeOf, TimeRange
    <3>2. \A b \in Rows : Range_(b) \in TimeRange
      BY RowsAreAppointments DEF Range_, TimeRange, Appointment
    <3> QED BY <1>5, <3>1, <3>2
  <2> SUFFICES ASSUME NEW b \in AppointmentIds, NEW c \in AppointmentIds, Clash(b, c)'
               PROVE  \/ b \in unseen'[c] \/ c \in unseen'[b]
                      \/ b \in revived'   \/ c \in revived'
    BY DEF OverlapOnlyFromRace
  <2>3. /\ b # c /\ Active(b)' /\ Active(c)' /\ Lane(b)' = Lane(c)'
        /\ RangesOverlap(Range_(b)', Range_(c)')
    BY DEF Clash
  <2>4. CASE b \in Rows /\ c \in Rows
    BY <1>5, <2>3, <2>4 DEF RaceInv, OverlapOnlyFromRace, Clash
  <2>5. CASE b = a
    <3>1. c \in Rows
      BY <1>6, <2>3, <2>5
    <3> QED BY <2>1, <2>3, <2>5, <3>1
  <2>6. CASE c = a
    <3>1. b \in Rows
      BY <1>6, <2>3, <2>6
    <3>2. RangesOverlap(Range_(c)', Range_(b)')
      BY <2>2, <2>3, <2>6, <3>1, OverlapSymmetric
    <3> QED BY <2>1, <2>3, <2>6, <3>1, <3>2
  <2> QED BY <1>6, <2>3, <2>4, <2>5, <2>6
<1> QED BY <1>7, <1>8, <1>9 DEF RaceInv

\* What the two readers of bookings carry away is free of them.
LEMMA ReadStep ==
  ASSUME TypeOK, RaceInv, NEW p \in Requests, CreateCheckSlot(p) \/ BroadcastFindBooked(p)
  PROVE  RaceInv'
<1> DEFINE r == requests[p]
<1>1. /\ UNCHANGED <<appointments, unseen, revived>>
      /\ \A q \in Requests \ {p} : requests'[q] = requests[q]
  BY DEF CreateCheckSlot, BroadcastFindBooked, history, Goto, TypeOK
<1>2. /\ \A a : Active(a)' <=> Active(a)
      /\ \A a : Lane(a)' = Lane(a) /\ Range_(a)' = Range_(a)
  BY <1>1 DEF Active, Rows, Lane, Range_
<1>3. \A a \in AppointmentIds :
        Active(a) /\ Lane(a) = <<r.serviceId, DayOf[r.date]>>
          => Range_(a) \in BookedRanges(r.serviceId, r.date)
  BY DEF BookedRanges
<1>4. OverlapOnlyFromRace'
  BY <1>1, <1>2 DEF RaceInv, OverlapOnlyFromRace, Clash
<1>5. CASE CreateCheckSlot(p)
  <2>1. CASE ValidateSlot(r.startTime, r.duration, BookedRanges(r.serviceId, r.date)) = "valid"
    <3>1. requests'[p] = [r EXCEPT !.pc = "insert"]
      BY <1>5, <2>1 DEF CreateCheckSlot, Goto, TypeOK
    <3>2. r \in Creating
      BY <1>5, RequestRecords, ShapeOfRequest DEF CreateCheckSlot
    <3>3. /\ requests'[p].pc = "insert"
          /\ requests'[p].startTime = r.startTime /\ requests'[p].duration = r.duration
          /\ LaneOf(p)' = <<r.serviceId, DayOf[r.date]>>
      BY <3>1, <3>2 DEF Creating, LaneOf
    <3>4. CheckedSlotsFree'
      BY <1>1, <1>2, <1>3, <2>1, <3>3, ValidSlotsAreFree DEF RaceInv, CheckedSlotsFree, LaneOf
    <3>5. StalePushOnlyFromRace'
      BY <1>1, <1>2, <3>3 DEF RaceInv, StalePushOnlyFromRace, LaneOf
    <3> QED BY <1>4, <3>4, <3>5 DEF RaceInv
  <2>2. CASE ~(ValidateSlot(r.startTime, r.duration, BookedRanges(r.serviceId, r.date)) = "valid")
    BY <1>1, <1>5, <2>2, QuietStep DEF CreateCheckSlot, IdleRequest
  <2> QED BY <2>1, <2>2
<1>6. CASE BroadcastFindBooked(p)
  <2>1. requests'[p] = EmitSlots(r, BookedRanges(r.serviceId, r.date))
    BY <1>6 DEF BroadcastFindBooked, Goto, TypeOK
  <2>2. /\ requests'[p].pc = "emit"
        /\ requests'[p].duration = r.duration
        /\ requests'[p].slots = GetAvailableSlots(r.duration, BookedRanges(r.serviceId, r.date))
        /\ LaneOf(p)' = <<r.serviceId, DayOf[r.date]>>
    BY <2>1 DEF EmitSlots, LaneOf
  <2>3. r.duration \in Nat \ {0}
    BY <1>6, RequestRecords, ShapeOfRequest, AppointmentsAssumption
       DEF BroadcastFindBooked, Broadcasting
  <2>4. StalePushOnlyFromRace'
    BY <1>1, <1>2, <1>3, <2>2, <2>3, AvailableSlotsAreFree
       DEF RaceInv, StalePushOnlyFromRace, LaneOf
  <2>5. CheckedSlotsFree'
    BY <1>1, <1>2, <2>2 DEF RaceInv, CheckedSlotsFree, LaneOf
  <2> QED BY <1>4, <2>4, <2>5 DEF RaceInv
<1> QED BY <1>5, <1>6

\* A confirm or a cancel keeps the race invariant: a late confirm names its row as
\* revived and is noted by every reader it overtakes.
LEMMA UpdatesStep ==
  ASSUME TypeOK, RowsOfRequests, RaceInv, NEW p \in Requests,
         ConfirmUpdate(p) \/ CancelUpdate(p)
  PROVE  RaceInv'
<1> SUFFICES ASSUME NEW a, a = requests[p].id PROVE RaceInv'
  OBVIOUS
<1>1. CASE ConfirmUpdate(p)
  <2> DEFINE next == [requests EXCEPT ![p].pc = "enqueue"]
             late == appointments[a].status = "CANCELLED"
  <2>1. requests[p] \in Changing
    BY <1>1, RequestRecords, ShapeOfRequest DEF ConfirmUpdate
  <2>2. [requests[p] EXCEPT !.pc = "enqueue"] \in Request
    BY <2>1 DEF Changing, Request
  <2>3. requests'[p].pc = "enqueue"
    <3>1. [requests[p] EXCEPT !.pc = "enqueue"].pc = "enqueue"
      BY <2>1 DEF Changing
    <3> QED BY <1>1, <3>1 DEF ConfirmUpdate, Overtake, TypeOK
  <2>4. ASSUME NEW q \in Requests \ {p}
        PROVE  /\ StillReads(q, a)
               /\ Active(a)' /\ ~Active(a) /\ requests'[q].pc = "emit"
                    => a \in requests'[q].missed
    <3>1. CASE late /\ requests[q].pc \in {"insert", "emit"}
      <4>1. requests'[q] = [requests[q] EXCEPT !.missed = @ \cup {a}]
        BY <1>1, <3>1 DEF ConfirmUpdate, Overtake, TypeOK
      <4> QED BY <3>1, <4>1, NotingKeepsTheRest
    <3>2. CASE late /\ requests[q].pc \notin {"insert", "emit"}
      BY <1>1, <3>2 DEF ConfirmUpdate, Overtake, TypeOK, StillReads
    <3>3. CASE ~late
      <4>1. requests'[q] = requests[q]
        BY <1>1, <3>3 DEF ConfirmUpdate, TypeOK
      <4>2. Active(a)
        BY <1>1, <3>3 DEF RowsOfRequests, ConfirmUpdate, Active
      <4> QED BY <4>1, <4>2 DEF StillReads
    <3> QED BY <3>1, <3>2, <3>3
  <2>5. StatusUpdate(a)
    BY <1>1, ConfirmIsStatusUpdate
  <2> HIDE DEF next, late
  <2> QED BY <2>3, <2>4, <2>5, StatusUpdateStep
<1>2. CASE CancelUpdate(p)
  <2>1. StatusUpdate(a)
    BY <1>2, CancelIsStatusUpdate
  <2>2. /\ requests'[p].pc = "findService"
        /\ \A q \in Requests \ {p} : StillReads(q, a)
    BY <1>2 DEF CancelUpdate, Goto, AwaitBroadcast, StillReads, TypeOK
  <2>3. ~Active(a)'
    <3>1. a \in AppointmentIds /\ appointments[a] \in Appointment
      BY <1>2, RowsAreAppointments DEF RowsOfRequests, CancelUpdate
    <3>2. [appointments[a] EXCEPT !.status = "CANCELLED"].status = "CANCELLED"
      BY <3>1 DEF Appointment
    <3>3. appointments'[a] = [appointments[a] EXCEPT !.status = "CANCELLED"]
      BY <1>2, <3>1 DEF CancelUpdate, TypeOK
    <3> QED BY <3>2, <3>3 DEF Active
  <2> QED BY <2>1, <2>2, <2>3, StatusUpdateStep
<1> QED BY <1>1, <1>2

\* Initially nothing overlaps and nothing is about to be pushed.
LEMMA RaceInit == Init => RaceInv
  BY DEF Init, RaceInv, CheckedSlotsFree, StalePushOnlyFromRace, OverlapOnlyFromRace,
         Clash, Active, Rows, IdleRequest

\* Every step keeps the race invariant.
LEMMA RaceStep ==
  ASSUME TypeOK, RowsOfRequests, RaceInv, [Next]_vars
  PROVE  RaceInv'
<1> USE DEF history
<1>1. ASSUME NEW p \in Requests, StartRequest(p)
      PROVE  RaceInv'
  <2>1. PICK r : /\ Goto(p, r)
                 /\ r.pc \in {"checkSlot", "confirmUpdate", "cancelUpdate"}
                 /\ UNCHANGED <<appointments, unseen, revived>>
    <3>1. ASSUME NEW user, NEW s, NEW date, NEW startTime,
                 StartCreate(p, user, s, date, startTime)
          PROVE  \E r : /\ Goto(p, r)
                        /\ r.pc \in {"checkSlot", "confirmUpdate", "cancelUpdate"}
                        /\ UNCHANGED <<appointments, unseen, revived>>
      BY <3>1 DEF StartCreate
    <3>2. ASSUME NEW user, NEW a, StartConfirm(p, user, a)
          PROVE  \E r : /\ Goto(p, r)
                        /\ r.pc \in {"checkSlot", "confirmUpdate", "cancelUpdate"}
                        /\ UNCHANGED <<appointments, unseen, revived>>
      BY <3>2 DEF StartConfirm
    <3>3. ASSUME NEW user, NEW a, StartCancel(p, user, a)
          PROVE  \E r : /\ Goto(p, r)
                        /\ r.pc \in {"checkSlot", "confirmUpdate", "cancelUpdate"}
                        /\ UNCHANGED <<appointments, unseen, revived>>
      BY <3>3 DEF StartCancel
    <3> QED BY <1>1, <3>1, <3>2, <3>3 DEF StartRequest, StartAs
  <2> QED BY <2>1, QuietStep
<1>2. ASSUME NEW p \in Requests,
             \/ CreateRefused(p) \/ ConfirmEnqueue(p) \/ BroadcastFindService(p)
             \/ BroadcastEmit(p) \/ Abort(p)
      PROVE  RaceInv'
  <2>1. PICK r : /\ Goto(p, r)
                 /\ r.pc \in {"idle", "findService", "findBooked"}
                 /\ UNCHANGED <<appointments, unseen, revived>>
    BY <1>2 DEF CreateRefused, ConfirmEnqueue, BroadcastFindService, BroadcastEmit, Abort,
                IdleRequest, AwaitBroadcast
  <2> QED BY <2>1, QuietStep
<1>3. ASSUME NEW p \in Requests, Handler(p)
      PROVE  RaceInv'
  BY <1>2, <1>3, InsertStep, ReadStep, UpdatesStep DEF Handler
<1>4. ASSUME UNCHANGED <<appointments, requests, unseen, revived>>
      PROVE  RaceInv'
  BY <1>4 DEF RaceInv, CheckedSlotsFree, StalePushOnlyFromRace, OverlapOnlyFromRace,
              Clash, Active, Rows, Lane, LaneOf, Range_
<1>5. CASE Catalogue \/ Mail \/ UNCHANGED vars
  <2>1. UNCHANGED <<appointments, requests, unseen, revived>>
    BY <1>5 DEF Catalogue, CreateService, UpdateService, RemoveService, Mail, vars
  <2> QED BY <1>4, <2>1
<1> QED BY <1>1, <1>2, <1>3, <1>5 DEF Next

\* Two active visits of a service overlap only if one's create had already checked its
\* slot when the other became active, or if a late confirm revived one of them.
THEOREM OverlapsOnlyFromRaces == Spec => []OverlapOnlyFromRace
<1> DEFINE Inv == TypeOK /\ RowsOfRequests /\ RaceInv
<1>1. Init => Inv
  BY BaseInit, RaceInit
<1>2. Inv /\ [Next]_vars => Inv'
  BY BaseStep, RaceStep
<1>3. Inv => OverlapOnlyFromRace
  BY DEF RaceInv
<1> QED BY <1>1, <1>2, <1>3, PTL DEF Spec

\* The slots a handler is about to push offer held time only if it became held after
\* the handler read the bookings.
THEOREM StalePushesOnlyFromRaces == Spec => []StalePushOnlyFromRace
<1> DEFINE Inv == TypeOK /\ RowsOfRequests /\ RaceInv
<1>1. Init => Inv
  BY BaseInit, RaceInit
<1>2. Inv /\ [Next]_vars => Inv'
  BY BaseStep, RaceStep
<1>3. Inv => StalePushOnlyFromRace
  BY DEF RaceInv
<1> QED BY <1>1, <1>2, <1>3, PTL DEF Spec

-----------------------------------------------------------------------------
\* One handler at a time on a service and day.

\* The service and day a handler works on.
LaneAtWork(p) ==
  LET r == requests[p]
  IN  IF r.pc \in {"confirmUpdate", "enqueue", "cancelUpdate"} THEN Lane(r.id)
      ELSE <<r.serviceId, DayOf[r.date]>>

\* What a lock held by create, confirm and cancel from their first read to their last
\* push, one for each service and day, would guarantee.
OneHandlerPerLane ==
  \A p, q \in Requests :
    p # q /\ requests[p].pc # "idle" /\ requests[q].pc # "idle"
      => LaneAtWork(p) # LaneAtWork(q)

\* A single handler.
Serial == \A p, q \in Requests : p = q

\* A single handler has every lane to itself.
LEMMA SerialHandlersHaveTheirLane == Serial => OneHandlerPerLane
  BY DEF Serial, OneHandlerPerLane

\* A handler of p's step leaves q's record alone, or q notes a row of p's lane.
Noted(q, p) ==
  \/ requests'[q] = requests[q]
  \/ /\ requests[q].pc \in {"insert", "emit"}
     /\ requests[p].pc # "idle"
     /\ \E a \in Rows' : Lane(a)' = LaneAtWork(p) /\ StillReads(q, a)

\* A handler changes rows of its own lane only, and no row changes its lane.
LEMMA WorkStaysInItsLane ==
  ASSUME TypeOK, RowsOfRequests, NEW p \in Requests, StartRequest(p) \/ Handler(p) \/ Abort(p)
  PROVE  /\ \A b \in Rows : /\ b \in Rows' /\ Lane(b)' = Lane(b)
                            /\ appointments'[b].serviceId = appointments[b].serviceId
         /\ \A b \in AppointmentIds : appointments'[b] # appointments[b] =>
              requests[p].pc # "idle" /\ b \in Rows' /\ Lane(b)' = LaneAtWork(p)
<1>1. ASSUME NEW a \in AppointmentIds, CreateInsert(p, a)
      PROVE  /\ \A b \in Rows : /\ b \in Rows' /\ Lane(b)' = Lane(b)
                                /\ appointments'[b].serviceId = appointments[b].serviceId
             /\ \A b \in AppointmentIds : appointments'[b] # appointments[b] =>
                  requests[p].pc # "idle" /\ b \in Rows' /\ Lane(b)' = LaneAtWork(p)
  <2>1. RowInserted(requests[p], a)
    BY <1>1, InsertAddsRow
  <2>2. Lane(a)' = LaneAtWork(p) /\ requests[p].pc # "idle"
    BY <1>1, <2>1 DEF RowInserted, NewRow, Lane, LaneAtWork, CreateInsert
  <2>3. \A b \in AppointmentIds \ {a} : appointments'[b] = appointments[b]
    BY <1>1 DEF CreateInsert, TypeOK
  <2> QED BY <2>1, <2>2, <2>3 DEF RowInserted, Lane
<1>2. ASSUME ConfirmUpdate(p) \/ CancelUpdate(p)
      PROVE  /\ \A b \in Rows : /\ b \in Rows' /\ Lane(b)' = Lane(b)
                                /\ appointments'[b].serviceId = appointments[b].serviceId
             /\ \A b \in AppointmentIds : appointments'[b] # appointments[b] =>
                  requests[p].pc # "idle" /\ b \in Rows' /\ Lane(b)' = LaneAtWork(p)
  <2>1. StatusUpdate(requests[p].id)
    BY <1>2, ConfirmIsStatusUpdate, CancelIsStatusUpdate
  <2>2. LaneAtWork(p) = Lane(requests[p].id) /\ requests[p].pc # "idle"
    BY <1>2 DEF LaneAtWork, ConfirmUpdate, CancelUpdate
  <2>3. \A b \in AppointmentIds \ {requests[p].id} : appointments'[b] = appointments[b]
    BY <1>2 DEF ConfirmUpdate, CancelUpdate, TypeOK
  <2> QED BY <2>1, <2>2, <2>3 DEF StatusUpdate
<1>3. ASSUME UNCHANGED appointments
      PROVE  /\ \A b \in Rows : /\ b \in Rows' /\ Lane(b)' = Lane(b)
                                /\ appointments'[b].serviceId = appointments[b].serviceId
             /\ \A b \in AppointmentIds : appointments'[b] = appointments[b]
  BY <1>3 DEF Rows, Lane
<1>4. \/ \E a \in AppointmentIds : CreateInsert(p, a)
      \/ ConfirmUpdate(p) \/ CancelUpdate(p)
      \/ UNCHANGED appointments
  BY DEF StartRequest, StartAs, StartCreate, StartConfirm, StartCancel, Handler,
         Abort, CreateCheckSlot, CreateRefused, ConfirmEnqueue,
         BroadcastFindService, BroadcastFindBooked, BroadcastEmit, history
<1> QED BY <1>1, <1>2, <1>3, <1>4

\* What a step of one handler does to the records of the others.
LEMMA OthersNote ==
  ASSUME TypeOK, RowsOfRequests, NEW p \in Requests, StartRequest(p) \/ Handler(p) \/ Abort(p),
         NEW q \in Requests \ {p}
  PROVE  Noted(q, p)
<1>1. ASSUME NEW r, Goto(p, r)
      PROVE  Noted(q, p)
  BY <1>1 DEF Goto, TypeOK, Noted
<1>2. ASSUME NEW a \in AppointmentIds, NEW next,
             requests' = Overtake(a, [requests EXCEPT ![p] = next]),
             requests[p].pc # "idle", a \in Rows', Lane(a)' = LaneAtWork(p)
      PROVE  Noted(q, p)
  <2>1. requests'[q] = IF requests[q].pc \in {"insert", "emit"}
                       THEN [requests[q] EXCEPT !.missed = @ \cup {a}] ELSE requests[q]
    BY <1>2 DEF Overtake, TypeOK
  <2>2. CASE requests[q].pc \in {"insert", "emit"}
    <3>1. StillReads(q, a)
      BY <2>1, <2>2, NotingKeepsTheRest
    <3> QED BY <1>2, <2>2, <3>1 DEF Noted
  <2>3. CASE requests[q].pc \notin {"insert", "emit"}
    BY <2>1, <2>3 DEF Noted
  <2> QED BY <2>2, <2>3
<1>3. ASSUME NEW a \in AppointmentIds, CreateInsert(p, a)
      PROVE  Noted(q, p)
  <2>1. RowInserted(requests[p], a)
    BY <1>3, InsertAddsRow
  <2>2. requests[p].pc # "idle" /\ a \in Rows' /\ Lane(a)' = LaneAtWork(p)
    BY <1>3, <2>1 DEF RowInserted, NewRow, Lane, LaneAtWork, CreateInsert
  <2> QED BY <1>2, <1>3, <2>2 DEF CreateInsert
<1>4. ASSUME ConfirmUpdate(p)
      PROVE  Noted(q, p)
  <2> SUFFICES ASSUME NEW a, a = requests[p].id PROVE Noted(q, p)
    OBVIOUS
  <2> DEFINE next == [requests[p] EXCEPT !.pc = "enqueue"]
  <2>1. StatusUpdate(a)
    BY <1>4, ConfirmIsStatusUpdate
  <2>2. /\ requests[p].pc # "idle" /\ a \in Rows' /\ a \in AppointmentIds
        /\ Lane(a)' = LaneAtWork(p)
    BY <1>4, <2>1 DEF StatusUpdate, ConfirmUpdate, LaneAtWork, Rows
  <2>3. \/ requests' = Overtake(a, [requests EXCEPT ![p] = next])
        \/ Goto(p, next)
    BY <1>4 DEF ConfirmUpdate, Goto
  <2> HIDE DEF next
  <2> QED BY <1>1, <1>2, <2>2, <2>3
<1>5. ASSUME ~(\E a \in AppointmentIds : CreateInsert(p, a)), ~ConfirmUpdate(p)
      PROVE  \E r : Goto(p, r)
  <2>1. ASSUME StartRequest(p) PROVE \E r : Goto(p, r)
    BY <2>1 DEF StartRequest, StartAs, StartCreate, StartConfirm, StartCancel
  <2>2. ASSUME CreateCheckSlot(p) PROVE \E r : Goto(p, r)
    BY <2>2 DEF CreateCheckSlot
  <2>3. ASSUME Handler(p) PROVE \E r : Goto(p, r)
    BY <1>5, <2>2, <2>3 DEF Handler, CreateRefused, ConfirmEnqueue, CancelUpdate,
       BroadcastFindService, BroadcastFindBooked, BroadcastEmit
  <2>4. ASSUME Abort(p) PROVE \E r : Goto(p, r)
    BY <2>4 DEF Abort
  <2> QED BY <2>1, <2>3, <2>4
<1> QED BY <1>1, <1>3, <1>4, <1>5

-----------------------------------------------------------------------------
\* With one handler on each lane, what a create misses is in other lanes, and no confirm
\* is late.
NothingMissed ==
  /\ revived = {}
  /\ \A a \in Rows : \A b \in unseen[a] : b \in Rows /\ Lane(b) # Lane(a)
  /\ \A p \in Requests :
       /\ requests[p].pc = "checkSlot" => requests[p].missed = {}
       /\ requests[p].pc = "insert" =>
            \A a \in requests[p].missed : a \in Rows /\ Lane(a) # LaneAtWork(p)
       /\ requests[p].pc = "confirmUpdate" => appointments[requests[p].id].status = "PENDING"

\* What a step of another handler leaves of a handler's own part of the invariant.
LEMMA OthersMissNothing ==
  ASSUME OneHandlerPerLane, TypeOK, RowsOfRequests, NothingMissed, NEW p \in Requests,
         StartRequest(p) \/ Handler(p) \/ Abort(p), NEW q \in Requests \ {p}
  PROVE  /\ requests'[q].pc = "checkSlot" => requests'[q].missed = {}
         /\ requests'[q].pc = "insert" =>
              \A a \in requests'[q].missed : a \in Rows' /\ Lane(a)' # LaneAtWork(q)'
         /\ requests'[q].pc = "confirmUpdate" => appointments'[requests'[q].id].status = "PENDING"
<1>1. Noted(q, p)
  BY OthersNote
<1>2. /\ \A b \in Rows : b \in Rows' /\ Lane(b)' = Lane(b)
      /\ \A b \in AppointmentIds : appointments'[b] # appointments[b] =>
           requests[p].pc # "idle" /\ b \in Rows' /\ Lane(b)' = LaneAtWork(p)
  BY WorkStaysInItsLane
<1>3. requests[p].pc # "idle" /\ requests[q].pc # "idle" => LaneAtWork(p) # LaneAtWork(q)
  BY DEF OneHandlerPerLane
<1>4. requests'[q].pc = requests[q].pc
  BY <1>1 DEF Noted, StillReads
<1>5. CASE requests[q].pc = "checkSlot"
  BY <1>1, <1>4, <1>5 DEF Noted, NothingMissed
<1>6. CASE requests[q].pc = "insert"
  <2>1. LaneAtWork(q)' = LaneAtWork(q)
    BY <1>1, <1>4, <1>6 DEF Noted, StillReads, LaneAtWork
  <2>2. \A a \in requests[q].missed : a \in Rows' /\ Lane(a)' # LaneAtWork(q)
    BY <1>2, <1>6 DEF NothingMissed
  <2>3. CASE requests'[q] = requests[q]
    BY <1>4, <1>6, <2>1, <2>2, <2>3
  <2>4. ASSUME requests[p].pc # "idle", NEW a \in Rows', Lane(a)' = LaneAtWork(p),
               requests'[q].missed = requests[q].missed \cup {a}
        PROVE  \A b \in requests'[q].missed : b \in Rows' /\ Lane(b)' # LaneAtWork(q)'
    BY <1>3, <1>6, <2>1, <2>2, <2>4
  <2> QED BY <1>1, <1>4, <1>6, <2>3, <2>4 DEF Noted, StillReads
<1>7. CASE requests[q].pc = "confirmUpdate"
  <2>1. requests'[q] = requests[q] /\ requests[q].id \in Rows
    BY <1>1, <1>7 DEF Noted, RowsOfRequests
  <2>2. LaneAtWork(q) = Lane(requests[q].id)
    BY <1>7 DEF LaneAtWork
  <2>3. appointments'[requests[q].id] = appointments[requests[q].id]
    BY <1>2, <1>3, <1>7, <2>1, <2>2 DEF Rows
  <2> QED BY <1>4, <1>7, <2>1, <2>3 DEF NothingMissed
<1> QED BY <1>4, <1>5, <1>6, <1>7

\* With one handler on each lane no read of a lane's bookings is ever overtaken.
LEMMA NothingMissedStep ==
  ASSUME OneHandlerPerLane, TypeOK, RowsOfRequests, NothingMissed, [Next]_vars
  PROVE  NothingMissed'
<1> USE DEF history
\* All a step must show: its handler's next record, if any, has missed nothing.
<1>1. ASSUME NEW p \in Requests, StartRequest(p) \/ Handler(p) \/ Abort(p), NEW r, Goto(p, r),
             UNCHANGED <<unseen, revived, Rows>>,
             r.pc \in {"checkSlot", "insert"} => r.missed = {},
             r.pc = "confirmUpdate" => appointments'[r.id].status = "PENDING"
      PROVE  NothingMissed'
  <2>1. requests'[p] = r
    BY <1>1 DEF Goto, TypeOK
  <2>2. \A b \in Rows : Lane(b)' = Lane(b)
    BY <1>1, WorkStaysInItsLane
  <2>3. \A a \in Rows' : \A b \in unseen'[a] : b \in Rows' /\ Lane(b)' # Lane(a)'
    BY <1>1, <2>2 DEF NothingMissed
  <2> QED BY <1>1, <2>1, <2>3, OthersMissNothing DEF NothingMissed
<1>2. ASSUME NEW p \in Requests, StartRequest(p)
      PROVE  NothingMissed'
  <2>1. ASSUME NEW user, NEW s, NEW date, NEW startTime,
               StartCreate(p, user, s, date, startTime)
        PROVE  NothingMissed'
    BY <1>1, <1>2, <2>1 DEF StartCreate, Rows
  <2>2. ASSUME NEW user, NEW a, StartConfirm(p, user, a)
        PROVE  NothingMissed'
    BY <1>1, <1>2, <2>2 DEF StartConfirm, Rows
  <2>3. ASSUME NEW user, NEW a, StartCancel(p, user, a)
        PROVE  NothingMissed'
    BY <1>1, <1>2, <2>3 DEF StartCancel, Rows
  <2> QED BY <1>2, <2>1, <2>2, <2>3 DEF StartRequest, StartAs
<1>3. ASSUME NEW p \in Requests, CreateCheckSlot(p)
      PROVE  NothingMissed'
  <2>1. requests[p] \in Creating /\ requests[p].missed = {}
    BY <1>3, RequestRecords, ShapeOfRequest DEF CreateCheckSlot, NothingMissed
  <2>2. /\ [requests[p] EXCEPT !.pc = "insert"].missed = {}
        /\ [requests[p] EXCEPT !.pc = "insert"].pc = "insert"
    BY <2>1 DEF Creating
  <2>3. PICK r : /\ Goto(p, r)
                 /\ r.pc \in {"insert", "idle"}
                 /\ r.pc = "insert" => r.missed = {}
                 /\ UNCHANGED <<unseen, revived, appointments>>
    BY <1>3, <2>2 DEF CreateCheckSlot, IdleRequest
  <2>4. Rows' = Rows /\ Handler(p)
    BY <1>3, <2>3 DEF Rows, Handler
  <2> QED BY <1>1, <2>3, <2>4
<1>4. ASSUME NEW p \in Requests, NEW a \in AppointmentIds, CreateInsert(p, a)
      PROVE  NothingMissed'
  <2>1. \A b \in requests[p].missed : b \in Rows /\ Lane(b) # LaneAtWork(p)
    BY <1>4 DEF CreateInsert, NothingMissed
  <2>2. requests[p].serviceId \in ServiceIds /\ requests[p].date \in DateStrings
    BY <1>4, RequestRecords, ShapeOfRequest DEF CreateInsert, Creating
  <2>3. requests'[p].pc = "findService"
    <3> DEFINE next == AwaitBroadcast(requests[p].serviceId, requests[p].date)
    <3>1. next \in Request /\ next.pc = "findService"
      BY <2>2, RequestRecords DEF AwaitBroadcast
    <3>2. requests' = Overtake(a, [requests EXCEPT ![p] = next])
      BY <1>4 DEF CreateInsert
    <3> HIDE DEF next
    <3>3. requests'[p] = next
      BY <3>1, <3>2, OvertakeOthers
    <3> QED BY <3>1, <3>3
  <2>4. RowInserted(requests[p], a)
    BY <1>4, InsertAddsRow
  <2>5. Lane(a)' = LaneAtWork(p)
    BY <1>4, <2>4 DEF RowInserted, NewRow, Lane, LaneAtWork, CreateInsert
  <2>6. Handler(p)
    BY <1>4 DEF Handler
  <2>7. \A b \in Rows : b \in Rows' /\ Lane(b)' = Lane(b)
    BY <2>6, WorkStaysInItsLane
  <2>8. \A b \in Rows' : \A c \in unseen'[b] : c \in Rows' /\ Lane(c)' # Lane(b)'
    <3>1. \A c \in unseen'[a] : c \in Rows' /\ Lane(c)' # Lane(a)'
      BY <2>1, <2>4, <2>5, <2>7 DEF RowInserted
    <3>2. ASSUME NEW b \in Rows
          PROVE  \A c \in unseen'[b] : c \in Rows' /\ Lane(c)' # Lane(b)'
      BY <2>4, <2>7 DEF RowInserted, NothingMissed
    <3> QED BY <2>4, <3>1, <3>2 DEF RowInserted
  <2>9. revived' = {}
    BY <1>4 DEF CreateInsert, NothingMissed
  <2> QED BY <2>3, <2>6, <2>8, <2>9, OthersMissNothing DEF NothingMissed
<1>5. ASSUME NEW p \in Requests, ConfirmUpdate(p)
      PROVE  NothingMissed'
  <2>1. /\ appointments[requests[p].id].status = "PENDING"
        /\ requests[p] \in Changing
    BY <1>5, RequestRecords, ShapeOfRequest DEF ConfirmUpdate, NothingMissed
  <2>2. /\ UNCHANGED <<unseen, revived>>
        /\ Goto(p, [requests[p] EXCEPT !.pc = "enqueue"])
    BY <1>5, <2>1 DEF ConfirmUpdate, Goto
  <2>3. [requests[p] EXCEPT !.pc = "enqueue"].pc = "enqueue"
    BY <2>1 DEF Changing
  <2>4. Rows' = Rows /\ Handler(p)
    BY <1>5, ConfirmIsStatusUpdate DEF StatusUpdate, Handler
  <2> QED BY <1>1, <2>2, <2>3, <2>4
<1>6. ASSUME NEW p \in Requests,
             \/ CreateRefused(p) \/ ConfirmEnqueue(p) \/ CancelUpdate(p)
             \/ BroadcastFindService(p) \/ BroadcastFindBooked(p) \/ BroadcastEmit(p)
             \/ Abort(p)
      PROVE  NothingMissed'
  <2>1. PICK r : /\ Goto(p, r)
                 /\ r.pc \in {"idle", "findService", "findBooked", "emit"}
                 /\ UNCHANGED <<unseen, revived>>
    BY <1>6 DEF CreateRefused, ConfirmEnqueue, CancelUpdate, BroadcastFindService,
                BroadcastFindBooked, BroadcastEmit, Abort, IdleRequest, AwaitBroadcast, EmitSlots
  <2>2. Rows' = Rows
    <3>1. CASE CancelUpdate(p)
      BY <3>1, CancelIsStatusUpdate DEF StatusUpdate
    <3>2. CASE ~CancelUpdate(p)
      BY <1>6, <3>2 DEF CreateRefused, ConfirmEnqueue, BroadcastFindService,
                        BroadcastFindBooked, BroadcastEmit, Abort, Rows
    <3> QED BY <3>1, <3>2
  <2>3. Handler(p) \/ Abort(p)
    BY <1>6 DEF Handler
  <2> QED BY <1>1, <2>1, <2>2, <2>3
<1>7. CASE Catalogue \/ Mail \/ UNCHANGED vars
  <2>1. UNCHANGED <<appointments, requests, unseen, revived>>
    BY <1>7 DEF Catalogue, CreateService, UpdateService, RemoveService, Mail, vars
  <2> QED BY <2>1 DEF NothingMissed, Rows, Lane, LaneAtWork
<1> QED BY <1>2, <1>3, <1>4, <1>5, <1>6, <1>7 DEF Next, Handler

\* Initially nothing has been missed.
LEMMA NothingMissedInit == Init => NothingMissed
  BY DEF Init, NothingMissed, IdleRequest, Rows

\* Without races nothing overlaps.
LEMMA NoRaceNoClash == RaceInv /\ NothingMissed => NoDoubleBooking
  BY DEF RaceInv, NothingMissed, OverlapOnlyFromRace, NoDoubleBooking, Clash, Active

\* With one handler at a time on each service and day, no two active visits of a service
\* overlap, whatever handlers of other lanes and the catalogue do meanwhile and wherever
\* handlers stop.
THEOREM LaneLockNoDoubleBooking == Spec /\ []OneHandlerPerLane => []NoDoubleBooking
<1> DEFINE Inv == TypeOK /\ RowsOfRequests /\ RaceInv /\ NothingMissed
<1>1. Init => Inv
  BY BaseInit, RaceInit, NothingMissedInit
<1>2. Inv /\ OneHandlerPerLane /\ [Next]_vars => Inv'
  BY BaseStep, RaceStep, NothingMissedStep
<1>3. Inv => NoDoubleBooking
  BY NoRaceNoClash
<1> QED BY <1>1, <1>2, <1>3, PTL DEF Spec

\* So with one request at a time no two active visits of a service overlap.
THEOREM SerialNoDoubleBooking ==
  ASSUME Serial
  PROVE  Spec => []NoDoubleBooking
<1>1. OneHandlerPerLane
  BY SerialHandlersHaveTheirLane
<1> QED BY <1>1, LaneLockNoDoubleBooking, PTL

\* With one handler at a time on each service and day a status only moves from PENDING
\* through CONFIRMED to CANCELLED.
THEOREM LaneLockStatusFlow == Spec /\ []OneHandlerPerLane => StatusFlow
<1> DEFINE Inv == TypeOK /\ RowsOfRequests /\ NothingMissed
           Flow == \A a \in Rows :
                     LET from == appointments[a].status
                         to   == appointments'[a].status
                     IN  \/ from = to
                         \/ from = "PENDING" /\ to \in {"CONFIRMED", "CANCELLED"}
                         \/ from = "CONFIRMED" /\ to = "CANCELLED"
<1>1. Init => Inv
  BY BaseInit, NothingMissedInit
<1>2. Inv /\ OneHandlerPerLane /\ [Next]_vars => Inv'
  BY BaseStep, NothingMissedStep
<1>3. Inv /\ [Next]_vars => [Flow]_vars
  <2> SUFFICES ASSUME Inv, [Next]_vars, NEW b \in Rows,
                      appointments'[b].status # appointments[b].status
               PROVE  \/ appointments[b].status = "PENDING"
                           /\ appointments'[b].status \in {"CONFIRMED", "CANCELLED"}
                      \/ appointments[b].status = "CONFIRMED"
                           /\ appointments'[b].status = "CANCELLED"
    BY DEF vars
  <2>1. b \in AppointmentIds /\ appointments[b] \in Appointment
    BY RowsAreAppointments
  <2>2. appointments' # appointments
    OBVIOUS
  <2>3. PICK p \in Requests : \/ \E a \in AppointmentIds : CreateInsert(p, a)
                              \/ ConfirmUpdate(p)
                              \/ CancelUpdate(p)
    BY <2>2, TableSteps
  <2>4. ASSUME NEW a \in AppointmentIds, CreateInsert(p, a)
        PROVE  FALSE
    BY <2>4, InsertAddsRow DEF RowInserted
  <2>5. CASE ConfirmUpdate(p)
    <3>1. appointments' = [appointments EXCEPT
            ![requests[p].id] = [appointments[requests[p].id] EXCEPT
                                   !.status = "CONFIRMED", !.confirmedAt = TRUE]]
      BY <2>5 DEF ConfirmUpdate
    <3>2. b = requests[p].id
      BY <2>1, <3>1 DEF TypeOK
    <3>3. appointments[b].status = "PENDING"
      BY <2>5, <3>2 DEF ConfirmUpdate, NothingMissed
    <3>4. appointments'[b].status = "CONFIRMED"
      BY <2>1, <3>1, <3>2 DEF TypeOK, Appointment
    <3> QED BY <3>3, <3>4
  <2>6. CASE CancelUpdate(p)
    <3>1. appointments' = [appointments EXCEPT
            ![requests[p].id] = [appointments[requests[p].id] EXCEPT !.status = "CANCELLED"]]
      BY <2>6 DEF CancelUpdate
    <3>2. b = requests[p].id
      BY <2>1, <3>1 DEF TypeOK
    <3>3. appointments'[b].status = "CANCELLED"
      BY <2>1, <3>1, <3>2 DEF TypeOK, Appointment
    <3> QED BY <2>1, <3>3 DEF Appointment
  <2> QED BY <2>3, <2>4, <2>5, <2>6
<1> QED BY <1>1, <1>2, <1>3, PTL DEF Spec, StatusFlow

\* So it does with one request at a time.
THEOREM SerialStatusFlow ==
  ASSUME Serial
  PROVE  Spec => StatusFlow
<1>1. OneHandlerPerLane
  BY SerialHandlersHaveTheirLane
<1> QED BY <1>1, LaneLockStatusFlow, PTL

-----------------------------------------------------------------------------
\* The queue of confirmation mails.

\* Initially the queue is empty.
LEMMA QueueInit == Init => QueueInv
  BY DEF Init, QueueInv, MailsCounted, LaterJobsWait

\* The booking system only adds to the queue, and the worker keeps its invariant.
LEMMA QueueStep ==
  ASSUME TypeOK, RowsOfRequests, QueueInv, [Next]_vars
  PROVE  QueueInv'
<1>1. jobs \in Seq(Job)
  BY DEF TypeOK
<1>2. ASSUME NEW p \in Requests, ConfirmEnqueue(p)
      PROVE  QueueInv'
  <2>1. requests[p].id \in AppointmentIds
    BY <1>2, RequestRecords, ShapeOfRequest DEF ConfirmEnqueue, Changing
  <2> QED BY <1>1, <1>2, <2>1, AddKeepsQueue DEF ConfirmEnqueue
<1>3. CASE Mail
  BY <1>1, <1>3, WorkerKeepsQueue DEF Mail
<1>4. CASE UNCHANGED jobs
  BY <1>4 DEF QueueInv, MailsCounted, LaterJobsWait
<1>5. \/ \E p \in Requests : ConfirmEnqueue(p)
      \/ Mail
      \/ UNCHANGED jobs
  BY DEF Next, vars, Catalogue, CreateService, UpdateService, RemoveService,
         StartRequest, StartAs, StartCreate, StartConfirm, StartCancel, Handler, Abort,
         CreateCheckSlot, CreateInsert, CreateRefused, ConfirmUpdate, CancelUpdate,
         BroadcastFindService, BroadcastFindBooked, BroadcastEmit
<1> QED BY <1>2, <1>3, <1>4, <1>5

\* A customer gets at most one mail per run of a job; a completed job has sent its
\* mail; mails leave in the order of the confirmations.
THEOREM MailsOfConfirmations ==
  Spec => [](OneMailPerRun /\ CompletedJobsSentMail /\ FirstConfirmedFirstMailed)
<1> DEFINE Inv == TypeOK /\ RowsOfRequests /\ QueueInv
<1>1. Init => Inv
  BY BaseInit, QueueInit
<1>2. Inv /\ [Next]_vars => Inv'
  BY BaseStep, QueueStep
<1>3. Inv => OneMailPerRun /\ CompletedJobsSentMail /\ FirstConfirmedFirstMailed
  BY DEF QueueInv, MailsCounted, LaterJobsWait, OneMailPerRun, CompletedJobsSentMail,
         FirstConfirmedFirstMailed
<1> QED BY <1>1, <1>2, <1>3, PTL DEF Spec

\* A job the queue counts as completed has sent its mail, whatever stalls came before.
THEOREM CompletedJobsHaveMailed == Spec => []CompletedJobsSentMail
BY MailsOfConfirmations, PTL

\* No job is started while an older one waits, also when the older one has stalled.
THEOREM MailsKeepTheirOrder == Spec => []FirstConfirmedFirstMailed
BY MailsOfConfirmations, PTL

\* The worker changes no job's appointment, and a new job is one more of its own.
LEMMA JobsOfRows ==
  ASSUME jobs \in Seq(Job), NEW a
  PROVE  /\ UNCHANGED jobs \/ Worker => JobsOf(a)' = JobsOf(a)
         /\ \A id \in AppointmentIds : AddJob(id) =>
              /\ JobsOf(id)' = JobsOf(id) \cup {Len(jobs) + 1}
              /\ Len(jobs) + 1 \notin JobsOf(id)
              /\ a # id => JobsOf(a)' = JobsOf(a)
<1>1. UNCHANGED jobs => JobsOf(a)' = JobsOf(a)
  BY DEF JobsOf
<1>2. ASSUME Worker PROVE JobsOf(a)' = JobsOf(a)
  <2>1. jobs' \in Seq(Job) /\ Len(jobs') = Len(jobs)
    BY <1>2, WorkerTypes
  <2>2. DOMAIN jobs' = DOMAIN jobs /\ DOMAIN jobs = 1 .. Len(jobs)
    BY <2>1
  <2>3. \A k \in DOMAIN jobs : jobs'[k].appointmentId = jobs[k].appointmentId
    BY <1>2, <2>2, WorkerTypes
  <2> QED BY <2>2, <2>3 DEF JobsOf
<1>3. ASSUME NEW id \in AppointmentIds, AddJob(id)
      PROVE  /\ JobsOf(id)' = JobsOf(id) \cup {Len(jobs) + 1}
             /\ Len(jobs) + 1 \notin JobsOf(id)
             /\ a # id => JobsOf(a)' = JobsOf(a)
  <2>1. /\ DOMAIN jobs = 1 .. Len(jobs)
        /\ DOMAIN jobs' = 1 .. (Len(jobs) + 1)
        /\ \A k \in DOMAIN jobs : jobs'[k] = jobs[k]
        /\ jobs'[Len(jobs) + 1] = NewJob(id)
    BY <1>3 DEF AddJob
  <2>2. Len(jobs) \in Nat
    OBVIOUS
  <2>3. DOMAIN jobs' = DOMAIN jobs \cup {Len(jobs) + 1} /\ Len(jobs) + 1 \notin DOMAIN jobs
    BY <2>1, <2>2
  <2>4. jobs'[Len(jobs) + 1].appointmentId = id
    BY <2>1 DEF NewJob
  <2> QED BY <2>1, <2>3, <2>4 DEF JobsOf
<1> QED BY <1>1, <1>2, <1>3

\* A step of one handler leaves the others where they are, on the row they work on.
LEMMA OthersStay ==
  ASSUME TypeOK, NEW p \in Requests, StartRequest(p) \/ Handler(p) \/ Abort(p),
         NEW q \in Requests \ {p}
  PROVE  /\ requests'[q].pc = requests[q].pc
         /\ requests[q].pc \in {"confirmUpdate", "enqueue"} => requests'[q].id = requests[q].id
<1>1. ASSUME NEW r, Goto(p, r)
      PROVE  requests'[q] = requests[q]
  BY <1>1 DEF Goto, TypeOK
<1>2. ASSUME NEW a \in AppointmentIds, NEW next \in Request,
             requests' = Overtake(a, [requests EXCEPT ![p] = next])
      PROVE  /\ requests'[q].pc = requests[q].pc
             /\ requests[q].pc \in {"confirmUpdate", "enqueue"} => requests'[q].id = requests[q].id
  <2> DEFINE reqs == [requests EXCEPT ![p] = next]
  <2>1. reqs \in [Requests -> Request] /\ reqs[q] = requests[q]
    BY <1>2 DEF TypeOK
  <2> HIDE DEF reqs
  <2>2. Overtake(a, reqs)[q].pc = reqs[q].pc
    BY <2>1, OvertakeType
  <2>3. reqs[q].pc \in {"confirmUpdate", "enqueue"} => Overtake(a, reqs)[q] = reqs[q]
    BY DEF Overtake
  <2> QED BY <1>2, <2>1, <2>2, <2>3 DEF reqs
<1>3. ASSUME NEW a \in AppointmentIds, CreateInsert(p, a)
      PROVE  /\ requests'[q].pc = requests[q].pc
             /\ requests[q].pc \in {"confirmUpdate", "enqueue"} => requests'[q].id = requests[q].id
  <2>1. AwaitBroadcast(requests[p].serviceId, requests[p].date) \in Request
    BY <1>3, RequestRecords, ShapeOfRequest DEF CreateInsert, Creating
  <2> QED BY <1>2, <1>3, <2>1 DEF CreateInsert
<1>4. ASSUME ConfirmUpdate(p)
      PROVE  /\ requests'[q].pc = requests[q].pc
             /\ requests[q].pc \in {"confirmUpdate", "enqueue"} => requests'[q].id = requests[q].id
  <2> DEFINE next == [requests[p] EXCEPT !.pc = "enqueue"]
  <2>1. next \in Request /\ requests[p].id \in AppointmentIds
    BY <1>4, RequestRecords, ShapeOfRequest DEF ConfirmUpdate, Changing, Request
  <2>2. \/ requests' = Overtake(requests[p].id, [requests EXCEPT ![p] = next])
        \/ Goto(p, next)
    BY <1>4 DEF ConfirmUpdate, Goto
  <2> HIDE DEF next
  <2> QED BY <1>1, <1>2, <2>1, <2>2
<1>5. ASSUME ~(\E a \in AppointmentIds : CreateInsert(p, a)), ~ConfirmUpdate(p)
      PROVE  \E r : Goto(p, r)
  <2>1. ASSUME StartRequest(p) PROVE \E r : Goto(p, r)
    BY <2>1 DEF StartRequest, StartAs, StartCreate, StartConfirm, StartCancel
  <2>2. ASSUME CreateCheckSlot(p) PROVE \E r : Goto(p, r)
    BY <2>2 DEF CreateCheckSlot
  <2>3. ASSUME Handler(p) PROVE \E r : Goto(p, r)
    BY <1>5, <2>2, <2>3 DEF Handler, CreateRefused, ConfirmEnqueue, CancelUpdate,
       BroadcastFindService, BroadcastFindBooked, BroadcastEmit
  <2>4. ASSUME Abort(p) PROVE \E r : Goto(p, r)
    BY <2>4 DEF Abort
  <2> QED BY <2>1, <2>3, <2>4
<1> QED BY <1>1, <1>3, <1>4, <1>5

Confirmed(a) == a \in Rows /\ appointments[a].confirmedAt

ToEnqueue(a) == \E p \in Requests : requests[p].pc = "enqueue" /\ requests[p].id = a

Accounted(a) == Confirmed(a) <=> JobsOf(a) # {} \/ a \in lost \/ ToEnqueue(a)

\* A row's confirmation is set by the update of confirm() and never taken back.
LEMMA Confirmations ==
  ASSUME TypeOK, RowsOfRequests, NEW p \in Requests, NEW b \in AppointmentIds
  PROVE  /\ \A a \in AppointmentIds : CreateInsert(p, a) => (Confirmed(b)' <=> Confirmed(b))
         /\ ConfirmUpdate(p) => (Confirmed(b)' <=> Confirmed(b) \/ b = requests[p].id)
         /\ CancelUpdate(p) => (Confirmed(b)' <=> Confirmed(b))
<1>1. ASSUME NEW a \in AppointmentIds, CreateInsert(p, a)
      PROVE  Confirmed(b)' <=> Confirmed(b)
  <2>1. RowInserted(requests[p], a)
    BY <1>1, InsertAddsRow
  <2>2. NewRow(requests[p]).confirmedAt = FALSE
    BY DEF NewRow
  <2> QED BY <2>1, <2>2 DEF RowInserted, Confirmed
<1>2. ASSUME ConfirmUpdate(p)
      PROVE  Confirmed(b)' <=> Confirmed(b) \/ b = requests[p].id
  <2> DEFINE a == requests[p].id
             new == [appointments[a] EXCEPT !.status = "CONFIRMED", !.confirmedAt = TRUE]
  <2>1. a \in Rows /\ a \in AppointmentIds /\ appointments[a] \in Appointment
    BY <1>2, RowsAreAppointments DEF RowsOfRequests, ConfirmUpdate
  <2>2. Rows' = Rows
    BY <1>2, ConfirmIsStatusUpdate DEF StatusUpdate
  <2>3. new.confirmedAt = TRUE
    BY <2>1 DEF Appointment
  <2>4. appointments' = [appointments EXCEPT ![a] = new]
    BY <1>2 DEF ConfirmUpdate
  <2> HIDE DEF new
  <2>5. appointments'[b] = IF b = a THEN new ELSE appointments[b]
    BY <2>4 DEF TypeOK
  <2> QED BY <2>1, <2>2, <2>3, <2>5 DEF Confirmed
<1>3. ASSUME CancelUpdate(p)
      PROVE  Confirmed(b)' <=> Confirmed(b)
  <2> DEFINE a == requests[p].id
             new == [appointments[a] EXCEPT !.status = "CANCELLED"]
  <2>1. a \in AppointmentIds /\ appointments[a] \in Appointment
    BY <1>3, RowsAreAppointments DEF RowsOfRequests, CancelUpdate
  <2>2. Rows' = Rows
    BY <1>3, CancelIsStatusUpdate DEF StatusUpdate
  <2>3. new.confirmedAt = appointments[a].confirmedAt
    BY <2>1 DEF Appointment
  <2>4. appointments' = [appointments EXCEPT ![a] = new]
    BY <1>3 DEF CancelUpdate
  <2> HIDE DEF new
  <2>5. appointments'[b] = IF b = a THEN new ELSE appointments[b]
    BY <2>4 DEF TypeOK
  <2> QED BY <2>2, <2>3, <2>5 DEF Confirmed
<1> QED BY <1>1, <1>2, <1>3

\* Every step keeps the account of a row's confirmation.
LEMMA AccountedStep ==
  ASSUME TypeOK, RowsOfRequests, [Next]_vars, NEW b \in AppointmentIds, Accounted(b)
  PROVE  Accounted(b)'
<1> USE DEF history
<1>1. jobs \in Seq(Job)
  BY DEF TypeOK
\* Who waits to queue a job for b after a step of p.
<1>2. ASSUME NEW p \in Requests, StartRequest(p) \/ Handler(p) \/ Abort(p)
      PROVE  ToEnqueue(b)' <=>
               \/ requests'[p].pc = "enqueue" /\ requests'[p].id = b
               \/ \E q \in Requests \ {p} : requests[q].pc = "enqueue" /\ requests[q].id = b
  BY <1>2, OthersStay DEF ToEnqueue
<1>3. ASSUME NEW p \in Requests, StartRequest(p) \/ Handler(p) \/ Abort(p),
             requests[p].pc # "enqueue", requests'[p].pc # "enqueue",
             UNCHANGED <<jobs, lost>>, Confirmed(b)' <=> Confirmed(b)
      PROVE  Accounted(b)'
  <2>1. ToEnqueue(b)' <=> ToEnqueue(b)
    BY <1>2, <1>3 DEF ToEnqueue
  <2>2. JobsOf(b)' = JobsOf(b)
    BY <1>1, <1>3, JobsOfRows
  <2> QED BY <1>3, <2>1, <2>2 DEF Accounted
<1>4. ASSUME NEW p \in Requests, NEW r, Goto(p, r), r.pc # "enqueue",
             StartRequest(p) \/ Handler(p) \/ Abort(p), requests[p].pc # "enqueue",
             UNCHANGED <<appointments, jobs, lost>>
      PROVE  Accounted(b)'
  <2>1. requests'[p].pc # "enqueue"
    BY <1>4 DEF Goto, TypeOK
  <2>2. Confirmed(b)' <=> Confirmed(b)
    BY <1>4 DEF Confirmed, Rows
  <2> QED BY <1>3, <1>4, <2>1, <2>2
<1>5. ASSUME NEW p \in Requests, StartRequest(p)
      PROVE  Accounted(b)'
  <2>1. \E r : /\ Goto(p, r) /\ r.pc # "enqueue" /\ requests[p].pc # "enqueue"
               /\ UNCHANGED <<appointments, jobs, lost>>
    <3> DEFINE Moves == \E r : /\ Goto(p, r) /\ r.pc # "enqueue" /\ requests[p].pc # "enqueue"
                               /\ UNCHANGED <<appointments, jobs, lost>>
    <3>1. ASSUME NEW user, NEW s, NEW date, NEW startTime,
                 StartCreate(p, user, s, date, startTime)
          PROVE  Moves
      BY <3>1 DEF StartCreate
    <3>2. ASSUME NEW user, NEW a, StartConfirm(p, user, a)
          PROVE  Moves
      BY <3>2 DEF StartConfirm
    <3>3. ASSUME NEW user, NEW a, StartCancel(p, user, a)
          PROVE  Moves
      BY <3>3 DEF StartCancel
    <3> QED BY <1>5, <3>1, <3>2, <3>3 DEF StartRequest, StartAs
  <2> QED BY <1>4, <1>5, <2>1
<1>6. ASSUME NEW p \in Requests, Handler(p),
             \/ CreateRefused(p) \/ BroadcastFindService(p) \/ BroadcastFindBooked(p)
             \/ BroadcastEmit(p)
      PROVE  Accounted(b)'
  <2>1. \E r : /\ Goto(p, r) /\ r.pc # "enqueue" /\ requests[p].pc # "enqueue"
               /\ UNCHANGED <<appointments, jobs, lost>>
    BY <1>6 DEF CreateRefused, BroadcastFindService, BroadcastFindBooked, BroadcastEmit,
                IdleRequest, EmitSlots
  <2> QED BY <1>4, <1>6, <2>1
<1>7. ASSUME NEW p \in Requests, Handler(p), CreateCheckSlot(p)
      PROVE  Accounted(b)'
  <2>1. [requests[p] EXCEPT !.pc = "insert"].pc = "insert"
    BY <1>7, RequestRecords, ShapeOfRequest DEF CreateCheckSlot, Creating
  <2>2. \E r : /\ Goto(p, r) /\ r.pc # "enqueue" /\ requests[p].pc # "enqueue"
               /\ UNCHANGED <<appointments, jobs, lost>>
    BY <1>7, <2>1 DEF CreateCheckSlot, IdleRequest
  <2> QED BY <1>4, <1>7, <2>2
<1>8. ASSUME NEW p \in Requests, Handler(p), NEW a \in AppointmentIds, CreateInsert(p, a)
      PROVE  Accounted(b)'
  <2> DEFINE next == AwaitBroadcast(requests[p].serviceId, requests[p].date)
  <2>1. next \in Request /\ next.pc = "findService"
    BY <1>8, RequestRecords, ShapeOfRequest DEF CreateInsert, Creating, AwaitBroadcast
  <2>2. requests' = Overtake(a, [requests EXCEPT ![p] = next])
    BY <1>8 DEF CreateInsert
  <2> HIDE DEF next
  <2>3. requests'[p] = next
    BY <2>1, <2>2, OvertakeOthers
  <2>4. requests[p].pc = "insert" /\ UNCHANGED <<jobs, lost>>
    BY <1>8 DEF CreateInsert
  <2> QED BY <1>3, <1>8, <2>1, <2>3, <2>4, Confirmations
<1>9. ASSUME NEW p \in Requests, Handler(p), ConfirmUpdate(p)
      PROVE  Accounted(b)'
  <2> DEFINE next == [requests[p] EXCEPT !.pc = "enqueue"]
  <2>1. next \in Request /\ next.pc = "enqueue" /\ next.id = requests[p].id
    BY <1>9, RequestRecords, ShapeOfRequest DEF ConfirmUpdate, Changing, Request
  <2>2. \/ requests' = Overtake(requests[p].id, [requests EXCEPT ![p] = next])
        \/ Goto(p, next)
    BY <1>9 DEF ConfirmUpdate, Goto
  <2> HIDE DEF next
  <2>3. requests'[p] = next
    BY <2>1, <2>2 DEF Overtake, Goto, TypeOK
  <2>4. ToEnqueue(b)' <=> ToEnqueue(b) \/ b = requests[p].id
    BY <1>2, <1>9, <2>1, <2>3 DEF ToEnqueue, ConfirmUpdate
  <2>5. JobsOf(b)' = JobsOf(b) /\ lost' = lost
    BY <1>1, <1>9, JobsOfRows DEF ConfirmUpdate
  <2>6. Confirmed(b)' <=> Confirmed(b) \/ b = requests[p].id
    BY <1>9, Confirmations
  <2> QED BY <2>4, <2>5, <2>6 DEF Accounted
<1>10. ASSUME NEW p \in Requests, Handler(p), ConfirmEnqueue(p)
       PROVE  Accounted(b)'
  <2> DEFINE a == requests[p].id
  <2>1. requests[p].pc = "enqueue" /\ a \in AppointmentIds
    BY <1>10, RequestRecords, ShapeOfRequest DEF ConfirmEnqueue, Changing
  <2>2. requests'[p].pc = "findService"
    BY <1>10 DEF ConfirmEnqueue, Goto, AwaitBroadcast, TypeOK
  <2>3. AddJob(a) /\ UNCHANGED <<appointments, lost>>
    BY <1>10 DEF ConfirmEnqueue
  <2>4. Confirmed(b)' <=> Confirmed(b)
    BY <2>3 DEF Confirmed, Rows
  <2>5. CASE b = a
    BY <1>1, <2>1, <2>3, <2>4, <2>5, JobsOfRows DEF Accounted, ToEnqueue
  <2>6. CASE b # a
    <3>1. ToEnqueue(b)' <=> ToEnqueue(b)
      BY <1>2, <1>10, <2>2, <2>6 DEF ToEnqueue
    <3>2. JobsOf(b)' = JobsOf(b)
      BY <1>1, <2>1, <2>3, <2>6, JobsOfRows
    <3> QED BY <2>3, <2>4, <3>1, <3>2 DEF Accounted
  <2> QED BY <2>5, <2>6
<1>11. ASSUME NEW p \in Requests, Handler(p), CancelUpdate(p)
       PROVE  Accounted(b)'
  <2>1. /\ requests[p].pc # "enqueue" /\ requests'[p].pc # "enqueue"
        /\ UNCHANGED <<jobs, lost>>
    BY <1>11 DEF CancelUpdate, Goto, AwaitBroadcast, TypeOK
  <2> QED BY <1>3, <1>11, <2>1, Confirmations
<1>12. ASSUME NEW p \in Requests, Abort(p)
       PROVE  Accounted(b)'
  <2>1. /\ requests'[p].pc = "idle"
        /\ UNCHANGED <<appointments, jobs>>
        /\ lost' = IF requests[p].pc = "enqueue" THEN lost \cup {requests[p].id} ELSE lost
    BY <1>12 DEF Abort, Goto, IdleRequest, TypeOK
  <2>2. Confirmed(b)' <=> Confirmed(b)
    BY <2>1 DEF Confirmed, Rows
  <2>3. JobsOf(b)' = JobsOf(b)
    BY <1>1, <2>1, JobsOfRows
  <2>4. ToEnqueue(b)' <=>
          \E q \in Requests \ {p} : requests[q].pc = "enqueue" /\ requests[q].id = b
    BY <1>2, <1>12, <2>1
  <2>5. b \in lost' \/ ToEnqueue(b)' <=> b \in lost \/ ToEnqueue(b)
    BY <2>1, <2>4 DEF ToEnqueue
  <2> QED BY <2>2, <2>3, <2>5 DEF Accounted
<1>13. CASE Catalogue \/ Mail \/ UNCHANGED vars
  <2>1. UNCHANGED <<appointments, requests, lost>> /\ (UNCHANGED jobs \/ Worker)
    BY <1>13 DEF Catalogue, CreateService, UpdateService, RemoveService, Mail, vars
  <2>2. JobsOf(b)' = JobsOf(b)
    BY <1>1, <2>1, JobsOfRows
  <2> QED BY <2>1, <2>2 DEF Accounted, Confirmed, Rows, ToEnqueue
<1> QED BY <1>5, <1>6, <1>7, <1>8, <1>9, <1>10, <1>11, <1>12, <1>13 DEF Next, Handler

\* A mail job exists for confirmed rows only, and a confirmed row has one, is about to
\* get one, or lost it to a handler that stopped between the update and queue.add.
THEOREM ConfirmationsAreQueued == Spec => []ConfirmedRowsAreQueued
<1> DEFINE Inv == TypeOK /\ RowsOfRequests /\ \A b \in AppointmentIds : Accounted(b)
<1>1. Init => Inv
  BY BaseInit DEF Init, Accounted, Confirmed, Rows, JobsOf, ToEnqueue, IdleRequest
<1>2. Inv /\ [Next]_vars => Inv'
  BY BaseStep, AccountedStep
<1>3. Inv => ConfirmedRowsAreQueued
  BY DEF Accounted, Confirmed, ToEnqueue, ConfirmedRowsAreQueued
<1> QED BY <1>1, <1>2, <1>3, PTL DEF Spec

PendingRowsUnconfirmed == \A a \in Rows : appointments[a].status = "PENDING" => ~Confirmed(a)

\* A row that is PENDING has never been confirmed: no step sets a status back.
LEMMA PendingStep ==
  ASSUME TypeOK, RowsOfRequests, PendingRowsUnconfirmed, [Next]_vars
  PROVE  PendingRowsUnconfirmed'
<1> USE DEF history
<1>1. ASSUME NEW p \in Requests, NEW a \in AppointmentIds, CreateInsert(p, a)
      PROVE  PendingRowsUnconfirmed'
  <2>1. RowInserted(requests[p], a)
    BY <1>1, InsertAddsRow
  <2> QED BY <2>1 DEF RowInserted, NewRow, PendingRowsUnconfirmed, Confirmed
<1>2. ASSUME NEW p \in Requests, ConfirmUpdate(p)
      PROVE  PendingRowsUnconfirmed'
  <2> DEFINE new == [appointments[requests[p].id] EXCEPT !.status = "CONFIRMED", !.confirmedAt = TRUE]
  <2>1. requests[p].id \in Rows /\ appointments[requests[p].id] \in Appointment
    BY <1>2, RowsAreAppointments DEF RowsOfRequests, ConfirmUpdate
  <2>2. Rows' = Rows
    BY <1>2, ConfirmIsStatusUpdate DEF StatusUpdate
  <2>3. new.status = "CONFIRMED" /\ appointments' = [appointments EXCEPT ![requests[p].id] = new]
    BY <1>2, <2>1 DEF ConfirmUpdate, Appointment
  <2> HIDE DEF new
  <2> QED BY <2>1, <2>2, <2>3 DEF PendingRowsUnconfirmed, Confirmed, TypeOK, Rows
<1>3. ASSUME NEW p \in Requests, CancelUpdate(p)
      PROVE  PendingRowsUnconfirmed'
  <2> DEFINE new == [appointments[requests[p].id] EXCEPT !.status = "CANCELLED"]
  <2>1. requests[p].id \in Rows /\ appointments[requests[p].id] \in Appointment
    BY <1>3, RowsAreAppointments DEF RowsOfRequests, CancelUpdate
  <2>2. Rows' = Rows
    BY <1>3, CancelIsStatusUpdate DEF StatusUpdate
  <2>3. new.status = "CANCELLED" /\ appointments' = [appointments EXCEPT ![requests[p].id] = new]
    BY <1>3, <2>1 DEF CancelUpdate, Appointment
  <2> HIDE DEF new
  <2> QED BY <2>1, <2>2, <2>3 DEF PendingRowsUnconfirmed, Confirmed, TypeOK, Rows
<1>4. CASE UNCHANGED appointments
  BY <1>4 DEF PendingRowsUnconfirmed, Confirmed, Rows
<1> QED BY <1>1, <1>2, <1>3, <1>4, TableSteps

\* The handlers that are confirming a row, of which each may still add a job.
Confirming(a) ==
  { p \in Requests : requests[p].pc \in {"confirmUpdate", "enqueue"} /\ requests[p].id = a }

JobsLeft(a) == Cardinality(JobsOf(a)) + Cardinality(Confirming(a)) <= Cardinality(Requests)

\* Only the start of a confirm adds to the handlers that are confirming a row, and
\* the call of queue.add takes its handler away.
LEMMA ConfirmingStep ==
  ASSUME TypeOK, NEW p \in Requests, StartRequest(p) \/ Handler(p) \/ Abort(p),
         NEW b \in AppointmentIds
  PROVE  /\ \/ Confirming(b)' \subseteq Confirming(b)
            \/ \E user \in Users : StartConfirm(p, user, b)
         /\ ConfirmEnqueue(p) => Confirming(b)' \subseteq Confirming(b) \ {p}
<1> USE DEF history
<1> DEFINE Busy == requests'[p].pc \in {"confirmUpdate", "enqueue"} /\ requests'[p].id = b
<1>1. Confirming(b)' \subseteq (Confirming(b) \ {p}) \cup (IF Busy THEN {p} ELSE {})
  BY OthersStay DEF Confirming
<1>2. ASSUME NEW r, Goto(p, r), r.pc \notin {"confirmUpdate", "enqueue"}
      PROVE  ~Busy
  BY <1>2 DEF Goto, TypeOK
<1>3. ASSUME StartRequest(p), Busy
      PROVE  \E user \in Users : StartConfirm(p, user, b)
  <2>1. PICK user \in Users : StartAs(p, user)
    BY <1>3 DEF StartRequest
  <2>2. ASSUME NEW s, NEW date, NEW startTime, StartCreate(p, user, s, date, startTime)
        PROVE  FALSE
    BY <1>2, <1>3, <2>2 DEF StartCreate
  <2>3. ASSUME NEW a, StartCancel(p, user, a)
        PROVE  FALSE
    BY <1>2, <1>3, <2>3 DEF StartCancel
  <2>4. PICK a \in AppointmentIds : StartConfirm(p, user, a)
    BY <2>1, <2>2, <2>3 DEF StartAs
  <2>5. requests'[p].id = a
    BY <2>4 DEF StartConfirm, Goto, TypeOK
  <2> QED BY <1>3, <2>4, <2>5
<1>4. ASSUME \/ CreateRefused(p) \/ ConfirmEnqueue(p) \/ CancelUpdate(p)
             \/ BroadcastFindService(p) \/ BroadcastFindBooked(p) \/ BroadcastEmit(p)
             \/ Abort(p)
      PROVE  ~Busy
  <2>1. \E r : Goto(p, r) /\ r.pc \in {"idle", "findService", "findBooked", "emit"}
    BY <1>4 DEF CreateRefused, ConfirmEnqueue, CancelUpdate, BroadcastFindService,
                BroadcastFindBooked, BroadcastEmit, Abort, IdleRequest, AwaitBroadcast, EmitSlots
  <2> QED BY <1>2, <2>1
<1>5. ASSUME CreateCheckSlot(p)
      PROVE  ~Busy
  <2>1. [requests[p] EXCEPT !.pc = "insert"].pc = "insert"
    BY <1>5, RequestRecords, ShapeOfRequest DEF CreateCheckSlot, Creating
  <2>2. \/ Goto(p, [requests[p] EXCEPT !.pc = "insert"])
        \/ Goto(p, IdleRequest)
    BY <1>5 DEF CreateCheckSlot
  <2> QED BY <1>2, <2>1, <2>2 DEF IdleRequest
<1>6. ASSUME NEW a \in AppointmentIds, CreateInsert(p, a)
      PROVE  ~Busy
  <2> DEFINE next == AwaitBroadcast(requests[p].serviceId, requests[p].date)
  <2>1. next \in Request /\ next.pc = "findService"
    BY <1>6, RequestRecords, ShapeOfRequest DEF CreateInsert, Creating, AwaitBroadcast
  <2>2. requests' = Overtake(a, [requests EXCEPT ![p] = next])
    BY <1>6 DEF CreateInsert
  <2> HIDE DEF next
  <2>3. requests'[p] = next
    BY <2>1, <2>2, OvertakeOthers
  <2> QED BY <2>1, <2>3
<1>7. ASSUME ConfirmUpdate(p), Busy
      PROVE  p \in Confirming(b)
  <2> DEFINE next == [requests[p] EXCEPT !.pc = "enqueue"]
  <2>1. next \in Request /\ next.pc = "enqueue" /\ next.id = requests[p].id
    BY <1>7, RequestRecords, ShapeOfRequest DEF ConfirmUpdate, Changing, Request
  <2>2. \/ requests' = Overtake(requests[p].id, [requests EXCEPT ![p] = next])
        \/ Goto(p, next)
    BY <1>7 DEF ConfirmUpdate, Goto
  <2> HIDE DEF next
  <2>3. requests'[p] = next
    BY <2>1, <2>2 DEF Overtake, Goto, TypeOK
  <2> QED BY <1>7, <2>1, <2>3 DEF ConfirmUpdate, Confirming
<1>8. ConfirmEnqueue(p) => Confirming(b)' \subseteq Confirming(b) \ {p}
  BY <1>1, <1>4
<1>9. ASSUME ~(\E user \in Users : StartConfirm(p, user, b))
      PROVE  Confirming(b)' \subseteq Confirming(b)
  <2>1. ~Busy \/ p \in Confirming(b)
    BY <1>3, <1>4, <1>5, <1>6, <1>7, <1>9 DEF Handler
  <2> QED BY <1>1, <2>1
<1> QED BY <1>8, <1>9

\* The jobs of a row and the handlers that may add one are together no more than
\* there are handlers: only of a PENDING row, which has no job, can a confirm start.
LEMMA JobsLeftStep ==
  ASSUME IsFiniteSet(Requests), TypeOK, RowsOfRequests, PendingRowsUnconfirmed, [Next]_vars,
         NEW b \in AppointmentIds, Accounted(b), JobsLeft(b)
  PROVE  JobsLeft(b)'
<1> USE DEF history
<1>1. /\ jobs \in Seq(Job) /\ Len(jobs) \in Nat /\ DOMAIN jobs = 1 .. Len(jobs)
      /\ IsFiniteSet(JobsOf(b)) /\ Cardinality(JobsOf(b)) \in Nat
  <2>1. jobs \in Seq(Job) /\ Len(jobs) \in Nat /\ DOMAIN jobs = 1 .. Len(jobs)
    BY DEF TypeOK
  <2>2. IsFiniteSet(1 .. Len(jobs))
    BY <2>1, FS_Interval
  <2>3. JobsOf(b) \subseteq 1 .. Len(jobs)
    BY <2>1 DEF JobsOf
  <2> QED BY <2>1, <2>2, <2>3, FS_Subset, FS_CardinalityType
<1>2. \A P \in SUBSET Requests :
        IsFiniteSet(P) /\ Cardinality(P) \in Nat /\ Cardinality(P) <= Cardinality(Requests)
  BY FS_Subset, FS_CardinalityType
<1>3. Cardinality(Requests) \in Nat
  BY FS_CardinalityType
<1>4. Confirming(b) \subseteq Requests /\ Confirming(b)' \subseteq Requests
  BY DEF Confirming
<1>5. ASSUME JobsOf(b)' = JobsOf(b), Confirming(b)' \subseteq Confirming(b)
      PROVE  JobsLeft(b)'
  <2>1. Cardinality(Confirming(b)') <= Cardinality(Confirming(b))
    BY <1>2, <1>4, <1>5, FS_Subset
  <2>2. Cardinality(Confirming(b)) \in Nat /\ Cardinality(Confirming(b)') \in Nat
    BY <1>2, <1>4
  <2> QED BY <1>1, <1>3, <1>5, <2>1, <2>2 DEF JobsLeft
<1>6. ASSUME NEW p \in Requests, NEW user \in Users, StartConfirm(p, user, b)
      PROVE  JobsLeft(b)'
  <2>1. JobsOf(b)' = JobsOf(b)
    BY <1>1, <1>6, JobsOfRows DEF StartConfirm
  <2>2. JobsOf(b) = {}
    BY <1>6 DEF StartConfirm, PendingRowsUnconfirmed, Accounted
  <2>3. Cardinality(JobsOf(b)') = 0
    BY <2>1, <2>2, FS_EmptySet
  <2> QED BY <1>2, <1>3, <1>4, <2>3 DEF JobsLeft
<1>7. ASSUME NEW p \in Requests, Handler(p), ConfirmEnqueue(p)
      PROVE  JobsLeft(b)'
  <2>1. Confirming(b)' \subseteq Confirming(b) \ {p}
    BY <1>7, ConfirmingStep
  <2>2. AddJob(requests[p].id) /\ requests[p].id \in AppointmentIds
    BY <1>7, RequestRecords, ShapeOfRequest DEF ConfirmEnqueue, Changing
  <2>3. CASE b = requests[p].id
    <3>1. /\ JobsOf(b)' = JobsOf(b) \cup {Len(jobs) + 1}
          /\ Len(jobs) + 1 \notin JobsOf(b)
      BY <1>1, <2>2, <2>3, JobsOfRows
    <3>2. Cardinality(JobsOf(b)') = Cardinality(JobsOf(b)) + 1
      BY <1>1, <3>1, FS_AddElement
    <3>3. p \in Confirming(b)
      BY <1>7, <2>3 DEF ConfirmEnqueue, Confirming
    <3>4. Cardinality(Confirming(b) \ {p}) = Cardinality(Confirming(b)) - 1
      BY <1>2, <1>4, <3>3, FS_RemoveElement
    <3>5. Cardinality(Confirming(b)') <= Cardinality(Confirming(b) \ {p})
      BY <1>2, <1>4, <2>1, FS_Subset
    <3>6. Cardinality(Confirming(b)) \in Nat /\ Cardinality(Confirming(b)') \in Nat
      BY <1>2, <1>4
    <3> QED BY <1>1, <1>3, <3>2, <3>4, <3>5, <3>6 DEF JobsLeft
  <2>4. CASE b # requests[p].id
    <3>1. JobsOf(b)' = JobsOf(b)
      BY <1>1, <2>2, <2>4, JobsOfRows
    <3> QED BY <1>5, <2>1, <3>1
  <2> QED BY <2>3, <2>4
<1>8. ASSUME NEW p \in Requests, StartRequest(p) \/ Handler(p) \/ Abort(p),
             UNCHANGED jobs
      PROVE  JobsLeft(b)'
  <2>1. JobsOf(b)' = JobsOf(b)
    BY <1>1, <1>8, JobsOfRows
  <2> QED BY <1>5, <1>6, <1>8, <2>1, ConfirmingStep
<1>9. ASSUME NEW p \in Requests, StartRequest(p) \/ Handler(p) \/ Abort(p)
      PROVE  UNCHANGED jobs \/ (Handler(p) /\ ConfirmEnqueue(p))
  BY <1>9 DEF StartRequest, StartAs, StartCreate, StartConfirm, StartCancel, Handler, Abort,
       CreateCheckSlot, CreateInsert, CreateRefused, ConfirmUpdate, CancelUpdate,
       BroadcastFindService, BroadcastFindBooked, BroadcastEmit
<1>10. CASE Catalogue \/ Mail \/ UNCHANGED vars
  <2>1. UNCHANGED requests /\ (UNCHANGED jobs \/ Worker)
    BY <1>10 DEF Catalogue, CreateService, UpdateService, RemoveService, Mail, vars
  <2>2. JobsOf(b)' = JobsOf(b)
    BY <1>1, <2>1, JobsOfRows
  <2> QED BY <1>5, <2>1, <2>2 DEF Confirming
<1> QED BY <1>7, <1>8, <1>9, <1>10 DEF Next

\* The jobs of one appointment are at most as many as the handlers that could have
\* read PENDING at once.
THEOREM DuplicatesAreBounded ==
  ASSUME IsFiniteSet(Requests)
  PROVE  Spec => []DuplicateJobsBounded
<1> DEFINE Inv == /\ TypeOK /\ RowsOfRequests /\ PendingRowsUnconfirmed
                  /\ \A b \in AppointmentIds : Accounted(b) /\ JobsLeft(b)
<1>1. Init => Inv
  <2> SUFFICES ASSUME Init PROVE Inv
    OBVIOUS
  <2>1. TypeOK /\ RowsOfRequests /\ PendingRowsUnconfirmed
    BY BaseInit DEF Init, PendingRowsUnconfirmed, Rows
  <2>2. ASSUME NEW b \in AppointmentIds
        PROVE  JobsOf(b) = {} /\ Confirming(b) = {} /\ Accounted(b)
    BY DEF Init, Accounted, Confirmed, Rows, JobsOf, ToEnqueue, Confirming, IdleRequest
  <2>3. ASSUME NEW b \in AppointmentIds
        PROVE  JobsLeft(b)
    <3>1. Cardinality(JobsOf(b)) = 0 /\ Cardinality(Confirming(b)) = 0
      BY <2>2, FS_EmptySet
    <3>2. Cardinality(Requests) \in Nat
      BY FS_CardinalityType
    <3> QED BY <3>1, <3>2 DEF JobsLeft
  <2> QED BY <2>1, <2>2, <2>3
<1>2. Inv /\ [Next]_vars => Inv'
  BY BaseStep, PendingStep, AccountedStep, JobsLeftStep
<1>3. Inv => DuplicateJobsBounded
  <2> SUFFICES ASSUME Inv, NEW b \in AppointmentIds
               PROVE  Cardinality(JobsOf(b)) <= Cardinality(Requests)
    BY DEF DuplicateJobsBounded
  <2>1. /\ Cardinality(JobsOf(b)) \in Nat
    <3>1. IsFiniteSet(1 .. Len(jobs)) /\ DOMAIN jobs = 1 .. Len(jobs)
      BY FS_Interval DEF TypeOK
    <3>2. JobsOf(b) \subseteq 1 .. Len(jobs)
      BY <3>1 DEF JobsOf
    <3> QED BY <3>1, <3>2, FS_Subset, FS_CardinalityType
  <2>2. Cardinality(Confirming(b)) \in Nat
    BY FS_Subset, FS_CardinalityType DEF Confirming
  <2>3. Cardinality(Requests) \in Nat
    BY FS_CardinalityType
  <2> QED BY <2>1, <2>2, <2>3 DEF JobsLeft
<1> QED BY <1>1, <1>2, <1>3, PTL DEF Spec

-----------------------------------------------------------------------------
\* With one handler on each lane, at most one job of a row, and none yet while the row
\* is being confirmed.
JobAtMostOnce(b) ==
  /\ \A j, k \in JobsOf(b) : j = k
  /\ Confirming(b) # {} => JobsOf(b) = {}

\* A confirm starts only for a row without jobs, and nobody else confirms that row.
LEMMA JobAtMostOnceStep ==
  ASSUME OneHandlerPerLane, TypeOK, RowsOfRequests, PendingRowsUnconfirmed, [Next]_vars,
         NEW b \in AppointmentIds, Accounted(b), JobAtMostOnce(b)
  PROVE  JobAtMostOnce(b)'
<1> USE DEF history
<1>1. jobs \in Seq(Job)
  BY DEF TypeOK
<1>2. ASSUME JobsOf(b)' = JobsOf(b), Confirming(b)' \subseteq Confirming(b)
      PROVE  JobAtMostOnce(b)'
  BY <1>2 DEF JobAtMostOnce
<1>3. ASSUME NEW p \in Requests, NEW user \in Users, StartConfirm(p, user, b)
      PROVE  JobAtMostOnce(b)'
  <2>1. JobsOf(b)' = JobsOf(b)
    BY <1>1, <1>3, JobsOfRows DEF StartConfirm
  <2>2. JobsOf(b) = {}
    BY <1>3 DEF StartConfirm, PendingRowsUnconfirmed, Accounted
  <2> QED BY <2>1, <2>2 DEF JobAtMostOnce
<1>4. ASSUME NEW p \in Requests, Handler(p), ConfirmEnqueue(p)
      PROVE  JobAtMostOnce(b)'
  <2>1. Confirming(b)' \subseteq Confirming(b) \ {p}
    BY <1>4, ConfirmingStep
  <2>2. AddJob(requests[p].id) /\ requests[p].id \in AppointmentIds
    BY <1>4, RequestRecords, ShapeOfRequest DEF ConfirmEnqueue, Changing
  <2>3. CASE b = requests[p].id
    <3>1. JobsOf(b)' = JobsOf(b) \cup {Len(jobs) + 1}
      BY <1>1, <2>2, <2>3, JobsOfRows
    <3>2. p \in Confirming(b)
      BY <1>4, <2>3 DEF ConfirmEnqueue, Confirming
    <3>3. \A q \in Confirming(b) : q = p
      BY <3>2 DEF Confirming, OneHandlerPerLane, LaneAtWork
    <3>4. Confirming(b)' = {} /\ JobsOf(b)' = {Len(jobs) + 1}
      BY <2>1, <3>1, <3>2, <3>3 DEF JobAtMostOnce
    <3> QED BY <3>4 DEF JobAtMostOnce
  <2>4. CASE b # requests[p].id
    <3>1. JobsOf(b)' = JobsOf(b)
      BY <1>1, <2>2, <2>4, JobsOfRows
    <3> QED BY <1>2, <2>1, <3>1
  <2> QED BY <2>3, <2>4
<1>5. ASSUME NEW p \in Requests, StartRequest(p) \/ Handler(p) \/ Abort(p), UNCHANGED jobs
      PROVE  JobAtMostOnce(b)'
  <2>1. JobsOf(b)' = JobsOf(b)
    BY <1>1, <1>5, JobsOfRows
  <2> QED BY <1>2, <1>3, <1>5, <2>1, ConfirmingStep
<1>6. ASSUME NEW p \in Requests, StartRequest(p) \/ Handler(p) \/ Abort(p)
      PROVE  UNCHANGED jobs \/ (Handler(p) /\ ConfirmEnqueue(p))
  BY <1>6 DEF StartRequest, StartAs, StartCreate, StartConfirm, StartCancel, Handler, Abort,
       CreateCheckSlot, CreateInsert, CreateRefused, ConfirmUpdate, CancelUpdate,
       BroadcastFindService, BroadcastFindBooked, BroadcastEmit
<1>7. CASE Catalogue \/ Mail \/ UNCHANGED vars
  <2>1. UNCHANGED requests /\ (UNCHANGED jobs \/ Worker)
    BY <1>7 DEF Catalogue, CreateService, UpdateService, RemoveService, Mail, vars
  <2>2. JobsOf(b)' = JobsOf(b)
    BY <1>1, <2>1, JobsOfRows
  <2> QED BY <1>2, <2>1, <2>2 DEF Confirming
<1> QED BY <1>4, <1>5, <1>6, <1>7 DEF Next

\* With one handler at a time on each service and day a confirmation queues one mail,
\* for any number of handlers.
THEOREM LaneLockOneJob == Spec /\ []OneHandlerPerLane => []OneJobPerAppointment
<1> DEFINE Inv == /\ TypeOK /\ RowsOfRequests /\ PendingRowsUnconfirmed
                  /\ \A b \in AppointmentIds : Accounted(b) /\ JobAtMostOnce(b)
<1>1. Init => Inv
  <2> SUFFICES ASSUME Init PROVE Inv
    OBVIOUS
  <2>1. TypeOK /\ RowsOfRequests /\ PendingRowsUnconfirmed
    BY BaseInit DEF Init, PendingRowsUnconfirmed, Rows
  <2>2. ASSUME NEW b \in AppointmentIds
        PROVE  Accounted(b) /\ JobAtMostOnce(b)
    BY DEF Init, Accounted, Confirmed, Rows, JobsOf, ToEnqueue, IdleRequest, JobAtMostOnce
  <2> QED BY <2>1, <2>2
<1>2. Inv /\ OneHandlerPerLane /\ [Next]_vars => Inv'
  BY BaseStep, PendingStep, AccountedStep, JobAtMostOnceStep
<1>3. Inv => OneJobPerAppointment
  <2> SUFFICES ASSUME Inv, NEW b \in AppointmentIds
               PROVE  Cardinality(JobsOf(b)) <= 1
    BY DEF OneJobPerAppointment
  <2>1. CASE JobsOf(b) = {}
    BY <2>1, FS_EmptySet
  <2>2. CASE JobsOf(b) # {}
    <3>1. PICK j \in JobsOf(b) : JobsOf(b) = {j}
      BY <2>2 DEF JobAtMostOnce
    <3>2. Cardinality(JobsOf(b)) = 1
      BY <3>1, FS_Singleton
    <3> QED BY <3>2
  <2> QED BY <2>1, <2>2
<1> QED BY <1>1, <1>2, <1>3, PTL DEF Spec

\* So it does with one request at a time.
THEOREM SerialOneJob ==
  ASSUME Serial
  PROVE  Spec => []OneJobPerAppointment
<1>1. OneHandlerPerLane
  BY SerialHandlersHaveTheirLane
<1> QED BY <1>1, LaneLockOneJob, PTL

-----------------------------------------------------------------------------
\* Rows and their services.

\* A booking never outlives its service, although the create read the service two
\* awaits before its insert.
THEOREM BookingsHaveServices == Spec => []ServiceOfEveryBooking
<1> USE DEF history
<1> DEFINE Inv == TypeOK /\ RowsOfRequests /\ ServiceOfEveryBooking
<1>1. Init => Inv
  BY BaseInit DEF Init, ServiceOfEveryBooking, Rows
<1>2. Inv /\ [Next]_vars => Inv'
  <2> SUFFICES ASSUME Inv, [Next]_vars PROVE ServiceOfEveryBooking'
    BY BaseStep
  <2>1. ASSUME NEW p \in Requests, NEW a \in AppointmentIds, CreateInsert(p, a)
        PROVE  ServiceOfEveryBooking'
    <3>1. RowInserted(requests[p], a)
      BY <2>1, InsertAddsRow
    <3> QED BY <2>1, <3>1 DEF CreateInsert, InsertAccepted, RowInserted, NewRow,
                              ServiceOfEveryBooking
  <2>2. ASSUME NEW p \in Requests, ConfirmUpdate(p) \/ CancelUpdate(p)
        PROVE  ServiceOfEveryBooking'
    <3>1. StatusUpdate(requests[p].id) /\ UNCHANGED services
      BY <2>2, ConfirmIsStatusUpdate, CancelIsStatusUpdate DEF ConfirmUpdate, CancelUpdate
    <3> QED BY <3>1 DEF StatusUpdate, ServiceOfEveryBooking
  <2>3. CASE Catalogue
    <3>1. PICK s \in ServiceIds :
            \/ \E duration \in Durations, isActive \in BOOLEAN :
                 CreateService(s, duration, isActive) \/ UpdateService(s, duration, isActive)
            \/ RemoveService(s)
      BY <2>3 DEF Catalogue
    <3>2. ASSUME NEW a \in Rows
          PROVE  services'[appointments[a].serviceId].state = "live"
      <4>1. /\ services[appointments[a].serviceId].state = "live"
            /\ appointments[a].serviceId \in ServiceIds
        BY RowsAreAppointments DEF ServiceOfEveryBooking, Appointment
      <4>2. CASE RemoveService(s)
        BY <4>1, <4>2 DEF RemoveService, TypeOK
      <4>3. ASSUME NEW duration, NEW isActive, CreateService(s, duration, isActive)
            PROVE  services'[appointments[a].serviceId].state = "live"
        BY <4>1, <4>3 DEF CreateService, TypeOK
      <4>4. ASSUME NEW duration, NEW isActive, UpdateService(s, duration, isActive)
            PROVE  services'[appointments[a].serviceId].state = "live"
        <5>1. services[s] \in [state : {"live"}, isActive : BOOLEAN, duration : Durations]
          BY <4>4 DEF UpdateService, TypeOK, Service
        <5>2. [services[s] EXCEPT !.isActive = isActive, !.duration = duration].state = "live"
          BY <5>1
        <5> QED BY <4>1, <4>4, <5>2 DEF UpdateService, TypeOK
      <4> QED BY <3>1, <4>2, <4>3, <4>4
    <3>3. UNCHANGED appointments
      BY <2>3 DEF Catalogue, CreateService, UpdateService, RemoveService
    <3> QED BY <3>2, <3>3 DEF ServiceOfEveryBooking, Rows
  <2>4. CASE UNCHANGED <<services, appointments>>
    BY <2>4 DEF ServiceOfEveryBooking, Rows
  <2>5. \/ \E p \in Requests : \/ \E a \in AppointmentIds : CreateInsert(p, a)
                               \/ ConfirmUpdate(p) \/ CancelUpdate(p)
        \/ Catalogue
        \/ UNCHANGED <<services, appointments>>
    BY DEF Next, vars, Mail, StartRequest, StartAs, StartCreate, StartConfirm, StartCancel, Handler,
           Abort, CreateCheckSlot, CreateRefused, ConfirmEnqueue,
           BroadcastFindService, BroadcastFindBooked, BroadcastEmit
  <2> QED BY <2>1, <2>2, <2>3, <2>4, <2>5
<1>3. Inv => ServiceOfEveryBooking
  OBVIOUS
<1> QED BY <1>1, <1>2, <1>3, PTL DEF Spec

\* What a create has checked is what it will insert.
CheckedTermsAreLegal ==
  \A p \in Requests : requests[p].pc = "insert" =>
    ValidateSlot(requests[p].startTime, requests[p].duration, {}) = "valid"

\* A visit that has passed its check stays legal: no step changes its terms.
LEMMA TermsStep ==
  ASSUME TypeOK, RowsOfRequests, CheckedTermsAreLegal, [Next]_vars
  PROVE  CheckedTermsAreLegal'
<1> USE DEF history
<1>1. ASSUME NEW p \in Requests, NEW r, Goto(p, r),
             r.pc = "insert" => ValidateSlot(r.startTime, r.duration, {}) = "valid"
      PROVE  CheckedTermsAreLegal'
  BY <1>1 DEF CheckedTermsAreLegal, Goto, TypeOK
<1>2. ASSUME NEW p \in Requests, CreateCheckSlot(p)
      PROVE  CheckedTermsAreLegal'
  <2> DEFINE r == requests[p]
             next == [r EXCEPT !.pc = "insert"]
  <2>1. r \in Creating
    BY <1>2, RequestRecords, ShapeOfRequest DEF CreateCheckSlot
  <2>2. next.startTime = r.startTime /\ next.duration = r.duration
    BY <2>1 DEF Creating
  <2>3. CASE Goto(p, IdleRequest)
    BY <1>1, <2>3 DEF IdleRequest
  <2>4. CASE /\ Goto(p, next)
             /\ ValidateSlot(r.startTime, r.duration, BookedRanges(r.serviceId, r.date)) = "valid"
    <3>1. ValidateSlot(next.startTime, next.duration, {}) = "valid"
      BY <2>2, <2>4, ValidSlotsAreFree
    <3> HIDE DEF next
    <3> QED BY <1>1, <2>4, <3>1
  <2> QED BY <1>2, <2>3, <2>4 DEF CreateCheckSlot
<1>3. ASSUME NEW p \in Requests, NEW a \in AppointmentIds, NEW next \in Request,
             next.pc # "insert", next.pc # "emit",
             requests' = Overtake(a, [requests EXCEPT ![p] = next])
      PROVE  CheckedTermsAreLegal'
  <2> SUFFICES ASSUME NEW q \in Requests, requests'[q].pc = "insert"
               PROVE  ValidateSlot(requests'[q].startTime, requests'[q].duration, {}) = "valid"
    BY DEF CheckedTermsAreLegal
  <2>1. requests'[p] = next
    BY <1>3, OvertakeOthers
  <2>2. /\ q # p
        /\ requests'[q] = IF requests[q].pc \in {"insert", "emit"}
                          THEN [requests[q] EXCEPT !.missed = @ \cup {a}]
                          ELSE requests[q]
    BY <1>3, <2>1, OvertakeOthers
  <2>3. CASE requests[q].pc \in {"insert", "emit"}
    <3>1. StillReads(q, a)
      BY <2>2, <2>3, NotingKeepsTheRest
    <3> QED BY <3>1 DEF StillReads, CheckedTermsAreLegal
  <2>4. CASE requests[q].pc \notin {"insert", "emit"}
    BY <2>2, <2>4
  <2> QED BY <2>3, <2>4
<1>4. ASSUME NEW p \in Requests, NEW a \in AppointmentIds, CreateInsert(p, a)
      PROVE  CheckedTermsAreLegal'
  <2> DEFINE next == AwaitBroadcast(requests[p].serviceId, requests[p].date)
  <2>1. next \in Request /\ next.pc = "findService"
    BY <1>4, RequestRecords, ShapeOfRequest DEF CreateInsert, Creating, AwaitBroadcast
  <2>2. requests' = Overtake(a, [requests EXCEPT ![p] = next])
    BY <1>4 DEF CreateInsert
  <2> HIDE DEF next
  <2> QED BY <1>3, <2>1, <2>2
<1>5. ASSUME NEW p \in Requests, ConfirmUpdate(p)
      PROVE  CheckedTermsAreLegal'
  <2> DEFINE next == [requests[p] EXCEPT !.pc = "enqueue"]
  <2>1. requests[p] \in Changing /\ requests[p].id \in AppointmentIds
    BY <1>5, RequestRecords, ShapeOfRequest DEF ConfirmUpdate, Changing
  <2>2. next \in Request /\ next.pc = "enqueue"
    BY <2>1 DEF Changing, Request
  <2>3. \/ requests' = Overtake(requests[p].id, [requests EXCEPT ![p] = next])
        \/ Goto(p, next)
    BY <1>5 DEF ConfirmUpdate, Goto
  <2> HIDE DEF next
  <2> QED BY <1>1, <1>3, <2>1, <2>2, <2>3
<1>6. ASSUME NEW p \in Requests,
             \/ CreateRefused(p) \/ ConfirmEnqueue(p) \/ CancelUpdate(p)
             \/ BroadcastFindService(p) \/ BroadcastFindBooked(p) \/ BroadcastEmit(p)
             \/ Abort(p)
      PROVE  CheckedTermsAreLegal'
  <2>1. PICK r : Goto(p, r) /\ r.pc \in {"idle", "findService", "findBooked", "emit"}
    BY <1>6 DEF CreateRefused, ConfirmEnqueue, CancelUpdate, BroadcastFindService,
                BroadcastFindBooked, BroadcastEmit, Abort, IdleRequest, AwaitBroadcast, EmitSlots
  <2> QED BY <1>1, <2>1
<1>7. ASSUME NEW p \in Requests, StartRequest(p)
      PROVE  CheckedTermsAreLegal'
  <2>1. ASSUME NEW user, NEW s, NEW date, NEW startTime,
               StartCreate(p, user, s, date, startTime)
        PROVE  CheckedTermsAreLegal'
    BY <1>1, <2>1 DEF StartCreate
  <2>2. ASSUME NEW user, NEW a, StartConfirm(p, user, a)
        PROVE  CheckedTermsAreLegal'
    BY <1>1, <2>2 DEF StartConfirm
  <2>3. ASSUME NEW user, NEW a, StartCancel(p, user, a)
        PROVE  CheckedTermsAreLegal'
    BY <1>1, <2>3 DEF StartCancel
  <2> QED BY <1>7, <2>1, <2>2, <2>3 DEF StartRequest, StartAs
<1>8. CASE Catalogue \/ Mail \/ UNCHANGED vars
  BY <1>8 DEF Catalogue, CreateService, UpdateService, RemoveService, Mail, vars,
              CheckedTermsAreLegal
<1> QED BY <1>2, <1>4, <1>5, <1>6, <1>7, <1>8 DEF Next, Handler

\* A row is inserted with the terms that were checked, and keeps them.
LEMMA LegalStep ==
  ASSUME TypeOK, RowsOfRequests, CheckedTermsAreLegal, RowsAreLegalVisits, [Next]_vars
  PROVE  RowsAreLegalVisits'
<1> USE DEF history
<1>1. ASSUME NEW p \in Requests, NEW a \in AppointmentIds, CreateInsert(p, a)
      PROVE  RowsAreLegalVisits'
  <2>1. RowInserted(requests[p], a)
    BY <1>1, InsertAddsRow
  <2>2. ValidateSlot(requests[p].startTime, requests[p].duration, {}) = "valid"
    BY <1>1 DEF CreateInsert, CheckedTermsAreLegal
  <2> QED BY <2>1, <2>2 DEF RowInserted, NewRow, RowsAreLegalVisits
<1>2. ASSUME NEW p \in Requests, ConfirmUpdate(p) \/ CancelUpdate(p)
      PROVE  RowsAreLegalVisits'
  <2>1. StatusUpdate(requests[p].id)
    BY <1>2, ConfirmIsStatusUpdate, CancelIsStatusUpdate
  <2> QED BY <2>1 DEF StatusUpdate, RowsAreLegalVisits
<1>3. CASE UNCHANGED appointments
  BY <1>3 DEF RowsAreLegalVisits, Rows
<1> QED BY <1>1, <1>2, <1>3, TableSteps

\* Whatever staff do to a service while a create is under way, the row that results is
\* a legal visit of its own snapshotted length.
THEOREM RowsStayLegal == Spec => []RowsAreLegalVisits
<1> DEFINE Inv == TypeOK /\ RowsOfRequests /\ CheckedTermsAreLegal /\ RowsAreLegalVisits
<1>1. Init => Inv
  BY BaseInit DEF Init, CheckedTermsAreLegal, RowsAreLegalVisits, Rows, IdleRequest
<1>2. Inv /\ [Next]_vars => Inv'
  BY BaseStep, TermsStep, LegalStep
<1>3. Inv => RowsAreLegalVisits
  OBVIOUS
<1> QED BY <1>1, <1>2, <1>3, PTL DEF Spec

-----------------------------------------------------------------------------
\* The calendar.  With one handler on each lane, the rows of the table are its visits.

OpenDay ==
  MinutesOf([startTime |-> WORK_START, endTime |-> WORK_END])
    \ MinutesOf([startTime |-> BREAK_START, endTime |-> BREAK_END])

AllVisits == [a \in AppointmentIds |-> VisitOf(a)]

\* The minutes of a range, as the calendar and as the slot arithmetic name them.
LEMMA SameMinutes ==
  ASSUME NEW x \in TimeRange
  PROVE  MinutesOf(x) = MinutesIn(x)
<1>1. ToMinutes(x.startTime) \in Nat /\ ToMinutes(x.endTime) \in Nat
  BY MinutesAreNatural DEF TimeRange
<1> QED BY <1>1 DEF MinutesOf, MinutesIn

RowsAreVisits ==
  \A a \in Rows : /\ Range_(a) \in TimeRange
                   /\ MinutesOf(Range_(a)) = MinutesIn(Range_(a))
                   /\ MinutesIn(Range_(a)) # {}
                   /\ VisitOf(a) \in Cal!Entry

\* A legal row holds some minutes, all of them open: it is a visit of the calendar.
LEMMA LegalRowsAreVisits == TypeOK /\ RowsAreLegalVisits => RowsAreVisits
<1> SUFFICES ASSUME TypeOK, RowsAreLegalVisits, NEW a \in Rows
             PROVE  /\ Range_(a) \in TimeRange
                    /\ MinutesOf(Range_(a)) = MinutesIn(Range_(a))
                    /\ MinutesIn(Range_(a)) # {}
                    /\ VisitOf(a) \in Cal!Entry
  BY DEF RowsAreVisits
<1> DEFINE t == appointments[a].startTime
           d == appointments[a].duration
<1>1. /\ a \in AppointmentIds /\ appointments[a] \in Appointment
  BY RowsAreAppointments
<1>2. /\ t \in Time /\ d \in Nat \ {0} /\ Range_(a) \in TimeRange
      /\ Lane(a) \in Lanes
      /\ appointments[a].status \in {"PENDING", "CONFIRMED", "CANCELLED"}
  BY <1>1, AppointmentsAssumption DEF Appointment, Range_, TimeRange, Lane, Lanes
<1>3. /\ Range_(a) = RangeOf(t, d)
      /\ ValidateSlot(t, d, {}) = "valid"
  BY DEF RowsAreLegalVisits, Range_, RangeOf
<1>4. /\ [startTime |-> WORK_START, endTime |-> WORK_END] \in TimeRange
      /\ [startTime |-> BREAK_START, endTime |-> BREAK_END] \in TimeRange
  BY HoursAssumption DEF TimeRange
<1>5. OpenDay = MinutesOpen
  BY <1>4, SameMinutes DEF OpenDay, MinutesOpen
<1> HIDE DEF t, d
<1>6. MinutesIn(RangeOf(t, d)) \subseteq MinutesOpen
  BY <1>2, <1>3, ValidMeansFreeMinutes
<1>7. ToMinutes(t) \in MinutesIn(RangeOf(t, d))
  <2>1. ToMinutes(t) \in Nat /\ ToMinutes(CalcEndTime(t, d)) = ToMinutes(t) + d
    BY <1>2, MinutesAreNatural, EndOfVisit
  <2> QED BY <1>2, <2>1 DEF MinutesIn, RangeOf
<1>8. MinutesOf(Range_(a)) = MinutesIn(Range_(a))
  BY <1>2, SameMinutes
<1>9. MinutesOf(Range_(a)) \in (SUBSET OpenDay) \ {{}}
  BY <1>3, <1>5, <1>6, <1>7, <1>8
<1>10. VisitOf(a) \in Cal!Entry
  <2>1. VisitOf(a) = [lane |-> Lane(a), minutes |-> MinutesOf(Range_(a)),
                      status |-> appointments[a].status]
    BY DEF VisitOf
  <2> QED BY <1>2, <1>9, <2>1 DEF Cal!Entry, OpenDay
<1> QED BY <1>2, <1>8, <1>9, <1>10

\* After a step, too.
LEMMA LegalRowsAreVisitsNext == (TypeOK /\ RowsAreLegalVisits)' => RowsAreVisits'
BY LegalRowsAreVisits, PTL

\* Where only row a changes, so does the calendar.
LEMMA OneVisitMoves ==
  ASSUME NEW a \in AppointmentIds, \A b \in AppointmentIds \ {a} : VisitOf(b)' = VisitOf(b)
  PROVE  AllVisits' = [AllVisits EXCEPT ![a] = VisitOf(a)']
BY DEF AllVisits

\* A visit takes minutes nobody holds.
LEMMA PromisedBook ==
  ASSUME NEW a \in AppointmentIds, AllVisits[a] = NULL,
         NEW new \in Cal!Entry, new.status = "PENDING",
         \A w \in AppointmentIds :
           AllVisits[w] # NULL /\ AllVisits[w].status # "CANCELLED" /\ AllVisits[w].lane = new.lane
             => AllVisits[w].minutes \cap new.minutes = {},
         AllVisits' = [AllVisits EXCEPT ![a] = new]
  PROVE  Cal!Book(a)
<1>1. AllVisits'[a] = new
  BY DEF AllVisits
<1> QED BY <1>1 DEF Cal!Book, Cal!Held, AllVisits

\* A pending visit is confirmed.
LEMMA PromisedConfirm ==
  ASSUME NEW a \in AppointmentIds, AllVisits[a] # NULL, AllVisits[a].status = "PENDING",
         AllVisits' = [AllVisits EXCEPT ![a] = [AllVisits[a] EXCEPT !.status = "CONFIRMED"]]
  PROVE  Cal!Confirm(a)
BY DEF Cal!Confirm, AllVisits

\* A visit is cancelled.
LEMMA PromisedCancel ==
  ASSUME NEW a \in AppointmentIds, AllVisits[a] # NULL, AllVisits[a].status # "CANCELLED",
         AllVisits' = [AllVisits EXCEPT ![a] = [AllVisits[a] EXCEPT !.status = "CANCELLED"]]
  PROVE  Cal!Cancel(a)
BY DEF Cal!Cancel, Cal!Held, AllVisits

\* Everything the proof needs to remember of the rows and the handlers.
CalendarInv ==
  TypeOK /\ RowsOfRequests /\ RaceInv /\ NothingMissed /\ CheckedTermsAreLegal /\ RowsAreLegalVisits

\* With one handler on each lane, a new row takes minutes that no other visit holds.
LEMMA InsertBooks ==
  ASSUME CalendarInv, CalendarInv', NEW p \in Requests, NEW a \in AppointmentIds, CreateInsert(p, a)
  PROVE  Cal!Book(a)
<1>1. RowInserted(requests[p], a)
  BY InsertAddsRow DEF CalendarInv
<1>2. ASSUME NEW b \in AppointmentIds \ {a}
      PROVE  VisitOf(b)' = VisitOf(b)
  BY <1>1 DEF RowInserted, VisitOf, Lane, Range_, MinutesOf
<1> DEFINE new == VisitOf(a)'
<1>3. AllVisits' = [AllVisits EXCEPT ![a] = new]
  BY <1>2, OneVisitMoves
<1>4. a \in Rows' /\ appointments'[a].status = "PENDING"
  BY <1>1 DEF RowInserted, NewRow
<1>5. new = [lane |-> Lane(a)', minutes |-> MinutesOf(Range_(a))', status |-> "PENDING"]
  BY <1>4 DEF VisitOf
<1>6. \A b \in Rows' : /\ Range_(b)' \in TimeRange
                        /\ MinutesOf(Range_(b))' = MinutesIn(Range_(b)')
                        /\ MinutesIn(Range_(b)') # {}
                        /\ VisitOf(b)' \in Cal!Entry
  <2>1. RowsAreVisits'
    BY LegalRowsAreVisitsNext DEF CalendarInv
  <2> QED BY <2>1 DEF RowsAreVisits, MinutesIn
<1>7. ASSUME NEW w \in AppointmentIds, AllVisits[w] # NULL, AllVisits[w].status # "CANCELLED",
             AllVisits[w].lane = new.lane
      PROVE  AllVisits[w].minutes \cap new.minutes = {}
  <2>1. w \in Rows /\ w # a
    BY <1>1, <1>7 DEF AllVisits, VisitOf, RowInserted
  <2>2. AllVisits[w] = [lane |-> Lane(w), minutes |-> MinutesOf(Range_(w)),
                        status |-> appointments[w].status]
    BY <2>1 DEF AllVisits, VisitOf
  <2>3. w \in Rows' /\ appointments'[w] = appointments[w]
    BY <1>1, <2>1 DEF RowInserted
  <2>4. Lane(w)' = Lane(w) /\ MinutesOf(Range_(w))' = MinutesOf(Range_(w))
    BY <2>3 DEF Lane, MinutesOf, Range_
  <2>5. Active(w)' /\ Active(a)' /\ Lane(w)' = Lane(a)'
    BY <1>4, <1>5, <1>7, <2>2, <2>3, <2>4 DEF Active
  <2>6. ~RangesOverlap(Range_(w)', Range_(a)')
    <3>1. NoDoubleBooking'
      BY NoRaceNoClash, PTL DEF CalendarInv
    <3>2. ~Clash(w, a)'
      BY <3>1 DEF NoDoubleBooking
    <3> QED BY <2>1, <2>5, <3>2 DEF Clash
  <2>7. MinutesIn(Range_(w)') \cap MinutesIn(Range_(a)') = {}
    BY <1>4, <1>6, <2>3, <2>6, OverlapIsSharedMinute
  <2> QED BY <1>4, <1>5, <1>6, <2>2, <2>3, <2>4, <2>7
<1>8. AllVisits[a] = NULL
  BY <1>1 DEF AllVisits, VisitOf, RowInserted
<1>9. new \in Cal!Entry /\ new.status = "PENDING"
  BY <1>4, <1>5, <1>6
<1> HIDE DEF new
<1> QED BY <1>3, <1>7, <1>8, <1>9, PromisedBook

\* A status update moves one visit, and only its status.
LEMMA StatusMovesVisit ==
  ASSUME CalendarInv, NEW a \in Rows, StatusUpdate(a),
         \A b \in AppointmentIds \ {a} : appointments'[b] = appointments[b]
  PROVE  /\ AllVisits[a] # NULL
         /\ AllVisits[a].status = appointments[a].status
         /\ AllVisits' = [AllVisits EXCEPT
              ![a] = [AllVisits[a] EXCEPT !.status = appointments'[a].status]]
<1>1. a \in AppointmentIds /\ VisitOf(a) \in Cal!Entry
  BY LegalRowsAreVisits, RowsAreAppointments DEF CalendarInv, RowsAreVisits
<1>2. AllVisits[a] = VisitOf(a) /\ VisitOf(a) # NULL
  BY <1>1, NullIsNoVisit DEF AllVisits
<1>3. VisitOf(a) = [lane |-> Lane(a), minutes |-> MinutesOf(Range_(a)),
                    status |-> appointments[a].status]
  BY DEF VisitOf
<1>4. VisitOf(a)' = [lane |-> Lane(a), minutes |-> MinutesOf(Range_(a)),
                     status |-> appointments'[a].status]
  <2>1. a \in Rows' /\ Lane(a)' = Lane(a) /\ Range_(a)' = Range_(a)
    BY DEF StatusUpdate
  <2>2. MinutesOf(Range_(a))' = MinutesOf(Range_(a))
    BY <2>1 DEF MinutesOf
  <2> QED BY <2>1, <2>2 DEF VisitOf
<1>5. VisitOf(a)' = [VisitOf(a) EXCEPT !.status = appointments'[a].status]
  BY <1>3, <1>4
<1>6. ASSUME NEW b \in AppointmentIds \ {a}
      PROVE  VisitOf(b)' = VisitOf(b)
  BY <1>6 DEF StatusUpdate, VisitOf, Rows, Lane, Range_, MinutesOf
<1>7. AllVisits' = [AllVisits EXCEPT ![a] = VisitOf(a)']
  BY <1>1, <1>6, OneVisitMoves
<1> QED BY <1>2, <1>3, <1>5, <1>7

\* A confirm or a cancel is one of the calendar, or changes nothing in it.
LEMMA UpdatesMoveVisits ==
  ASSUME CalendarInv, NEW p \in Requests, ConfirmUpdate(p) \/ CancelUpdate(p)
  PROVE  \/ \E a \in AppointmentIds : Cal!Confirm(a) \/ Cal!Cancel(a)
         \/ AllVisits' = AllVisits
<1> DEFINE a == requests[p].id
<1>1. /\ a \in Rows /\ a \in AppointmentIds /\ appointments[a] \in Appointment
      /\ StatusUpdate(a)
  BY RowsAreAppointments, ConfirmIsStatusUpdate, CancelIsStatusUpdate
     DEF CalendarInv, RowsOfRequests, ConfirmUpdate, CancelUpdate
<1>2. CASE ConfirmUpdate(p)
  <2> DEFINE new == [appointments[a] EXCEPT !.status = "CONFIRMED", !.confirmedAt = TRUE]
  <2>1. appointments' = [appointments EXCEPT ![a] = new] /\ new.status = "CONFIRMED"
    BY <1>1, <1>2 DEF ConfirmUpdate, Appointment
  <2> HIDE DEF new
  <2>2. /\ appointments'[a].status = "CONFIRMED"
        /\ \A b \in AppointmentIds \ {a} : appointments'[b] = appointments[b]
    BY <1>1, <2>1 DEF CalendarInv, TypeOK
  <2>3. appointments[a].status = "PENDING"
    BY <1>2 DEF CalendarInv, NothingMissed, ConfirmUpdate
  <2> HIDE DEF a
  <2>4. Cal!Confirm(a)
    BY <1>1, <2>2, <2>3, StatusMovesVisit, PromisedConfirm
  <2> QED BY <1>1, <2>4
<1>3. CASE CancelUpdate(p)
  <2> DEFINE new == [appointments[a] EXCEPT !.status = "CANCELLED"]
  <2>1. appointments' = [appointments EXCEPT ![a] = new] /\ new.status = "CANCELLED"
    BY <1>1, <1>3 DEF CancelUpdate, Appointment
  <2>2. appointments[a].status = "CANCELLED" => new = appointments[a]
    BY <1>1 DEF Appointment
  <2> HIDE DEF new
  <2>3. /\ appointments'[a].status = "CANCELLED"
        /\ \A b \in AppointmentIds \ {a} : appointments'[b] = appointments[b]
    BY <1>1, <2>1 DEF CalendarInv, TypeOK
  <2>4. CASE appointments[a].status = "CANCELLED"
    <3>1. appointments' = appointments
      BY <1>1, <2>1, <2>2, <2>4 DEF CalendarInv, TypeOK
    <3> QED BY <3>1 DEF AllVisits, VisitOf, Rows, Lane, Range_
  <2>5. CASE appointments[a].status # "CANCELLED"
    <3> HIDE DEF a
    <3>1. Cal!Cancel(a)
      BY <1>1, <2>3, <2>5, StatusMovesVisit, PromisedCancel
    <3> QED BY <1>1, <3>1
  <2> QED BY <2>4, <2>5
<1> QED BY <1>2, <1>3

\* With one handler at a time on each service and day, whatever the catalogue does
\* meanwhile and wherever handlers stop, every step is a booking, a confirmation or a
\* cancellation of the calendar, or invisible in it.
THEOREM LaneLockIsACalendar == Spec /\ []OneHandlerPerLane => ImplementsCalendar
<1>1. Init => CalendarInv
  <2>1. Init => CheckedTermsAreLegal /\ RowsAreLegalVisits
    BY DEF Init, CheckedTermsAreLegal, RowsAreLegalVisits, Rows, IdleRequest
  <2> QED BY <2>1, BaseInit, RaceInit, NothingMissedInit DEF CalendarInv
<1>2. CalendarInv /\ OneHandlerPerLane /\ [Next]_vars => CalendarInv'
  BY BaseStep, RaceStep, NothingMissedStep, TermsStep, LegalStep DEF CalendarInv
<1>3. Init => Cal!Init
  BY DEF Init, Cal!Init, VisitOf, Rows
<1>4. CalendarInv /\ CalendarInv' /\ [Next]_vars
        => [Cal!Next]_([a \in AppointmentIds |-> VisitOf(a)])
  <2> SUFFICES ASSUME CalendarInv, CalendarInv', [Next]_vars
               PROVE  Cal!Next \/ AllVisits' = AllVisits
    BY DEF AllVisits
  <2>1. ASSUME NEW p \in Requests, NEW a \in AppointmentIds, CreateInsert(p, a)
        PROVE  Cal!Next
    BY <2>1, InsertBooks DEF Cal!Next
  <2>2. ASSUME NEW p \in Requests, ConfirmUpdate(p) \/ CancelUpdate(p)
        PROVE  Cal!Next \/ AllVisits' = AllVisits
    BY <2>2, UpdatesMoveVisits DEF Cal!Next
  <2>3. CASE UNCHANGED appointments
    BY <2>3 DEF AllVisits, VisitOf, Rows, Lane, Range_
  <2> QED BY <2>1, <2>2, <2>3, TableSteps
<1> QED BY <1>1, <1>2, <1>3, <1>4, PTL DEF Spec, ImplementsCalendar, Cal!Spec

\* So with one request at a time the salon is a calendar.
THEOREM SerialSalonIsACalendar ==
  ASSUME Serial
  PROVE  Spec => ImplementsCalendar
<1>1. OneHandlerPerLane
  BY SerialHandlersHaveTheirLane
<1> QED BY <1>1, LaneLockIsACalendar, PTL

-----------------------------------------------------------------------------
\* The rooms.  With one handler on each lane, its room shows what is free unless its push
\* is owed or was lost.

Owed(lane) == \E p \in Requests : OwesPush(p) /\ LaneOf(p) = lane

Shows(lane) ==
  board[lane] # NULL /\ lane \notin dirty =>
    board[lane].slots = GetAvailableSlots(board[lane].duration, BookedRanges(lane[1], lane[2]))

\* A handler that broadcasts does so for a row of the table, and the slots it is about
\* to push are counted from the bookings as they are.
BoardInv ==
  /\ \A lane \in Lanes : ~Owed(lane) => Shows(lane)
  /\ \A p \in Requests : requests[p].pc = "findService" =>
       \E a \in Rows : appointments[a].serviceId = requests[p].serviceId
  /\ \A p \in Requests : requests[p].pc = "emit" =>
       requests[p].slots =
         GetAvailableSlots(requests[p].duration, BookedRanges(requests[p].serviceId, requests[p].date))

\* A lane is a room under the canonical text of its day.
LEMMA LanesAreRooms ==
  ASSUME NEW lane \in Lanes
  PROVE  /\ lane \in Rooms /\ lane = <<lane[1], lane[2]>>
         /\ lane[1] \in ServiceIds /\ lane[2] \in DateStrings
         /\ DayOf[lane[2]] = lane[2]
  BY DaysAreDateStrings, AppointmentsAssumption DEF Lanes, Rooms, Days

\* A change to a row leaves the bookings of other lanes as they are, under any text of
\* the date.
LEMMA OtherLanesStay ==
  ASSUME NEW a \in AppointmentIds, NEW s, NEW date,
         \A b \in AppointmentIds \ {a} : appointments'[b] = appointments[b],
         Active(a) => Lane(a) # <<s, DayOf[date]>>,
         Active(a)' => Lane(a)' # <<s, DayOf[date]>>
  PROVE  BookedRanges(s, date)' = BookedRanges(s, date)
<1> DEFINE lane == <<s, DayOf[date]>>
<1>1. ASSUME NEW b \in AppointmentIds
      PROVE  /\ (Active(b) /\ Lane(b) = lane)' <=> Active(b) /\ Lane(b) = lane
             /\ Active(b) /\ Lane(b) = lane => Range_(b)' = Range_(b)
  BY <1>1 DEF Active, Rows, Lane, Range_
<1> QED BY <1>1 DEF BookedRanges

\* A room shows what it showed if neither it nor the bookings of its lane change.
LEMMA ShowsStay ==
  ASSUME NEW lane \in Lanes, Shows(lane), UNCHANGED board, lane \in dirty => lane \in dirty',
         BookedRanges(lane[1], lane[2])' = BookedRanges(lane[1], lane[2])
  PROVE  Shows(lane)'
<1> DEFINE r == BookedRanges(lane[1], lane[2])
<1>1. r' = r
  OBVIOUS
<1> QED BY DEF Shows

\* A step that changes neither the table nor the board keeps the invariant, if its
\* handler forgets no push it owes.
LEMMA QuietBoardStep ==
  ASSUME TypeOK, BoardInv, NEW p \in Requests, NEW r, Goto(p, r),
         UNCHANGED <<appointments, board>>, dirty \subseteq dirty',
         \A lane : OwesPush(p) /\ LaneOf(p) = lane => lane \in dirty' \/ Owed(lane)',
         r.pc = "findService" => \E a \in Rows : appointments[a].serviceId = r.serviceId,
         r.pc = "emit" => r.slots = GetAvailableSlots(r.duration, BookedRanges(r.serviceId, r.date))
  PROVE  BoardInv'
<1>1. requests'[p] = r /\ \A q \in Requests \ {p} : requests'[q] = requests[q]
  BY DEF Goto, TypeOK
<1>2. \A s, date : BookedRanges(s, date)' = BookedRanges(s, date)
  BY DEF BookedRanges, Active, Rows, Lane, Range_
<1>3. ASSUME NEW lane \in Lanes, ~Owed(lane)'
      PROVE  Shows(lane)'
  <2>1. CASE lane \in dirty'
    BY <2>1 DEF Shows
  <2>2. CASE lane \notin dirty'
    <3>1. ~(OwesPush(p) /\ LaneOf(p) = lane)
      BY <1>3, <2>2
    <3>2. \A q \in Requests \ {p} : (OwesPush(q)' <=> OwesPush(q)) /\ LaneOf(q)' = LaneOf(q)
      BY <1>1 DEF OwesPush, LaneOf, Lane
    <3>3. ~Owed(lane)
      BY <1>3, <3>1, <3>2 DEF Owed
    <3> QED BY <1>2, <3>3, ShowsStay DEF BoardInv
  <2> QED BY <2>1, <2>2
<1>4. Rows' = Rows
  BY DEF Rows
<1> QED BY <1>1, <1>2, <1>3, <1>4 DEF BoardInv

\* Where a handler changes a row of its lane, and the lane is owed a push from then on.
LEMMA OwingBoardStep ==
  ASSUME OneHandlerPerLane, TypeOK, RowsOfRequests, BoardInv, NEW p \in Requests,
         Handler(p), ~OwesPush(p), requests[p].pc # "idle",
         NEW a \in AppointmentIds, a \in Rows', Lane(a)' = LaneAtWork(p),
         \A b \in AppointmentIds \ {a} : appointments'[b] = appointments[b],
         Active(a) => Lane(a) = Lane(a)',
         UNCHANGED <<board, dirty>>,
         requests'[p].pc \in {"enqueue", "findService"}, LaneOf(p)' = Lane(a)',
         requests'[p].pc = "findService" => requests'[p].serviceId = appointments'[a].serviceId
  PROVE  BoardInv'
<1>1. \A q \in Requests \ {p} : Noted(q, p)
  BY OthersNote
<1>2. /\ \A b \in Rows : /\ b \in Rows' /\ Lane(b)' = Lane(b)
                         /\ appointments'[b].serviceId = appointments[b].serviceId
  BY WorkStaysInItsLane
<1>3. ASSUME NEW q \in Requests \ {p}, OwesPush(q)
      PROVE  OwesPush(q)' /\ LaneOf(q)' = LaneOf(q)
  <2>1. CASE requests'[q] = requests[q]
    <3>1. requests[q].pc = "enqueue" => requests[q].id \in Rows
      BY DEF RowsOfRequests
    <3>2. LaneOf(q)' = LaneOf(q)
      <4>1. CASE requests[q].pc = "enqueue"
        <5>1. PICK b : b = requests[q].id
          OBVIOUS
        <5>2. Lane(b)' = Lane(b)
          BY <1>2, <3>1, <4>1, <5>1
        <5>3. LaneOf(q)' = Lane(b)' /\ LaneOf(q) = Lane(b)
          BY <2>1, <4>1, <5>1 DEF LaneOf, Lane
        <5> QED BY <5>2, <5>3
      <4>2. CASE requests[q].pc # "enqueue"
        BY <2>1, <4>2 DEF LaneOf
      <4> QED BY <4>1, <4>2
    <3> QED BY <1>3, <2>1, <3>2 DEF OwesPush
  <2>2. CASE requests[q].pc \in {"insert", "emit"}
    BY <1>1, <1>3, <2>2 DEF Noted, StillReads, OwesPush, LaneOf
  <2> QED BY <1>1, <2>1, <2>2 DEF Noted
<1>4. ASSUME NEW lane \in Lanes, ~Owed(lane)'
      PROVE  Shows(lane)'
  <2>1. Lane(a)' # lane
    BY <1>4 DEF Owed, OwesPush
  <2>2. ~Owed(lane)
    BY <1>3, <1>4 DEF Owed
  <2>3. <<lane[1], DayOf[lane[2]]>> = lane
    BY LanesAreRooms
  <2>4. BookedRanges(lane[1], lane[2])' = BookedRanges(lane[1], lane[2])
    BY <2>1, <2>3, OtherLanesStay
  <2> QED BY <2>2, <2>4, ShowsStay DEF BoardInv
<1>5. ASSUME NEW q \in Requests, requests'[q].pc = "findService"
      PROVE  \E b \in Rows' : appointments'[b].serviceId = requests'[q].serviceId
  <2>1. CASE q = p
    BY <1>5, <2>1
  <2>2. CASE q # p
    <3>1. requests'[q] = requests[q]
      BY <1>1, <1>5, <2>2 DEF Noted, StillReads
    <3> QED BY <1>2, <1>5, <3>1 DEF BoardInv
  <2> QED BY <2>1, <2>2
<1>6. ASSUME NEW q \in Requests, requests'[q].pc = "emit",
             NEW s, s = requests[q].serviceId, NEW date, date = requests[q].date
      PROVE  (requests[q].slots =
                GetAvailableSlots(requests[q].duration,
                                  BookedRanges(requests[q].serviceId, requests[q].date)))'
  <2>1. q # p
    BY <1>6
  <2>2. /\ requests[q].pc = "emit" /\ requests'[q].slots = requests[q].slots
        /\ requests'[q].duration = requests[q].duration
        /\ requests'[q].serviceId = s /\ requests'[q].date = date
    BY <1>1, <1>6, <2>1 DEF Noted, StillReads
  <2>3. LaneAtWork(q) = <<s, DayOf[date]>> /\ LaneAtWork(q) # LaneAtWork(p)
    BY <1>6, <2>1, <2>2 DEF LaneAtWork, OneHandlerPerLane
  <2>4. requests[q].slots = GetAvailableSlots(requests[q].duration, BookedRanges(s, date))
    BY <1>6, <2>2 DEF BoardInv
  <2>5. BookedRanges(s, date)' = BookedRanges(s, date)
    BY <2>3, OtherLanesStay
  <2>6. BookedRanges(requests[q].serviceId, requests[q].date)' = BookedRanges(s, date)'
    BY <2>2 DEF BookedRanges
  <2> QED BY <2>2, <2>4, <2>5, <2>6
<1> QED BY <1>4, <1>5, <1>6 DEF BoardInv

\* Every step keeps what the rooms show.
LEMMA BoardStep ==
  ASSUME OneHandlerPerLane, TypeOK, RowsOfRequests, NothingMissed, ServiceOfEveryBooking,
         BoardInv, [Next]_vars
  PROVE  BoardInv'
<1> USE DEF history
<1>1. ASSUME NEW p \in Requests, NEW r, Goto(p, r), ~OwesPush(p),
             UNCHANGED <<appointments, board, dirty>>, r.pc \notin {"findService", "emit"}
      PROVE  BoardInv'
  BY <1>1, QuietBoardStep
<1>2. ASSUME NEW p \in Requests, StartRequest(p)
      PROVE  BoardInv'
  <2>0. requests[p].pc = "idle" => ~OwesPush(p)
    BY DEF OwesPush
  <2>1. ASSUME NEW user, NEW s, NEW date, NEW startTime,
               StartCreate(p, user, s, date, startTime)
        PROVE  BoardInv'
    BY <1>1, <2>0, <2>1 DEF StartCreate
  <2>2. ASSUME NEW user, NEW a, StartConfirm(p, user, a)
        PROVE  BoardInv'
    BY <1>1, <2>0, <2>2 DEF StartConfirm
  <2>3. ASSUME NEW user, NEW a, StartCancel(p, user, a)
        PROVE  BoardInv'
    BY <1>1, <2>0, <2>3 DEF StartCancel
  <2> QED BY <1>2, <2>1, <2>2, <2>3 DEF StartRequest, StartAs
<1>3. ASSUME NEW p \in Requests, CreateCheckSlot(p) \/ CreateRefused(p)
      PROVE  BoardInv'
  <2>1. ~OwesPush(p) /\ UNCHANGED <<appointments, board, dirty>>
    BY <1>3 DEF CreateCheckSlot, CreateRefused, OwesPush
  <2>2. CreateCheckSlot(p) => [requests[p] EXCEPT !.pc = "insert"].pc = "insert"
    BY RequestRecords, ShapeOfRequest DEF CreateCheckSlot, Creating
  <2>3. \/ Goto(p, IdleRequest)
        \/ CreateCheckSlot(p) /\ Goto(p, [requests[p] EXCEPT !.pc = "insert"])
    BY <1>3 DEF CreateCheckSlot, CreateRefused
  <2>4. CASE Goto(p, IdleRequest)
    BY <1>1, <2>1, <2>4 DEF IdleRequest
  <2>5. CASE CreateCheckSlot(p) /\ Goto(p, [requests[p] EXCEPT !.pc = "insert"])
    BY <1>1, <2>1, <2>2, <2>5
  <2> QED BY <2>3, <2>4, <2>5
<1>4. ASSUME NEW p \in Requests, NEW a \in AppointmentIds, CreateInsert(p, a)
      PROVE  BoardInv'
  <2> DEFINE next == AwaitBroadcast(requests[p].serviceId, requests[p].date)
  <2>1. RowInserted(requests[p], a)
    BY <1>4, InsertAddsRow
  <2>2. next \in Request /\ next.pc = "findService"
    BY <1>4, RequestRecords, ShapeOfRequest DEF CreateInsert, Creating, AwaitBroadcast
  <2>3. requests' = Overtake(a, [requests EXCEPT ![p] = next])
    BY <1>4 DEF CreateInsert
  <2>4. next.serviceId = requests[p].serviceId /\ next.date = requests[p].date
    BY DEF AwaitBroadcast
  <2> HIDE DEF next
  <2>5. requests'[p] = next
    BY <2>2, <2>3, OvertakeOthers
  <2>6. /\ appointments'[a].serviceId = requests[p].serviceId
        /\ Lane(a)' = <<requests[p].serviceId, DayOf[requests[p].date]>>
    BY <2>1 DEF RowInserted, NewRow, Lane
  <2>7. LaneOf(p)' = Lane(a)' /\ Lane(a)' = LaneAtWork(p) /\ Handler(p)
    BY <1>4, <2>2, <2>4, <2>5, <2>6 DEF LaneOf, LaneAtWork, CreateInsert, Handler
  <2>8. /\ ~OwesPush(p) /\ ~Active(a) /\ a \in Rows' /\ requests[p].pc # "idle"
        /\ UNCHANGED <<board, dirty>>
        /\ \A b \in AppointmentIds \ {a} : appointments'[b] = appointments[b]
    BY <1>4, <2>1 DEF CreateInsert, OwesPush, Active, RowInserted, TypeOK
  <2> QED BY <2>2, <2>4, <2>5, <2>6, <2>7, <2>8, OwingBoardStep
<1>5. ASSUME NEW p \in Requests, ConfirmUpdate(p)
      PROVE  BoardInv'
  <2> SUFFICES ASSUME NEW a, a = requests[p].id PROVE BoardInv'
    OBVIOUS
  <2> DEFINE next == [requests[p] EXCEPT !.pc = "enqueue"]
  <2>1. /\ a \in Rows /\ a \in AppointmentIds /\ StatusUpdate(a)
        /\ requests[p] \in Changing
    BY <1>5, ConfirmIsStatusUpdate, RowsAreAppointments, RequestRecords, ShapeOfRequest
       DEF RowsOfRequests, ConfirmUpdate
  <2>2. next.pc = "enqueue" /\ next.id = a
    BY <2>1 DEF Changing
  <2>3. requests' = [requests EXCEPT ![p] = next]
    BY <1>5 DEF ConfirmUpdate, NothingMissed
  <2> HIDE DEF next
  <2>4. requests'[p] = next
    BY <2>3 DEF TypeOK
  <2>5. /\ a \in Rows' /\ Lane(a)' = Lane(a)
        /\ \A b \in AppointmentIds \ {a} : appointments'[b] = appointments[b]
        /\ UNCHANGED <<board, dirty>> /\ ~OwesPush(p)
    <3> DEFINE row == [appointments[a] EXCEPT !.status = "CONFIRMED", !.confirmedAt = TRUE]
    <3>1. appointments' = [appointments EXCEPT ![a] = row]
      BY <1>5 DEF ConfirmUpdate
    <3> HIDE DEF row
    <3>2. \A b \in AppointmentIds \ {a} : appointments'[b] = appointments[b]
      BY <3>1 DEF TypeOK
    <3>3. UNCHANGED <<board, dirty>> /\ ~OwesPush(p)
      BY <1>5 DEF ConfirmUpdate, OwesPush
    <3> QED BY <2>1, <3>2, <3>3 DEF StatusUpdate
  <2>6. LaneOf(p)' = Lane(a)'
    BY <2>2, <2>4 DEF LaneOf, Lane
  <2>7. Lane(a)' = LaneAtWork(p) /\ requests[p].pc # "idle" /\ Handler(p)
    BY <1>5, <2>5 DEF LaneAtWork, ConfirmUpdate, Handler
  <2> QED BY <2>1, <2>2, <2>4, <2>5, <2>6, <2>7, OwingBoardStep
<1>6. ASSUME NEW p \in Requests, CancelUpdate(p)
      PROVE  BoardInv'
  <2> SUFFICES ASSUME NEW a, a = requests[p].id PROVE BoardInv'
    OBVIOUS
  <2> DEFINE next == AwaitBroadcast(appointments[a].serviceId, appointments[a].date)
  <2>1. /\ a \in Rows /\ a \in AppointmentIds /\ StatusUpdate(a)
        /\ appointments[a] \in Appointment
    BY <1>6, CancelIsStatusUpdate, RowsAreAppointments DEF RowsOfRequests, CancelUpdate
  <2>2. /\ next.pc = "findService"
        /\ next.serviceId = appointments[a].serviceId /\ next.date = appointments[a].date
    BY DEF AwaitBroadcast
  <2>3. requests' = [requests EXCEPT ![p] = next]
    BY <1>6 DEF CancelUpdate, Goto
  <2> HIDE DEF next
  <2>4. requests'[p] = next
    BY <2>3 DEF TypeOK
  <2>5. /\ a \in Rows' /\ Lane(a)' = Lane(a)
        /\ appointments'[a].serviceId = appointments[a].serviceId
        /\ \A b \in AppointmentIds \ {a} : appointments'[b] = appointments[b]
        /\ UNCHANGED <<board, dirty>> /\ ~OwesPush(p)
    <3> DEFINE row == [appointments[a] EXCEPT !.status = "CANCELLED"]
    <3>1. appointments' = [appointments EXCEPT ![a] = row]
      BY <1>6 DEF CancelUpdate
    <3> HIDE DEF row
    <3>2. \A b \in AppointmentIds \ {a} : appointments'[b] = appointments[b]
      BY <3>1 DEF TypeOK
    <3>3. UNCHANGED <<board, dirty>> /\ ~OwesPush(p)
      BY <1>6 DEF CancelUpdate, OwesPush
    <3> QED BY <2>1, <3>2, <3>3 DEF StatusUpdate
  <2>6. LaneOf(p)' = Lane(a)'
    <3>1. DayOf[appointments[a].date] = appointments[a].date
      BY <2>1, AppointmentsAssumption DEF Appointment, Days
    <3> QED BY <2>2, <2>4, <2>5, <3>1 DEF LaneOf, Lane
  <2>7. Lane(a)' = LaneAtWork(p) /\ requests[p].pc # "idle" /\ Handler(p)
    BY <1>6, <2>5 DEF LaneAtWork, CancelUpdate, Handler
  <2> QED BY <2>1, <2>2, <2>4, <2>5, <2>6, <2>7, OwingBoardStep
\* A handler that owes a push goes on to its next record for the same lane.
<1>7. ASSUME NEW p \in Requests, NEW r, Goto(p, r), OwesPush(p),
             UNCHANGED <<appointments, board, dirty>>,
             r.pc \in {"findService", "findBooked", "emit"},
             <<r.serviceId, DayOf[r.date]>> = LaneOf(p),
             r.pc = "findService" => \E a \in Rows : appointments[a].serviceId = r.serviceId,
             r.pc = "emit" => r.slots = GetAvailableSlots(r.duration, BookedRanges(r.serviceId, r.date))
      PROVE  BoardInv'
  <2>1. requests'[p] = r
    BY <1>7 DEF Goto, TypeOK
  <2>2. OwesPush(p)' /\ LaneOf(p)' = LaneOf(p)
    BY <1>7, <2>1 DEF OwesPush, LaneOf
  <2>3. \A lane : LaneOf(p) = lane => Owed(lane)'
    BY <2>2 DEF Owed
  <2> QED BY <1>7, <2>3, QuietBoardStep
<1>8. ASSUME NEW p \in Requests, ConfirmEnqueue(p)
      PROVE  BoardInv'
  <2> DEFINE a == requests[p].id
             next == AwaitBroadcast(appointments[a].serviceId, appointments[a].date)
  <2>1. a \in Rows /\ appointments[a] \in Appointment
    BY <1>8, RowsAreAppointments DEF RowsOfRequests, ConfirmEnqueue
  <2>2. /\ next.pc = "findService"
        /\ next.serviceId = appointments[a].serviceId /\ next.date = appointments[a].date
    BY DEF AwaitBroadcast
  <2>3. Goto(p, next) /\ OwesPush(p) /\ UNCHANGED <<appointments, board, dirty>>
    BY <1>8 DEF ConfirmEnqueue, OwesPush
  <2> HIDE DEF next
  <2>4. DayOf[appointments[a].date] = appointments[a].date
    BY <2>1, AppointmentsAssumption DEF Appointment, Days
  <2>5. <<next.serviceId, DayOf[next.date]>> = LaneOf(p)
    BY <1>8, <2>2, <2>4 DEF ConfirmEnqueue, LaneOf, Lane
  <2> QED BY <1>7, <2>1, <2>2, <2>3, <2>5
<1>9. ASSUME NEW p \in Requests, BroadcastFindService(p)
      PROVE  BoardInv'
  <2> DEFINE r == requests[p]
             next == [pc |-> "findBooked", serviceId |-> r.serviceId, date |-> r.date,
                      duration |-> services[r.serviceId].duration]
  <2>1. services[r.serviceId].state = "live"
    BY <1>9 DEF BroadcastFindService, BoardInv, ServiceOfEveryBooking
  <2>2. Goto(p, next) /\ OwesPush(p) /\ UNCHANGED <<appointments, board, dirty>>
    BY <1>9, <2>1 DEF BroadcastFindService, OwesPush
  <2>3. /\ next.pc = "findBooked"
        /\ <<next.serviceId, DayOf[next.date]>> = LaneOf(p)
    BY <1>9 DEF BroadcastFindService, LaneOf
  <2> HIDE DEF next
  <2> QED BY <1>7, <2>2, <2>3
<1>10. ASSUME NEW p \in Requests, BroadcastFindBooked(p)
       PROVE  BoardInv'
  <2> DEFINE r == requests[p]
             next == EmitSlots(r, BookedRanges(r.serviceId, r.date))
  <2>1. Goto(p, next) /\ OwesPush(p) /\ UNCHANGED <<appointments, board, dirty>>
    BY <1>10 DEF BroadcastFindBooked, OwesPush
  <2>2. /\ next.pc = "emit" /\ next.serviceId = r.serviceId /\ next.date = r.date
        /\ next.slots = GetAvailableSlots(next.duration, BookedRanges(r.serviceId, r.date))
    BY DEF EmitSlots
  <2> HIDE DEF next
  <2>3. <<next.serviceId, DayOf[next.date]>> = LaneOf(p)
    BY <1>10, <2>2 DEF BroadcastFindBooked, LaneOf
  <2> QED BY <1>7, <2>1, <2>2, <2>3
<1>11. ASSUME NEW p \in Requests, BroadcastEmit(p)
       PROVE  BoardInv'
  <2> DEFINE r == requests[p]
             room == <<r.serviceId, r.date>>
             push == [duration |-> r.duration, slots |-> r.slots]
             ranges == BookedRanges(r.serviceId, r.date)
  <2>1. /\ r.serviceId \in ServiceIds /\ r.date \in DateStrings
        /\ room \in Rooms /\ r.pc = "emit" /\ LaneOf(p) = <<r.serviceId, DayOf[r.date]>>
    BY <1>11, RequestRecords, ShapeOfRequest DEF BroadcastEmit, Broadcasting, Rooms, LaneOf
  <2>2. /\ board' = [board EXCEPT ![room] = push]
        /\ dirty' \cup {LaneOf(p)} = dirty \cup {LaneOf(p)}
        /\ DayOf[r.date] # r.date => LaneOf(p) \in dirty'
        /\ UNCHANGED appointments
        /\ requests'[p] = IdleRequest
    BY <1>11, <2>1 DEF BroadcastEmit, Goto, TypeOK
  <2>3. push.slots = GetAvailableSlots(push.duration, ranges)
    BY <2>1 DEF BoardInv
  <2>4. \A s, date : BookedRanges(s, date)' = BookedRanges(s, date)
    BY <2>2 DEF BookedRanges, Active, Rows, Lane, Range_
  <2>7. \A q \in Requests \ {p} : /\ requests'[q] = requests[q]
                                  /\ OwesPush(q)' <=> OwesPush(q)
                                  /\ LaneOf(q)' = LaneOf(q)
    BY <1>11, <2>2 DEF BroadcastEmit, Goto, TypeOK, OwesPush, LaneOf, Lane
  <2>5. ASSUME NEW lane \in Lanes, ~Owed(lane)'
        PROVE  Shows(lane)'
    <3>1. lane \in Rooms /\ lane = <<lane[1], lane[2]>> /\ DayOf[lane[2]] = lane[2]
      BY LanesAreRooms
    <3>2. CASE lane = room
      <4>1. lane[1] = r.serviceId /\ lane[2] = r.date
        BY <3>2
      <4>2. board'[lane] = push
        BY <2>1, <2>2, <3>2 DEF TypeOK
      <4> HIDE DEF push
      <4> QED BY <2>3, <2>4, <4>1, <4>2 DEF Shows
    <3>3. CASE lane # room
      <4>1. board'[lane] = board[lane]
        BY <2>2, <3>1, <3>3 DEF TypeOK
      <4>2. CASE lane = LaneOf(p)
        <5>1. DayOf[r.date] # r.date
          BY <2>1, <3>3, <4>2
        <5>2. lane \in dirty'
          BY <2>2, <4>2, <5>1
        <5> QED BY <5>2 DEF Shows
      <4>3. CASE lane # LaneOf(p)
        <5>1. ~Owed(lane)
          BY <2>5, <2>7, <4>3 DEF Owed
        <5>2. Shows(lane)
          BY <5>1 DEF BoardInv
        <5>3. lane \in dirty <=> lane \in dirty'
          BY <2>2, <4>3
        <5> QED BY <2>4, <4>1, <5>2, <5>3 DEF Shows
      <4> QED BY <4>2, <4>3
    <3> QED BY <3>2, <3>3
  <2>6. requests'[p].pc = "idle" /\ Rows' = Rows
    BY <2>2 DEF IdleRequest, Rows
  <2> QED BY <2>2, <2>4, <2>5, <2>6, <2>7 DEF BoardInv
<1>12. ASSUME NEW p \in Requests, Abort(p)
       PROVE  BoardInv'
  <2>1. /\ Goto(p, IdleRequest) /\ UNCHANGED <<appointments, board>>
        /\ dirty' = IF OwesPush(p) THEN dirty \cup {LaneOf(p)} ELSE dirty
    BY <1>12 DEF Abort
  <2>2. \A lane : OwesPush(p) /\ LaneOf(p) = lane => lane \in dirty'
    BY <2>1
  <2> QED BY <2>1, <2>2, QuietBoardStep DEF IdleRequest
<1>13. CASE Catalogue \/ Mail \/ UNCHANGED vars
  <2>1. UNCHANGED <<appointments, requests, board, dirty>>
    BY <1>13 DEF Catalogue, CreateService, UpdateService, RemoveService, Mail, vars
  <2>2. \A s, date : BookedRanges(s, date)' = BookedRanges(s, date)
    BY <2>1 DEF BookedRanges, Active, Rows, Lane, Range_
  <2>3. \A lane : (Owed(lane)' <=> Owed(lane)) /\ (Shows(lane)' <=> Shows(lane))
    BY <2>1, <2>2 DEF Owed, OwesPush, LaneOf, Lane, Shows
  <2>4. Rows' = Rows
    BY <2>1 DEF Rows
  <2> QED BY <2>1, <2>2, <2>3, <2>4 DEF BoardInv
<1> QED BY <1>2, <1>3, <1>4, <1>5, <1>6, <1>8, <1>9, <1>10, <1>11, <1>12, <1>13
     DEF Next, Handler

\* With one handler at a time on each service and day, once no push is owed every room
\* shows what is free now, unless it missed a push, lost with its handler or made under
\* another text of the date, and has not been pushed what is free since.
THEOREM LaneLockBoardFresh == Spec /\ []OneHandlerPerLane => []BoardFresh
<1> DEFINE Inv == TypeOK /\ RowsOfRequests /\ NothingMissed /\ BoardInv
<1>1. Init => Inv
  <2>1. Init => BoardInv
    BY LanesAreRooms DEF Init, BoardInv, Shows, IdleRequest
  <2> QED BY <2>1, BaseInit, NothingMissedInit
<1>2. Inv /\ OneHandlerPerLane /\ ServiceOfEveryBooking /\ [Next]_vars => Inv'
  BY BaseStep, NothingMissedStep, BoardStep
<1>3. Inv => BoardFresh
  BY DEF BoardInv, Owed, Shows, BoardFresh
<1> QED BY <1>1, <1>2, <1>3, BookingsHaveServices, PTL DEF Spec

\* So does every room with one request at a time.
THEOREM SerialBoardFresh ==
  ASSUME Serial
  PROVE  Spec => []BoardFresh
<1>1. OneHandlerPerLane
  BY SerialHandlersHaveTheirLane
<1> QED BY <1>1, LaneLockBoardFresh, PTL

-----------------------------------------------------------------------------
\* How far races can overbook.

\* The active visits of a lane that hold a minute.
Holders(lane, n) ==
  { a \in AppointmentIds : Active(a) /\ Lane(a) = lane /\ n \in MinutesIn(Range_(a)) }

\* No minute of a service's day is sold more often than there are handlers.
OverbookingBounded ==
  \A lane \in Lanes, n \in Nat : Cardinality(Holders(lane, n)) <= Cardinality(Requests)

\* A confirm that has read PENDING may still make row a active.
Reviving(a) == \E p \in Requests : requests[p].pc = "confirmUpdate" /\ requests[p].id = a

\* The visits that hold a minute or may hold it again without another slot check, and
\* the handlers that have passed the check for a visit that holds it.
Claims(lane, n) ==
  { a \in AppointmentIds : /\ a \in Rows /\ Lane(a) = lane /\ n \in MinutesIn(Range_(a))
                           /\ Active(a) \/ Reviving(a) }

Inserting(lane, n) ==
  { p \in Requests : /\ requests[p].pc = "insert"
                     /\ LaneAtWork(p) = lane
                     /\ n \in MinutesIn(RangeOf(requests[p].startTime, requests[p].duration)) }

\* Why the bound is inductive: both together are no more than the handlers.
ClaimsBounded(lane, n) ==
  /\ IsFiniteSet(Claims(lane, n))
  /\ Cardinality(Claims(lane, n)) + Cardinality(Inserting(lane, n)) <= Cardinality(Requests)

\* Two parts of a finite set that share nothing are together no larger than it.
LEMMA DisjointParts ==
  ASSUME NEW S, IsFiniteSet(S), NEW A \in SUBSET S, NEW B \in SUBSET S, A \cap B = {}
  PROVE  /\ Cardinality(A) \in Nat /\ Cardinality(B) \in Nat
         /\ Cardinality(A) + Cardinality(B) <= Cardinality(S)
<1>1. IsFiniteSet(A) /\ IsFiniteSet(B)
  BY FS_Subset
<1>2. Cardinality(A \cup B) = Cardinality(A) + Cardinality(B) - Cardinality(A \cap B)
  BY <1>1, FS_Union
<1>3. Cardinality(A \cap B) = 0
  BY FS_EmptySet
<1>4. A \cup B \in SUBSET S
  OBVIOUS
<1>5. Cardinality(A \cup B) <= Cardinality(S)
  BY <1>4, FS_Subset
<1>6. Cardinality(A) \in Nat /\ Cardinality(B) \in Nat /\ Cardinality(S) \in Nat
  BY <1>1, FS_CardinalityType
<1> QED BY <1>2, <1>3, <1>5, <1>6

\* Where a handler's step takes it: to the update of a confirm only from the read of a
\* PENDING row, to the insert only from an accepted slot check.
LEMMA OwnStep ==
  ASSUME TypeOK, NEW p \in Requests, StartRequest(p) \/ Handler(p) \/ Abort(p)
  PROVE  /\ requests'[p].pc = "confirmUpdate" =>
              Active(requests'[p].id) /\ UNCHANGED appointments
         /\ requests'[p].pc = "insert" =>
              /\ CreateCheckSlot(p)
              /\ ValidateSlot(requests[p].startTime, requests[p].duration,
                              BookedRanges(requests[p].serviceId, requests[p].date)) = "valid"
              /\ requests'[p] = [requests[p] EXCEPT !.pc = "insert"]
<1> DEFINE Goal ==
      /\ requests'[p].pc = "confirmUpdate" =>
           Active(requests'[p].id) /\ UNCHANGED appointments
      /\ requests'[p].pc = "insert" =>
           /\ CreateCheckSlot(p)
           /\ ValidateSlot(requests[p].startTime, requests[p].duration,
                           BookedRanges(requests[p].serviceId, requests[p].date)) = "valid"
           /\ requests'[p] = [requests[p] EXCEPT !.pc = "insert"]
<1>1. ASSUME requests'[p].pc \notin {"confirmUpdate", "insert"}
      PROVE  Goal
  BY <1>1
<1>2. ASSUME NEW r, Goto(p, r), r.pc \notin {"confirmUpdate", "insert"}
      PROVE  Goal
  <2>1. requests'[p] = r
    BY <1>2 DEF Goto, TypeOK
  <2> QED BY <1>1, <1>2, <2>1
<1>3. ASSUME StartRequest(p)
      PROVE  Goal
  <2>1. PICK user \in Users : StartAs(p, user)
    BY <1>3 DEF StartRequest
  <2>2. ASSUME NEW s, NEW date, NEW startTime, StartCreate(p, user, s, date, startTime)
        PROVE  Goal
    <3>1. PICK r : Goto(p, r) /\ r.pc = "checkSlot"
      BY <2>2 DEF StartCreate
    <3> QED BY <1>2, <3>1
  <2>3. ASSUME NEW a, StartCancel(p, user, a)
        PROVE  Goal
    <3>1. PICK r : Goto(p, r) /\ r.pc = "cancelUpdate"
      BY <2>3 DEF StartCancel
    <3> QED BY <1>2, <3>1
  <2>4. ASSUME NEW a \in AppointmentIds, StartConfirm(p, user, a)
        PROVE  Goal
    <3>1. requests'[p] = [pc |-> "confirmUpdate", id |-> a]
      BY <2>4 DEF StartConfirm, Goto, TypeOK
    <3>2. Active(a) /\ UNCHANGED appointments
      BY <2>4 DEF StartConfirm, Active
    <3> QED BY <3>1, <3>2
  <2> QED BY <2>1, <2>2, <2>3, <2>4 DEF StartAs
<1>4. ASSUME \/ CreateRefused(p) \/ ConfirmEnqueue(p) \/ CancelUpdate(p)
             \/ BroadcastFindService(p) \/ BroadcastFindBooked(p) \/ BroadcastEmit(p)
             \/ Abort(p)
      PROVE  Goal
  <2>1. \E r : Goto(p, r) /\ r.pc \in {"idle", "findService", "findBooked", "emit"}
    BY <1>4 DEF CreateRefused, ConfirmEnqueue, CancelUpdate, BroadcastFindService,
                BroadcastFindBooked, BroadcastEmit, Abort, IdleRequest, AwaitBroadcast, EmitSlots
  <2> QED BY <1>2, <2>1
<1>5. ASSUME CreateCheckSlot(p)
      PROVE  Goal
  <2>1. CASE ValidateSlot(requests[p].startTime, requests[p].duration,
                          BookedRanges(requests[p].serviceId, requests[p].date)) = "valid"
    <3>1. requests'[p] = [requests[p] EXCEPT !.pc = "insert"]
      BY <1>5, <2>1 DEF CreateCheckSlot, Goto, TypeOK
    <3>2. requests'[p].pc = "insert"
      BY <1>5, <3>1, RequestRecords, ShapeOfRequest DEF CreateCheckSlot, Creating
    <3> QED BY <1>5, <2>1, <3>1, <3>2
  <2>2. CASE ValidateSlot(requests[p].startTime, requests[p].duration,
                          BookedRanges(requests[p].serviceId, requests[p].date)) # "valid"
    <3>1. Goto(p, IdleRequest)
      BY <1>5, <2>2 DEF CreateCheckSlot
    <3> QED BY <1>2, <3>1 DEF IdleRequest
  <2> QED BY <2>1, <2>2
<1>6. ASSUME NEW a \in AppointmentIds, CreateInsert(p, a)
      PROVE  Goal
  <2> DEFINE next == AwaitBroadcast(requests[p].serviceId, requests[p].date)
  <2>1. next \in Request /\ next.pc = "findService"
    BY <1>6, RequestRecords, ShapeOfRequest DEF CreateInsert, Creating, AwaitBroadcast
  <2>2. requests' = Overtake(a, [requests EXCEPT ![p] = next])
    BY <1>6 DEF CreateInsert
  <2> HIDE DEF next
  <2>3. requests'[p] = next
    BY <2>1, <2>2, OvertakeOthers
  <2> QED BY <1>1, <2>1, <2>3
<1>7. ASSUME ConfirmUpdate(p)
      PROVE  Goal
  <2> DEFINE next == [requests[p] EXCEPT !.pc = "enqueue"]
  <2>1. next \in Request /\ next.pc = "enqueue"
    BY <1>7, RequestRecords, ShapeOfRequest DEF ConfirmUpdate, Changing, Request
  <2>2. \/ requests' = Overtake(requests[p].id, [requests EXCEPT ![p] = next])
        \/ Goto(p, next)
    BY <1>7 DEF ConfirmUpdate, Goto
  <2> HIDE DEF next
  <2>3. requests'[p] = next
    BY <2>1, <2>2 DEF Overtake, Goto, TypeOK
  <2> QED BY <1>1, <2>1, <2>3
<1> HIDE DEF Goal
<1>8. Goal
  BY <1>3, <1>4, <1>5, <1>6, <1>7 DEF Handler
<1> QED BY <1>8 DEF Goal

\* No step lets a handler claim a cancelled row that none could revive before.
LEMMA RevivingStep ==
  ASSUME TypeOK, NEW p \in Requests, StartRequest(p) \/ Handler(p) \/ Abort(p),
         NEW b, Reviving(b)'
  PROVE  Reviving(b) \/ Active(b)
<1>1. PICK q \in Requests : requests'[q].pc = "confirmUpdate" /\ requests'[q].id = b
  BY DEF Reviving
<1>2. CASE q = p
  BY <1>1, <1>2, OwnStep
<1>3. CASE q # p
  BY <1>1, <1>3, OthersStay DEF Reviving
<1> QED BY <1>2, <1>3

\* A claim on a minute is new only if its row is.
LEMMA ClaimsStep ==
  ASSUME TypeOK, RowsOfRequests, NEW p \in Requests, StartRequest(p) \/ Handler(p) \/ Abort(p),
         NEW lane, NEW n, NEW b \in Claims(lane, n)'
  PROVE  b \in Claims(lane, n) \/ CreateInsert(p, b)
<1>1. /\ b \in AppointmentIds /\ b \in Rows' /\ Lane(b)' = lane
      /\ n \in MinutesIn(Range_(b)')
      /\ Active(b)' \/ Reviving(b)'
  BY DEF Claims, MinutesIn
<1>2. Reviving(b)' => Reviving(b) \/ Active(b)
  BY RevivingStep
<1>3. ASSUME b \in Rows, Lane(b)' = Lane(b), Range_(b)' = Range_(b),
             Active(b)' => Active(b) \/ Reviving(b)
      PROVE  b \in Claims(lane, n)
  BY <1>1, <1>2, <1>3 DEF Claims
<1>4. ASSUME NEW a \in AppointmentIds, CreateInsert(p, a), b # a
      PROVE  b \in Claims(lane, n)
  <2>1. RowInserted(requests[p], a)
    BY <1>4, InsertAddsRow
  <2>2. b \in Rows /\ appointments'[b] = appointments[b]
    BY <1>1, <1>4, <2>1 DEF RowInserted
  <2> QED BY <1>3, <2>2 DEF Lane, Range_, Active
<1>5. CASE ConfirmUpdate(p)
  <2>1. StatusUpdate(requests[p].id)
    BY <1>5, ConfirmIsStatusUpdate
  <2>2. Active(b)' => Active(b) \/ b = requests[p].id
    BY <1>1, <2>1 DEF StatusUpdate
  <2>3. b = requests[p].id => Reviving(b)
    BY <1>5 DEF ConfirmUpdate, Reviving
  <2> QED BY <1>1, <1>3, <2>1, <2>2, <2>3 DEF StatusUpdate
<1>6. CASE CancelUpdate(p)
  <2>1. StatusUpdate(requests[p].id)
    BY <1>6, CancelIsStatusUpdate
  <2>2. Active(b)' => Active(b)
    <3>1. requests[p].id \in AppointmentIds /\ appointments[requests[p].id] \in Appointment
      BY <1>6, RowsAreAppointments DEF RowsOfRequests, CancelUpdate
    <3>2. [appointments[requests[p].id] EXCEPT !.status = "CANCELLED"].status = "CANCELLED"
      BY <3>1 DEF Appointment
    <3>3. b = requests[p].id => ~Active(b)'
      BY <1>6, <3>1, <3>2 DEF CancelUpdate, TypeOK, Active
    <3> QED BY <1>1, <2>1, <3>3 DEF StatusUpdate
  <2> QED BY <1>1, <1>3, <2>1, <2>2 DEF StatusUpdate
<1>7. CASE UNCHANGED appointments
  BY <1>1, <1>3, <1>7 DEF Rows, Lane, Range_, Active
<1>8. \/ \E a \in AppointmentIds : CreateInsert(p, a)
      \/ ConfirmUpdate(p) \/ CancelUpdate(p)
      \/ UNCHANGED appointments
  BY DEF StartRequest, StartAs, StartCreate, StartConfirm, StartCancel, Handler,
         Abort, CreateCheckSlot, CreateRefused, ConfirmEnqueue,
         BroadcastFindService, BroadcastFindBooked, BroadcastEmit, history
<1> QED BY <1>4, <1>5, <1>6, <1>7, <1>8

\* A handler comes to hold a minute for its insert only by an accepted slot check.
LEMMA InsertingStep ==
  ASSUME TypeOK, RowsOfRequests, NEW p \in Requests, StartRequest(p) \/ Handler(p) \/ Abort(p),
         NEW lane, NEW n, NEW q \in Inserting(lane, n)'
  PROVE  \/ q # p /\ q \in Inserting(lane, n)
         \/ /\ q = p
            /\ CreateCheckSlot(p)
            /\ ValidateSlot(requests[p].startTime, requests[p].duration,
                            BookedRanges(requests[p].serviceId, requests[p].date)) = "valid"
            /\ <<requests[p].serviceId, DayOf[requests[p].date]>> = lane
            /\ n \in MinutesIn(RangeOf(requests[p].startTime, requests[p].duration))
<1>1. /\ q \in Requests /\ requests'[q].pc = "insert"
      /\ <<requests'[q].serviceId, DayOf[requests'[q].date]>> = lane
      /\ n \in MinutesIn(RangeOf(requests'[q].startTime, requests'[q].duration))
  BY DEF Inserting, LaneAtWork
<1>2. CASE q = p
  <2>1. /\ CreateCheckSlot(p)
        /\ ValidateSlot(requests[p].startTime, requests[p].duration,
                        BookedRanges(requests[p].serviceId, requests[p].date)) = "valid"
        /\ requests'[p] = [requests[p] EXCEPT !.pc = "insert"]
    BY <1>1, <1>2, OwnStep
  <2>2. requests[p] \in Creating
    BY <2>1, RequestRecords, ShapeOfRequest DEF CreateCheckSlot
  <2>3. /\ requests'[p].serviceId = requests[p].serviceId
        /\ requests'[p].date = requests[p].date
        /\ requests'[p].startTime = requests[p].startTime
        /\ requests'[p].duration = requests[p].duration
    BY <2>1, <2>2 DEF Creating
  <2> QED BY <1>1, <1>2, <2>1, <2>3
<1>3. CASE q # p
  <2>1. Noted(q, p)
    BY <1>1, <1>3, OthersNote
  <2>2. /\ requests[q].pc = "insert"
        /\ requests'[q].serviceId = requests[q].serviceId
        /\ requests'[q].date = requests[q].date
        /\ requests'[q].startTime = requests[q].startTime
        /\ requests'[q].duration = requests[q].duration
    BY <1>1, <2>1 DEF Noted, StillReads
  <2>3. q \in Inserting(lane, n)
    BY <1>1, <2>2 DEF Inserting, LaneAtWork
  <2> QED BY <1>3, <2>3
<1> QED BY <1>2, <1>3

\* Where the slot check accepts a minute, no active row of the lane holds it: who still
\* claims it is a cancelled row that a confirm may revive.
LEMMA AcceptedMinuteIsFree ==
  ASSUME TypeOK, NEW p \in Requests, CreateCheckSlot(p),
         ValidateSlot(requests[p].startTime, requests[p].duration,
                      BookedRanges(requests[p].serviceId, requests[p].date)) = "valid",
         NEW n \in MinutesIn(RangeOf(requests[p].startTime, requests[p].duration)),
         NEW lane, lane = <<requests[p].serviceId, DayOf[requests[p].date]>>,
         NEW a \in Claims(lane, n)
  PROVE  Reviving(a)
<1> DEFINE new == RangeOf(requests[p].startTime, requests[p].duration)
<1>1. requests[p].startTime \in Time /\ requests[p].duration \in Nat
  BY RequestRecords, ShapeOfRequest, AppointmentsAssumption DEF CreateCheckSlot, Creating
<1>2. new \in TimeRange
  BY <1>1, EndOfVisit DEF RangeOf, TimeRange
<1>3. Range_(a) \in TimeRange
  BY RowsAreAppointments DEF Claims, Range_, TimeRange, Appointment
<1>4. n \in MinutesIn(new) /\ n \in MinutesIn(Range_(a))
  BY DEF Claims
<1> HIDE DEF new
<1>5. RangesOverlap(new, Range_(a))
  BY <1>2, <1>3, <1>4, OverlapIsSharedMinute
<1>6. \A booked \in BookedRanges(requests[p].serviceId, requests[p].date) : ~RangesOverlap(new, booked)
  BY ValidSlotsAreFree DEF new
<1>7. ~Active(a)
  BY <1>5, <1>6 DEF BookedRanges, Claims
<1> QED BY <1>7 DEF Claims

\* Fewer claims, or the same, keep the bound.
LEMMA FewerClaims ==
  ASSUME IsFiniteSet(Requests), NEW lane, NEW n, ClaimsBounded(lane, n),
         NEW C \in SUBSET Claims(lane, n), NEW I \in SUBSET Inserting(lane, n)
  PROVE  IsFiniteSet(C) /\ Cardinality(C) + Cardinality(I) <= Cardinality(Requests)
<1>1. IsFiniteSet(Claims(lane, n)) /\ IsFiniteSet(Inserting(lane, n))
  BY FS_Subset DEF ClaimsBounded, Inserting
<1>2. /\ IsFiniteSet(C) /\ Cardinality(C) <= Cardinality(Claims(lane, n))
      /\ IsFiniteSet(I) /\ Cardinality(I) <= Cardinality(Inserting(lane, n))
  BY <1>1, FS_Subset
<1>3. /\ Cardinality(C) \in Nat /\ Cardinality(Claims(lane, n)) \in Nat
      /\ Cardinality(I) \in Nat /\ Cardinality(Inserting(lane, n)) \in Nat
      /\ Cardinality(Requests) \in Nat
  BY <1>1, <1>2, FS_CardinalityType
<1> QED BY <1>2, <1>3 DEF ClaimsBounded

\* A row an insert adds holds a minute that its handler held before.
LEMMA InsertedMinute ==
  ASSUME TypeOK, NEW p \in Requests, NEW a \in AppointmentIds, CreateInsert(p, a),
         NEW lane, NEW n, a \in Claims(lane, n)'
  PROVE  p \in Inserting(lane, n)
<1>1. Lane(a)' = lane /\ n \in MinutesIn(Range_(a)')
  BY DEF Claims, MinutesIn
<1>2. appointments'[a] = NewRow(requests[p])
  BY InsertAddsRow DEF RowInserted
<1>3. /\ Lane(a)' = <<requests[p].serviceId, DayOf[requests[p].date]>>
      /\ Range_(a)' = RangeOf(requests[p].startTime, requests[p].duration)
  BY <1>2 DEF Lane, Range_, NewRow, RangeOf
<1> QED BY <1>1, <1>3 DEF Inserting, CreateInsert, LaneAtWork

\* Who claims a minute while nobody active holds it: one handler of a confirm for each.
LEMMA RevivingClaims ==
  ASSUME IsFiniteSet(Requests), NEW lane, NEW n, \A a \in Claims(lane, n) : Reviving(a),
         NEW I \in SUBSET Requests, \A q \in I : requests[q].pc # "confirmUpdate"
  PROVE  /\ IsFiniteSet(Claims(lane, n))
         /\ Cardinality(Claims(lane, n)) + Cardinality(I) <= Cardinality(Requests)
<1> DEFINE R == { q \in Requests : /\ requests[q].pc = "confirmUpdate"
                                   /\ requests[q].id \in Claims(lane, n) }
           f == [q \in R |-> requests[q].id]
<1>1. f \in Surjection(R, Claims(lane, n))
  <2>1. f \in [R -> Claims(lane, n)]
    OBVIOUS
  <2>2. ASSUME NEW a \in Claims(lane, n)
        PROVE  \E q \in R : f[q] = a
    <3>1. PICK q \in Requests : requests[q].pc = "confirmUpdate" /\ requests[q].id = a
      BY <2>2 DEF Reviving
    <3> QED BY <3>1
  <2> QED BY <2>1, <2>2 DEF Surjection
<1>2. R \in SUBSET Requests /\ R \cap I = {}
  OBVIOUS
<1> HIDE DEF R, f
<1>3. IsFiniteSet(R)
  BY <1>2, FS_Subset
<1>4. IsFiniteSet(Claims(lane, n)) /\ Cardinality(Claims(lane, n)) <= Cardinality(R)
  BY <1>1, <1>3, FS_Surjection
<1>5. /\ Cardinality(R) \in Nat /\ Cardinality(I) \in Nat
      /\ Cardinality(R) + Cardinality(I) <= Cardinality(Requests)
  BY <1>2, DisjointParts
<1>6. Cardinality(Claims(lane, n)) \in Nat /\ Cardinality(Requests) \in Nat
  BY <1>4, FS_CardinalityType
<1> QED BY <1>4, <1>5, <1>6

\* No step lets the claims on a minute outgrow the handlers: an insert turns a handler
\* that has passed its check into a row, and a slot check that adds such a handler
\* finds nobody but the confirms that may still revive a row, each a handler itself.
LEMMA ClaimsBoundedStep ==
  ASSUME IsFiniteSet(Requests), TypeOK, RowsOfRequests, [Next]_vars,
         NEW lane, NEW n, ClaimsBounded(lane, n)
  PROVE  ClaimsBounded(lane, n)'
<1> DEFINE C == Claims(lane, n)'
           I == Inserting(lane, n)'
<1>1. ASSUME C \subseteq Claims(lane, n), I \subseteq Inserting(lane, n)
      PROVE  IsFiniteSet(C) /\ Cardinality(C) + Cardinality(I) <= Cardinality(Requests)
  BY <1>1, FewerClaims
<1>2. ASSUME UNCHANGED <<appointments, requests>>
      PROVE  C = Claims(lane, n) /\ I = Inserting(lane, n)
  BY <1>2 DEF Claims, Inserting, Rows, Lane, Range_, Active, Reviving, LaneAtWork
<1>3. ASSUME NEW p \in Requests, StartRequest(p) \/ Handler(p) \/ Abort(p)
      PROVE  IsFiniteSet(C) /\ Cardinality(C) + Cardinality(I) <= Cardinality(Requests)
  <2>1. \A b \in C : b \in Claims(lane, n) \/ CreateInsert(p, b)
    BY <1>3, ClaimsStep
  <2>2. \A q \in I : \/ q # p /\ q \in Inserting(lane, n)
                     \/ /\ q = p
                        /\ CreateCheckSlot(p)
                        /\ ValidateSlot(requests[p].startTime, requests[p].duration,
                                        BookedRanges(requests[p].serviceId, requests[p].date)) = "valid"
                        /\ <<requests[p].serviceId, DayOf[requests[p].date]>> = lane
                        /\ n \in MinutesIn(RangeOf(requests[p].startTime, requests[p].duration))
    BY <1>3, InsertingStep
  <2>3. CASE \E a \in AppointmentIds : a \in C /\ CreateInsert(p, a)
    <3>1. PICK a \in AppointmentIds : a \in C /\ CreateInsert(p, a)
      BY <2>3
    <3>2. p \in Inserting(lane, n)
      BY <3>1, InsertedMinute
    <3>3. C \subseteq Claims(lane, n) \cup {a}
      <4>1. ASSUME NEW b \in AppointmentIds, CreateInsert(p, b), b # a
            PROVE  FALSE
        <5>1. RowInserted(requests[p], a) /\ RowInserted(requests[p], b)
          BY <3>1, <4>1, InsertAddsRow
        <5> QED BY <4>1, <5>1 DEF RowInserted
      <4>2. C \subseteq AppointmentIds
        BY DEF Claims
      <4> QED BY <2>1, <4>1, <4>2
    <3>4. I \subseteq Inserting(lane, n) \ {p}
      <4>1. ~CreateCheckSlot(p)
        BY <3>1 DEF CreateInsert, CreateCheckSlot
      <4> QED BY <2>2, <4>1
    <3>5. IsFiniteSet(Claims(lane, n)) /\ IsFiniteSet(Inserting(lane, n))
      BY FS_Subset DEF ClaimsBounded, Inserting
    <3>6. /\ IsFiniteSet(Claims(lane, n) \cup {a})
          /\ Cardinality(Claims(lane, n) \cup {a}) <= Cardinality(Claims(lane, n)) + 1
          /\ Cardinality(Claims(lane, n)) \in Nat
      <4>1. Cardinality(Claims(lane, n)) \in Nat
        BY <3>5, FS_CardinalityType
      <4>2. /\ IsFiniteSet(Claims(lane, n) \cup {a})
            /\ Cardinality(Claims(lane, n) \cup {a}) =
                 IF a \in Claims(lane, n) THEN Cardinality(Claims(lane, n))
                                          ELSE Cardinality(Claims(lane, n)) + 1
        BY <3>5, FS_AddElement
      <4> QED BY <4>1, <4>2
    <3>7. /\ IsFiniteSet(Inserting(lane, n) \ {p})
          /\ Cardinality(Inserting(lane, n) \ {p}) = Cardinality(Inserting(lane, n)) - 1
          /\ Cardinality(Inserting(lane, n)) \in Nat
      BY <3>2, <3>5, FS_RemoveElement, FS_CardinalityType
    <3> HIDE DEF C, I
    <3>8. IsFiniteSet(C) /\ Cardinality(C) <= Cardinality(Claims(lane, n) \cup {a})
      BY <3>3, <3>6, FS_Subset
    <3>9. IsFiniteSet(I) /\ Cardinality(I) <= Cardinality(Inserting(lane, n) \ {p})
      BY <3>4, <3>7, FS_Subset
    <3>10. /\ Cardinality(C) \in Nat /\ Cardinality(I) \in Nat
           /\ Cardinality(Claims(lane, n) \cup {a}) \in Nat
           /\ Cardinality(Requests) \in Nat
      BY <3>6, <3>8, <3>9, FS_CardinalityType
    <3> QED BY <3>6, <3>7, <3>8, <3>9, <3>10 DEF ClaimsBounded
  <2>4. CASE p \in I
    <3>1. /\ CreateCheckSlot(p)
          /\ ValidateSlot(requests[p].startTime, requests[p].duration,
                          BookedRanges(requests[p].serviceId, requests[p].date)) = "valid"
          /\ <<requests[p].serviceId, DayOf[requests[p].date]>> = lane
          /\ n \in MinutesIn(RangeOf(requests[p].startTime, requests[p].duration))
      BY <2>2, <2>4
    <3>2. \A a \in Claims(lane, n) : Reviving(a)
      BY <3>1, AcceptedMinuteIsFree
    <3>3. I \subseteq Requests
      BY DEF Inserting
    <3>4. \A q \in I : requests[q].pc # "confirmUpdate"
      BY <2>2, <3>1 DEF Inserting, CreateCheckSlot
    <3>5. C \subseteq Claims(lane, n)
      BY <2>1, <3>1 DEF CreateInsert, CreateCheckSlot
    <3> HIDE DEF C, I
    <3>6. /\ IsFiniteSet(Claims(lane, n))
          /\ Cardinality(Claims(lane, n)) + Cardinality(I) <= Cardinality(Requests)
      BY <3>2, <3>3, <3>4, RevivingClaims
    <3>7. IsFiniteSet(C) /\ Cardinality(C) <= Cardinality(Claims(lane, n)) /\ IsFiniteSet(I)
      BY <3>3, <3>5, <3>6, FS_Subset
    <3>8. /\ Cardinality(C) \in Nat /\ Cardinality(I) \in Nat
          /\ Cardinality(Claims(lane, n)) \in Nat /\ Cardinality(Requests) \in Nat
      BY <3>6, <3>7, FS_CardinalityType
    <3> QED BY <3>6, <3>7, <3>8
  <2>5. CASE p \notin I /\ ~\E a \in AppointmentIds : a \in C /\ CreateInsert(p, a)
    <3>1. C \subseteq Claims(lane, n)
      BY <2>1, <2>5 DEF Claims
    <3>2. I \subseteq Inserting(lane, n)
      BY <2>2, <2>5
    <3> QED BY <1>1, <3>1, <3>2
  <2> QED BY <2>3, <2>4, <2>5
<1>4. \/ \E p \in Requests : StartRequest(p) \/ Handler(p) \/ Abort(p)
      \/ UNCHANGED <<appointments, requests>>
  BY DEF Next, vars, Mail, Catalogue, CreateService, UpdateService, RemoveService
<1>5. IsFiniteSet(C) /\ Cardinality(C) + Cardinality(I) <= Cardinality(Requests)
  BY <1>1, <1>2, <1>3, <1>4
<1> QED BY <1>5 DEF ClaimsBounded

\* Whatever the handlers race, no minute of a service's day is held by more active
\* visits than there are handlers at work at once: the slot check (lines 110-117) stops
\* all but those that read before the others wrote, and of the confirms (208) all but
\* those that read PENDING before the cancel.
THEOREM OverbookingIsBounded ==
  ASSUME IsFiniteSet(Requests)
  PROVE  Spec => []OverbookingBounded
<1> DEFINE Inv == /\ TypeOK /\ RowsOfRequests
                  /\ \A lane \in Lanes, n \in Nat : ClaimsBounded(lane, n)
<1>1. Init => Inv
  <2> SUFFICES ASSUME Init, NEW lane \in Lanes, NEW n \in Nat
               PROVE  ClaimsBounded(lane, n)
    BY BaseInit
  <2>1. Claims(lane, n) = {} /\ Inserting(lane, n) = {}
    BY DEF Init, Claims, Inserting, Rows, IdleRequest
  <2>2. IsFiniteSet({}) /\ Cardinality({}) = 0 /\ Cardinality(Requests) \in Nat
    BY FS_EmptySet, FS_CardinalityType
  <2> QED BY <2>1, <2>2 DEF ClaimsBounded
<1>2. Inv /\ [Next]_vars => Inv'
  BY BaseStep, ClaimsBoundedStep
<1>3. Inv => OverbookingBounded
  <2> SUFFICES ASSUME Inv, NEW lane \in Lanes, NEW n \in Nat
               PROVE  Cardinality(Holders(lane, n)) <= Cardinality(Requests)
    BY DEF OverbookingBounded
  <2>1. Holders(lane, n) \in SUBSET Claims(lane, n)
    BY DEF Holders, Claims, Active
  <2>2. IsFiniteSet(Holders(lane, n))
    BY <2>1, FS_Subset DEF ClaimsBounded
  <2>3. Cardinality(Holders(lane, n)) + Cardinality({}) <= Cardinality(Requests)
    BY <2>1, FewerClaims
  <2>4. Cardinality({}) = 0 /\ Cardinality(Holders(lane, n)) \in Nat
    BY <2>2, FS_EmptySet, FS_CardinalityType
  <2> QED BY <2>3, <2>4
<1> QED BY <1>1, <1>2, <1>3, PTL DEF Spec

-----------------------------------------------------------------------------
\* How long a request can take.

\* The awaited calls a handler has at most before it returns.
AwaitsLeft(p) ==
  LET pc == requests[p].pc
  IN  IF pc \in {"checkSlot", "confirmUpdate"} THEN 5
      ELSE IF pc \in {"insert", "enqueue", "cancelUpdate"} THEN 4
      ELSE IF pc = "findService" THEN 3
      ELSE IF pc = "findBooked" THEN 2
      ELSE IF pc = "emit" THEN 1
      ELSE 0

\* Every call that returns brings its handler nearer to its end: none is made twice.
LEMMA HandlerGoesForward ==
  ASSUME TypeOK, NEW p \in Requests, Handler(p)
  PROVE  AwaitsLeft(p)' < AwaitsLeft(p)
<1> DEFINE pc == requests[p].pc
           pcNext == requests'[p].pc
<1>1. ASSUME NEW r, Goto(p, r)
      PROVE  pcNext = r.pc
  BY <1>1 DEF Goto, TypeOK
<1>2. CASE CreateCheckSlot(p)
  <2>1. pc = "checkSlot" /\ pcNext \in {"insert", "idle"}
    <3>1. [requests[p] EXCEPT !.pc = "insert"].pc = "insert"
      BY <1>2, RequestRecords, ShapeOfRequest DEF CreateCheckSlot, Creating
    <3> QED BY <1>1, <1>2, <3>1 DEF CreateCheckSlot, IdleRequest
  <2> QED BY <2>1 DEF AwaitsLeft
<1>3. ASSUME NEW a \in AppointmentIds, CreateInsert(p, a)
      PROVE  AwaitsLeft(p)' < AwaitsLeft(p)
  <2> DEFINE next == AwaitBroadcast(requests[p].serviceId, requests[p].date)
  <2>1. next \in Request /\ next.pc = "findService"
    BY <1>3, RequestRecords, ShapeOfRequest DEF CreateInsert, Creating, AwaitBroadcast
  <2>2. requests' = Overtake(a, [requests EXCEPT ![p] = next])
    BY <1>3 DEF CreateInsert
  <2> HIDE DEF next
  <2>3. requests'[p] = next
    BY <2>1, <2>2, OvertakeOthers
  <2> QED BY <1>3, <2>1, <2>3 DEF AwaitsLeft, CreateInsert
<1>4. CASE CreateRefused(p)
  <2>1. pc = "insert" /\ pcNext = "idle"
    BY <1>1, <1>4 DEF CreateRefused, IdleRequest
  <2> QED BY <2>1 DEF AwaitsLeft
<1>5. CASE ConfirmUpdate(p)
  <2> DEFINE next == [requests[p] EXCEPT !.pc = "enqueue"]
  <2>1. next.pc = "enqueue"
    BY <1>5, RequestRecords, ShapeOfRequest DEF ConfirmUpdate, Changing
  <2>2. \/ requests' = Overtake(requests[p].id, [requests EXCEPT ![p] = next])
        \/ Goto(p, next)
    BY <1>5 DEF ConfirmUpdate, Goto
  <2> HIDE DEF next
  <2>3. requests'[p] = next
    BY <2>1, <2>2 DEF Overtake, Goto, TypeOK
  <2> QED BY <1>5, <2>1, <2>3 DEF AwaitsLeft, ConfirmUpdate
<1>6. CASE ConfirmEnqueue(p) \/ CancelUpdate(p)
  <2>1. pc \in {"enqueue", "cancelUpdate"} /\ pcNext = "findService"
    BY <1>1, <1>6 DEF ConfirmEnqueue, CancelUpdate, AwaitBroadcast
  <2> QED BY <2>1 DEF AwaitsLeft
<1>7. CASE BroadcastFindService(p)
  <2>1. pc = "findService" /\ pcNext \in {"findBooked", "idle"}
    <3>1. CASE services[requests[p].serviceId].state = "live"
      BY <1>1, <1>7, <3>1 DEF BroadcastFindService
    <3>2. CASE services[requests[p].serviceId].state # "live"
      BY <1>1, <1>7, <3>2 DEF BroadcastFindService, IdleRequest
    <3> QED BY <1>7, <3>1, <3>2 DEF BroadcastFindService
  <2> QED BY <2>1 DEF AwaitsLeft
<1>8. CASE BroadcastFindBooked(p)
  <2>1. pc = "findBooked" /\ pcNext = "emit"
    BY <1>1, <1>8 DEF BroadcastFindBooked, EmitSlots
  <2> QED BY <2>1 DEF AwaitsLeft
<1>9. CASE BroadcastEmit(p)
  <2>1. pc = "emit" /\ pcNext = "idle"
    BY <1>1, <1>9 DEF BroadcastEmit, IdleRequest
  <2> QED BY <2>1 DEF AwaitsLeft
<1> QED BY <1>2, <1>3, <1>4, <1>5, <1>6, <1>7, <1>8, <1>9 DEF Handler

\* No other step sends a handler back.
LEMMA NobodyGoesBack ==
  ASSUME TypeOK, [Next]_vars, NEW p \in Requests, requests[p].pc # "idle"
  PROVE  AwaitsLeft(p)' <= AwaitsLeft(p)
<1>1. CASE Handler(p)
  BY <1>1, HandlerGoesForward DEF AwaitsLeft
<1>2. CASE Abort(p)
  <2>1. requests'[p].pc = "idle"
    BY <1>2 DEF Abort, Goto, IdleRequest, TypeOK
  <2> QED BY <2>1 DEF AwaitsLeft
<1>3. ASSUME requests'[p].pc = requests[p].pc
      PROVE  AwaitsLeft(p)' <= AwaitsLeft(p)
  BY <1>3 DEF AwaitsLeft
<1>4. ~StartRequest(p)
  BY DEF StartRequest, StartAs, StartCreate, StartConfirm, StartCancel
<1>5. ASSUME NEW q \in Requests \ {p}, StartRequest(q) \/ Handler(q) \/ Abort(q)
      PROVE  requests'[p].pc = requests[p].pc
  BY <1>5, OthersStay
<1>6. ASSUME UNCHANGED requests
      PROVE  requests'[p].pc = requests[p].pc
  BY <1>6
<1>7. \/ \E q \in Requests : StartRequest(q) \/ Handler(q) \/ Abort(q)
      \/ UNCHANGED requests
  BY DEF Next, vars, Mail, Catalogue, CreateService, UpdateService, RemoveService
<1> QED BY <1>1, <1>2, <1>3, <1>4, <1>5, <1>6, <1>7

\* A request that has started makes at most five awaited calls more: each one that
\* returns leaves fewer, and nothing that happens beside it sets the request back.  With
\* handlers that go on, that is why every request returns.
THEOREM HandlersGoForward ==
  Spec => [][\A p \in Requests :
               /\ Handler(p) => AwaitsLeft(p)' < AwaitsLeft(p)
               /\ requests[p].pc # "idle" => AwaitsLeft(p)' <= AwaitsLeft(p)]_vars
<1>1. TypeOK /\ [Next]_vars
        => [\A p \in Requests :
              /\ Handler(p) => AwaitsLeft(p)' < AwaitsLeft(p)
              /\ requests[p].pc # "idle" => AwaitsLeft(p)' <= AwaitsLeft(p)]_vars
  BY HandlerGoesForward, NobodyGoesBack
<1> QED BY <1>1, TypeCorrect, PTL DEF Spec

-----------------------------------------------------------------------------
\* What the abstract calendar is good for.

\* The entries of the calendar are visits or nothing.
EntriesAreVisits == \A v \in AppointmentIds : AllVisits[v] \in Cal!Entry \cup {NULL}

\* In terms of the rows: held minutes of a lane are held once.
HeldOnce ==
  \A v, w \in AppointmentIds :
    /\ v # w
    /\ AllVisits[v] # NULL /\ AllVisits[v].status # "CANCELLED"
    /\ AllVisits[w] # NULL /\ AllVisits[w].status # "CANCELLED"
    /\ AllVisits[v].lane = AllVisits[w].lane
    => AllVisits[v].minutes \cap AllVisits[w].minutes = {}

\* A step of the calendar keeps both.
LEMMA CalendarStep ==
  ASSUME EntriesAreVisits, HeldOnce, [Cal!Next]_AllVisits
  PROVE  EntriesAreVisits' /\ HeldOnce'
<1>1. AllVisits = [a \in AppointmentIds |-> AllVisits[a]]
  BY DEF AllVisits
<1>2. ASSUME NEW v \in AppointmentIds, NEW new \in Cal!Entry,
             AllVisits' = [AllVisits EXCEPT ![v] = new],
             new.status # "CANCELLED" =>
               \A w \in AppointmentIds \ {v} :
                 AllVisits[w] # NULL /\ AllVisits[w].status # "CANCELLED"
                   /\ AllVisits[w].lane = new.lane
                   => AllVisits[w].minutes \cap new.minutes = {}
      PROVE  EntriesAreVisits' /\ HeldOnce'
  <2>1. /\ AllVisits'[v] = new
        /\ \A w \in AppointmentIds \ {v} : AllVisits'[w] = AllVisits[w]
    BY <1>1, <1>2
  <2>2. EntriesAreVisits'
    BY <1>2, <2>1 DEF EntriesAreVisits
  <2>3. HeldOnce'
    BY <1>2, <2>1 DEF HeldOnce
  <2> QED BY <2>2, <2>3
<1>3. ASSUME NEW v \in AppointmentIds, Cal!Book(v)
      PROVE  EntriesAreVisits' /\ HeldOnce'
  <2> DEFINE new == AllVisits'[v]
  <2>1. /\ new \in Cal!Entry
        /\ new.status = "PENDING"
        /\ \A w \in AppointmentIds :
             AllVisits[w] # NULL /\ AllVisits[w].status # "CANCELLED"
               /\ AllVisits[w].lane = new.lane
               => AllVisits[w].minutes \cap new.minutes = {}
        /\ AllVisits' = [AllVisits EXCEPT ![v] = new]
    BY <1>3 DEF Cal!Book, Cal!Held, AllVisits
  <2> HIDE DEF new
  <2> QED BY <1>2, <2>1
<1>4. ASSUME NEW v \in AppointmentIds, Cal!Confirm(v) \/ Cal!Cancel(v)
      PROVE  EntriesAreVisits' /\ HeldOnce'
  <2>1. PICK status \in {"CONFIRMED", "CANCELLED"} :
          /\ AllVisits[v] # NULL /\ AllVisits[v].status # "CANCELLED"
          /\ AllVisits' = [AllVisits EXCEPT ![v] = [AllVisits[v] EXCEPT !.status = status]]
    BY <1>4 DEF Cal!Confirm, Cal!Cancel, Cal!Held, AllVisits
  <2> DEFINE new == [AllVisits[v] EXCEPT !.status = status]
  <2>2. AllVisits[v] \in Cal!Entry
    BY <2>1 DEF EntriesAreVisits
  <2>3. /\ new \in Cal!Entry
        /\ new.lane = AllVisits[v].lane /\ new.minutes = AllVisits[v].minutes
    BY <2>2 DEF Cal!Entry
  <2> HIDE DEF new
  <2>4. \A w \in AppointmentIds \ {v} :
          AllVisits[w] # NULL /\ AllVisits[w].status # "CANCELLED"
            /\ AllVisits[w].lane = new.lane
            => AllVisits[w].minutes \cap new.minutes = {}
    BY <2>1, <2>3 DEF HeldOnce
  <2> QED BY <1>2, <2>1, <2>3, <2>4 DEF new
<1>5. ASSUME UNCHANGED AllVisits
      PROVE  EntriesAreVisits' /\ HeldOnce'
  BY <1>5 DEF EntriesAreVisits, HeldOnce
<1> QED BY <1>3, <1>4, <1>5 DEF Cal!Next, AllVisits

\* The calendar never sells a minute twice (README.md:96), whatever is booked, confirmed
\* and cancelled: what refines it sells none twice either.
THEOREM CalendarsAreExclusive == Cal!Spec => []Cal!NoMinuteHeldTwice
<1>1. Cal!Init => EntriesAreVisits /\ HeldOnce
  BY DEF Cal!Init, AllVisits, EntriesAreVisits, HeldOnce
<1>2. EntriesAreVisits /\ HeldOnce /\ [Cal!Next]_AllVisits => EntriesAreVisits' /\ HeldOnce'
  BY CalendarStep
<1>3. HeldOnce => Cal!NoMinuteHeldTwice
  BY DEF HeldOnce, Cal!NoMinuteHeldTwice, Cal!Held, AllVisits
<1>4. Cal!Spec => Cal!Init /\ [][Cal!Next]_AllVisits
  BY DEF Cal!Spec, AllVisits
<1> QED BY <1>1, <1>2, <1>3, <1>4, PTL
=============================================================================
