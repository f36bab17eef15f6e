---------------------------- MODULE Appointments ----------------------------
(***************************************************************************)
(* Booking: AppointmentsService and ServicesService over their database    *)
(* tables, the slot rooms of AppointmentsGateway, and the queue of         *)
(* confirmation mails.                                                     *)
(*                                                                         *)
(* A request handler is an async function without a transaction: between   *)
(* two of its awaits any other handler may run.  Each action is therefore  *)
(* one awaited call, taken where the database, Redis or the socket acts,   *)
(* together with the synchronous code up to the next one; what the handler *)
(* carries from one to the next is its record in `requests`.               *)
(***************************************************************************)
EXTENDS TimeSlots, ConfirmationQueue, FiniteSets

CONSTANTS
  Requests,        \* handlers that can be in progress at once
  Users,           \* who sends requests: the id and role of a User row, which the
                   \* JWT strategy reads and the controllers pass on
  ServiceIds,
  DateStrings,     \* the texts a client may send as a date
  DayOf,           \* the calendar day each text denotes, in its canonical text
  StartTimes,      \* the start texts clients send
  Durations,       \* the durations staff give a service
  NULL

VARIABLES
  services,        \* the Service table
  appointments,    \* the Appointment table; NULL is an id not yet used
  requests,        \* the continuation of each handler
  board,           \* per room, the last slots pushed to it
  \* History, read by no action:
  unseen,          \* rows that became active between a row's slot check and its insert
  revived,         \* rows a late confirm took from CANCELLED back to CONFIRMED
  lost,            \* confirmed rows whose handler died before queue.add
  dirty            \* lanes with a push that missed the canonical room, until that
                   \* room is pushed what is free

vars == <<services, appointments, requests, jobs, board, unseen, revived, lost, dirty>>
history == <<unseen, revived, lost, dirty>>

UserIds == { user.id : user \in Users }
Days  == { DayOf[text] : text \in DateStrings }
Lanes == ServiceIds \X Days          \* a service on a day: what slots are counted on
Rooms == ServiceIds \X DateStrings   \* roomKey(serviceId, date)

Service == [state : {"unborn", "deleted"}, isActive : {FALSE}, duration : {0}]
             \cup [state : {"live"}, isActive : BOOLEAN, duration : Durations]

Appointment == [userId : UserIds, serviceId : ServiceIds, date : Days,
                startTime : Time, endTime : Time, duration : Durations,
                status : {"PENDING", "CONFIRMED", "CANCELLED"}, confirmedAt : BOOLEAN]

\* `missed`, in a handler that has read bookings and not yet used them: the rows
\* that became active since (history).
Idle == [pc : {"idle"}]
Creating == [pc : {"checkSlot", "insert"}, userId : UserIds, serviceId : ServiceIds,
             date : DateStrings, startTime : StartTimes, duration : Durations,
             missed : SUBSET AppointmentIds]
Changing == [pc : {"confirmUpdate", "enqueue", "cancelUpdate"}, id : AppointmentIds]
Broadcasting ==
  [pc : {"findService"}, serviceId : ServiceIds, date : DateStrings]
    \cup [pc : {"findBooked"}, serviceId : ServiceIds, date : DateStrings,
          duration : Durations]
    \cup [pc : {"emit"}, serviceId : ServiceIds, date : DateStrings,
          duration : Durations, slots : SUBSET Time, missed : SUBSET AppointmentIds]

Request == Idle \cup Creating \cup Changing \cup Broadcasting

IdleRequest == [pc |-> "idle"]

Push == [duration : Durations, slots : SUBSET Time]

ASSUME AppointmentsAssumption ==
  /\ DayOf \in [DateStrings -> DateStrings]
  /\ \A text \in DateStrings : DayOf[DayOf[text]] = DayOf[text]
  /\ StartTimes \subseteq Time
  /\ Durations \subseteq Nat \ {0}
  /\ NULL \notin Appointment
  /\ NULL \notin Push

Rows == { a \in AppointmentIds : appointments[a] # NULL }
Active(a) == a \in Rows /\ appointments[a].status # "CANCELLED"
Lane(a) == <<appointments[a].serviceId, appointments[a].date>>
Range_(a) == [startTime |-> appointments[a].startTime, endTime |-> appointments[a].endTime]

\* getBookedRangesForDate(new Date(date), serviceId)
BookedRanges(serviceId, date) ==
  { Range_(a) : a \in { b \in AppointmentIds :
                         Active(b) /\ Lane(b) = <<serviceId, DayOf[date]>> } }

Init ==
  /\ services = [s \in ServiceIds |-> [state |-> "unborn", isActive |-> FALSE, duration |-> 0]]
  /\ appointments = [a \in AppointmentIds |-> NULL]
  /\ requests = [p \in Requests |-> IdleRequest]
  /\ jobs = <<>>
  /\ board = [r \in Rooms |-> NULL]
  /\ unseen = [a \in AppointmentIds |-> {}]
  /\ revived = {} /\ lost = {} /\ dirty = {}

Goto(p, request) == requests' = [requests EXCEPT ![p] = request]

\* The other handlers learn nothing of a row that becomes active now.
Overtake(a, reqs) ==
  [q \in Requests |->
     IF reqs[q].pc \in {"insert", "emit"}
     THEN [reqs[q] EXCEPT !.missed = @ \cup {a}] ELSE reqs[q]]

AwaitBroadcast(serviceId, date) ==
  [pc |-> "findService", serviceId |-> serviceId, date |-> date]

-----------------------------------------------------------------------------
\* ServicesService: each method is one write (update and remove read first, but
\* carry nothing from the read into the write).

CreateService(s, duration, isActive) ==
  /\ services[s].state = "unborn"
  /\ services' = [services EXCEPT
       ![s] = [state |-> "live", isActive |-> isActive, duration |-> duration]]
  /\ UNCHANGED <<appointments, requests, jobs, board, history>>

\* Mutant: the DTO's Min(15) is gone.
UpdateServiceUnbounded(s, duration, isActive) ==
  /\ services[s].state = "live"
  /\ services' = [services EXCEPT ![s].isActive = isActive, ![s].duration = 0]
  /\ UNCHANGED <<appointments, requests, jobs, board, history>>

UpdateService(s, duration, isActive) ==
  /\ services[s].state = "live"
  /\ services' = [services EXCEPT ![s].isActive = isActive, ![s].duration = duration]
  /\ UNCHANGED <<appointments, requests, jobs, board, history>>

\* Mutant: the foreign key of Appointment.serviceId is not restricting.
RemoveServiceCascading(s) ==
  /\ services[s].state = "live"
  /\ services' = [services EXCEPT
       ![s] = [state |-> "deleted", isActive |-> FALSE, duration |-> 0]]
  /\ UNCHANGED <<appointments, requests, jobs, board, history>>

\* The foreign key refuses the delete while any row, cancelled ones included,
\* refers to the service.
RemoveService(s) ==
  /\ services[s].state = "live"
  /\ \A a \in Rows : appointments[a].serviceId # s
  /\ services' = [services EXCEPT
       ![s] = [state |-> "deleted", isActive |-> FALSE, duration |-> 0]]
  /\ UNCHANGED <<appointments, requests, jobs, board, history>>

-----------------------------------------------------------------------------
\* create()

\* Bound: a create starts only if an id is left for it.
IdLeft ==
  Cardinality({ q \in Requests : requests[q].pc \in {"checkSlot", "insert"} })
    < Cardinality(AppointmentIds \ Rows)

\* Lines 104-108; a missing or inactive service ends the request with nothing done.
StartCreate(p, user, s, date, startTime) ==
  /\ requests[p].pc = "idle"
  /\ IdLeft
  /\ services[s].state = "live"
  /\ services[s].isActive
  /\ Goto(p, [pc |-> "checkSlot", userId |-> user.id, serviceId |-> s, date |-> date,
              startTime |-> startTime, duration |-> services[s].duration, missed |-> {}])
  /\ UNCHANGED <<services, appointments, jobs, board, history>>

\* Mutant: the bookings are read but the verdict is dropped.
CreateCheckSlotIgnored(p) ==
  LET r == requests[p]
  IN  /\ r.pc = "checkSlot"
      /\ Goto(p, [r EXCEPT !.pc = "insert"])
      /\ UNCHANGED <<services, appointments, jobs, board, history>>

\* Lines 110-117.
CreateCheckSlot(p) ==
  LET r == requests[p]
  IN  /\ r.pc = "checkSlot"
      /\ IF ValidateSlot(r.startTime, r.duration, BookedRanges(r.serviceId, r.date)) = "valid"
         THEN Goto(p, [r EXCEPT !.pc = "insert"])
         ELSE Goto(p, IdleRequest)
      /\ UNCHANGED <<services, appointments, jobs, board, history>>

\* Lines 119-121 make dates of the two texts, the insert needs its service.
InsertAccepted(r) == IsClockTime(r.startTime) /\ services[r.serviceId].state = "live"

\* Mutant: the end of the visit is read from the service at the time of the insert.
NewRowRepriced(r) ==
  [userId |-> r.userId, serviceId |-> r.serviceId, date |-> DayOf[r.date],
   startTime |-> r.startTime,
   endTime |-> CalcEndTime(r.startTime, services[r.serviceId].duration),
   duration |-> r.duration, status |-> "PENDING", confirmedAt |-> FALSE]

\* The row keeps the duration the service had when the request read it.
NewRow(r) ==
  [userId |-> r.userId, serviceId |-> r.serviceId, date |-> DayOf[r.date],
   startTime |-> r.startTime, endTime |-> CalcEndTime(r.startTime, r.duration),
   duration |-> r.duration, status |-> "PENDING", confirmedAt |-> FALSE]

\* Lines 122-138: the insert, up to the call of broadcastSlots with the client's
\* own text of the date.
CreateInsert(p, a) ==
  LET r == requests[p]
  IN  /\ r.pc = "insert"
      /\ InsertAccepted(r)
      /\ a \notin Rows
      /\ appointments' = [appointments EXCEPT ![a] = NewRow(r)]
      /\ unseen' = [unseen EXCEPT ![a] = r.missed]
      /\ requests' = Overtake(a, [requests EXCEPT ![p] = AwaitBroadcast(r.serviceId, r.date)])
      /\ UNCHANGED <<services, jobs, board, revived, lost, dirty>>

\* Mutant: only a missing service ends the request, a bad time leaves it hanging.
CreateRefusedForService(p) ==
  /\ requests[p].pc = "insert"
  /\ services[requests[p].serviceId].state # "live"
  /\ Goto(p, IdleRequest)
  /\ UNCHANGED <<services, appointments, jobs, board, history>>

\* The database client throws: an Invalid Date, or a service deleted meanwhile.
CreateRefused(p) ==
  /\ requests[p].pc = "insert"
  /\ ~InsertAccepted(requests[p])
  /\ Goto(p, IdleRequest)
  /\ UNCHANGED <<services, appointments, jobs, board, history>>

-----------------------------------------------------------------------------
\* confirm()

\* Mutant: the status is not looked at.
StartConfirmUnchecked(p, user, a) ==
  /\ requests[p].pc = "idle"
  /\ user.role = "STAFF"
  /\ a \in Rows
  /\ Goto(p, [pc |-> "confirmUpdate", id |-> a])
  /\ UNCHANGED <<services, appointments, jobs, board, history>>

\* Lines 193-206; the refusals end the request with nothing done.
StartConfirm(p, user, a) ==
  /\ requests[p].pc = "idle"
  /\ user.role = "STAFF"
  /\ a \in Rows
  /\ appointments[a].status = "PENDING"
  /\ Goto(p, [pc |-> "confirmUpdate", id |-> a])
  /\ UNCHANGED <<services, appointments, jobs, board, history>>

\* Lines 208-215: the update names the row by its id alone, so it confirms the row
\* whatever its status has become since it was read.
ConfirmUpdate(p) ==
  LET a == requests[p].id
      late == appointments[a].status = "CANCELLED"
      next == [requests EXCEPT ![p].pc = "enqueue"]
  IN  /\ requests[p].pc = "confirmUpdate"
      /\ appointments' = [appointments EXCEPT
           ![a].status = "CONFIRMED", ![a].confirmedAt = TRUE]
      /\ revived' = IF late THEN revived \cup {a} ELSE revived
      /\ requests' = IF late THEN Overtake(a, next) ELSE next
      /\ UNCHANGED <<services, jobs, board, unseen, lost, dirty>>

\* Mutant: a failing queue is passed over in silence.
ConfirmEnqueueDropped(p) ==
  LET a == requests[p].id
  IN  /\ requests[p].pc = "enqueue"
      /\ Goto(p, AwaitBroadcast(appointments[a].serviceId, appointments[a].date))
      /\ UNCHANGED <<services, appointments, jobs, board, history>>

\* Lines 217-227.
ConfirmEnqueue(p) ==
  LET a == requests[p].id
  IN  /\ requests[p].pc = "enqueue"
      /\ AddJob(a)
      /\ Goto(p, AwaitBroadcast(appointments[a].serviceId, appointments[a].date))
      /\ UNCHANGED <<services, appointments, board, history>>

-----------------------------------------------------------------------------
\* cancel()

\* Lines 233-241 with findOne: the owner or any staff member may cancel.
StartCancel(p, user, a) ==
  /\ requests[p].pc = "idle"
  /\ a \in Rows
  /\ user.role = "CUSTOMER" => appointments[a].userId = user.id
  /\ appointments[a].status # "CANCELLED"
  /\ Goto(p, [pc |-> "cancelUpdate", id |-> a])
  /\ UNCHANGED <<services, appointments, jobs, board, history>>

\* Mutant: a cancel tells nobody.
CancelUpdateSilent(p) ==
  /\ requests[p].pc = "cancelUpdate"
  /\ appointments' = [appointments EXCEPT ![requests[p].id].status = "CANCELLED"]
  /\ Goto(p, IdleRequest)
  /\ UNCHANGED <<services, jobs, board, history>>

\* Lines 243-249.
CancelUpdate(p) ==
  LET a == requests[p].id
  IN  /\ requests[p].pc = "cancelUpdate"
      /\ appointments' = [appointments EXCEPT ![a].status = "CANCELLED"]
      /\ Goto(p, AwaitBroadcast(appointments[a].serviceId, appointments[a].date))
      /\ UNCHANGED <<services, jobs, board, history>>

-----------------------------------------------------------------------------
\* broadcastSlots()

\* Line 60; an error, as any in this function, is swallowed.
BroadcastFindService(p) ==
  LET r == requests[p]
  IN  /\ r.pc = "findService"
      /\ IF services[r.serviceId].state = "live"
         THEN Goto(p, [pc |-> "findBooked", serviceId |-> r.serviceId, date |-> r.date,
                       duration |-> services[r.serviceId].duration])
         ELSE Goto(p, IdleRequest)
      /\ UNCHANGED <<services, appointments, jobs, board, history>>

EmitSlots(r, bookedRanges) ==
  [pc |-> "emit", serviceId |-> r.serviceId, date |-> r.date, duration |-> r.duration,
   slots |-> GetAvailableSlots(r.duration, bookedRanges), missed |-> {}]

\* Mutant: the slots are counted without the bookings.
BroadcastFindBookedBlind(p) ==
  LET r == requests[p]
  IN  /\ r.pc = "findBooked"
      /\ Goto(p, EmitSlots(r, {}))
      /\ UNCHANGED <<services, appointments, jobs, board, history>>

\* Lines 61-62.
BroadcastFindBooked(p) ==
  LET r == requests[p]
  IN  /\ r.pc = "findBooked"
      /\ Goto(p, EmitSlots(r, BookedRanges(r.serviceId, r.date)))
      /\ UNCHANGED <<services, appointments, jobs, board, history>>

\* Line 63: the room is named by the text of the date, not by the day.
BroadcastEmit(p) ==
  LET r == requests[p]
      lane == <<r.serviceId, DayOf[r.date]>>
      current == GetAvailableSlots(r.duration, BookedRanges(r.serviceId, r.date))
  IN  /\ r.pc = "emit"
      /\ board' = [board EXCEPT ![<<r.serviceId, r.date>>] =
                     [duration |-> r.duration, slots |-> r.slots]]
      /\ dirty' = IF DayOf[r.date] # r.date THEN dirty \cup {lane}
                  ELSE IF r.slots = current THEN dirty \ {lane} ELSE dirty
      /\ Goto(p, IdleRequest)
      /\ UNCHANGED <<services, appointments, jobs, unseen, revived, lost>>

-----------------------------------------------------------------------------
\* A handler stops at an await: the call rejects, or the process dies.

OwesPush(p) == requests[p].pc \in {"enqueue", "findService", "findBooked", "emit"}

LaneOf(p) ==
  LET r == requests[p]
  IN  IF r.pc = "enqueue" THEN Lane(r.id) ELSE <<r.serviceId, DayOf[r.date]>>

Abort(p) ==
  /\ requests[p].pc # "idle"
  /\ Goto(p, IdleRequest)
  /\ lost' = IF requests[p].pc = "enqueue" THEN lost \cup {requests[p].id} ELSE lost
  /\ dirty' = IF OwesPush(p) THEN dirty \cup {LaneOf(p)} ELSE dirty
  /\ UNCHANGED <<services, appointments, jobs, board, unseen, revived>>

-----------------------------------------------------------------------------
Handler(p) ==
  \/ CreateCheckSlot(p)
  \/ \E a \in AppointmentIds : CreateInsert(p, a)
  \/ CreateRefused(p)
  \/ ConfirmUpdate(p)
  \/ ConfirmEnqueue(p)
  \/ CancelUpdate(p)
  \/ BroadcastFindService(p)
  \/ BroadcastFindBooked(p)
  \/ BroadcastEmit(p)

StartAs(p, user) ==
  \/ \E s \in ServiceIds, date \in DateStrings, startTime \in StartTimes :
       StartCreate(p, user, s, date, startTime)
  \/ \E a \in AppointmentIds : StartConfirm(p, user, a)
  \/ \E a \in AppointmentIds : StartCancel(p, user, a)

StartRequest(p) == \E user \in Users : StartAs(p, user)

Catalogue ==
  \E s \in ServiceIds :
    \/ \E duration \in Durations, isActive \in BOOLEAN :
         \/ CreateService(s, duration, isActive)
         \/ UpdateService(s, duration, isActive)
    \/ RemoveService(s)

Mail == Worker /\ UNCHANGED <<services, appointments, requests, board, history>>

Next ==
  \/ \E p \in Requests : StartRequest(p) \/ Handler(p) \/ Abort(p)
  \/ Catalogue
  \/ Mail

Spec == Init /\ [][Next]_vars

\* A handler that has its answer goes on, and the worker goes on with its jobs:
\* Node's event loop runs every ready continuation, and every awaited call
\* (database, Redis, SMTP with its timeouts) resolves or rejects.  Nothing is
\* assumed of clients, staff, crashes or stalls.
WorkerProgress ==
  /\ \E j \in DOMAIN jobs :
       Take(j) \/ Deliver(j) \/ Finish(j) \/ \E accepted \in {0, 1} : Reject(j, accepted)
  /\ UNCHANGED <<services, appointments, requests, board, history>>

Fairness ==
  /\ \A p \in Requests : WF_vars(Handler(p))
  /\ WF_vars(WorkerProgress)

FairSpec == Spec /\ Fairness

-----------------------------------------------------------------------------
TypeOK ==
  /\ services \in [ServiceIds -> Service]
  /\ appointments \in [AppointmentIds -> Appointment \cup {NULL}]
  /\ requests \in [Requests -> Request]
  /\ jobs \in Seq(Job)
  /\ board \in [Rooms -> Push \cup {NULL}]
  /\ unseen \in [AppointmentIds -> SUBSET AppointmentIds]
  /\ revived \subseteq AppointmentIds
  /\ lost \subseteq AppointmentIds
  /\ dirty \subseteq Lanes

\* A handler of confirm or cancel works on a row of the table.
RowsOfRequests ==
  \A p \in Requests :
    requests[p].pc \in {"confirmUpdate", "enqueue", "cancelUpdate"} => requests[p].id \in Rows

Clash(a, b) ==
  /\ a # b
  /\ Active(a) /\ Active(b)
  /\ Lane(a) = Lane(b)
  /\ RangesOverlap(Range_(a), Range_(b))

\* Two visits of one service overlap only if one of them was inserted while the
\* other's create stood between its slot check (line 110) and its insert (122), or
\* if a confirm that had read PENDING revived a visit cancelled in the meantime.
\* No chain of cancels, confirms, duration changes or date spellings adds a cause.
OverlapOnlyFromRace ==
  \A a, b \in AppointmentIds :
    Clash(a, b) => \/ a \in unseen[b] \/ b \in unseen[a]
                   \/ a \in revived   \/ b \in revived

\* What makes it inductive: a create that has passed its check still sees every
\* booking that overlaps its visit, except those it has missed and the revived.
CheckedSlotsFree ==
  \A p \in Requests : requests[p].pc = "insert" =>
    \A a \in AppointmentIds :
      /\ Active(a)
      /\ Lane(a) = LaneOf(p)
      /\ RangesOverlap(RangeOf(requests[p].startTime, requests[p].duration), Range_(a))
      => a \in requests[p].missed \/ a \in revived

\* README.md:96: one slot per service at a time.
NoDoubleBooking == \A a, b \in AppointmentIds : ~Clash(a, b)

\* Slots about to be pushed (line 63) offer time that is held only if the holder
\* became active after the push read the bookings (line 61): in particular never
\* the time the handler itself has just booked.
StalePushOnlyFromRace ==
  \A p \in Requests : requests[p].pc = "emit" =>
    \A a \in AppointmentIds, slot \in requests[p].slots :
      /\ Active(a)
      /\ Lane(a) = LaneOf(p)
      /\ RangesOverlap(RangeOf(slot, requests[p].duration), Range_(a))
      => a \in requests[p].missed

\* Whatever staff do to a service while a create is under way, the row that results
\* is a legal visit of its own length (README.md:104): inside the hours, clear of
\* the break, ending when its snapshotted duration says.
RowsAreLegalVisits ==
  \A a \in Rows :
    /\ appointments[a].endTime = CalcEndTime(appointments[a].startTime, appointments[a].duration)
    /\ ValidateSlot(appointments[a].startTime, appointments[a].duration, {}) = "valid"

\* A booking never outlives its service, although create reads the service two
\* awaits before it inserts and a delete may come in between.
ServiceOfEveryBooking ==
  \A a \in Rows : services[appointments[a].serviceId].state = "live"

JobsOf(a) == { j \in DOMAIN jobs : jobs[j].appointmentId = a }

\* A mail job exists for confirmed rows only, and a confirmed row has one, is about
\* to get one, or lost it to a handler that stopped between the update (208) and
\* queue.add (217); nothing repairs that loss.
ConfirmedRowsAreQueued ==
  \A a \in AppointmentIds :
    (a \in Rows /\ appointments[a].confirmedAt)
      <=> \/ JobsOf(a) # {} \/ a \in lost
          \/ \E p \in Requests : requests[p].pc = "enqueue" /\ requests[p].id = a

\* Late confirms send duplicate mails, but no more than there were handlers that
\* could have read PENDING at once.
DuplicateJobsBounded ==
  \A a \in AppointmentIds : Cardinality(JobsOf(a)) <= Cardinality(Requests)

\* README.md:113: when staff confirm an appointment, one mail is queued.
OneJobPerAppointment == \A a \in AppointmentIds : Cardinality(JobsOf(a)) <= 1

\* README.md:101: PENDING -> CONFIRMED -> CANCELLED, and never back.
StatusFlow ==
  [][\A a \in Rows :
       LET from == appointments[a].status
           to   == appointments'[a].status
       IN  \/ from = to
           \/ from = "PENDING" /\ to \in {"CONFIRMED", "CANCELLED"}
           \/ from = "CONFIRMED" /\ to = "CANCELLED"]_vars

\* appointment.gateway.ts:17-19: once no handler owes a push, what a room was last
\* shown is what is free now.  Excused is a room that missed a push, because the
\* handler died or used another spelling of the date, and only until it is pushed
\* what is free: a push counted before a change that died excuses nothing.
BoardFresh ==
  (\A p \in Requests : ~OwesPush(p)) =>
    \A lane \in Lanes :
      board[lane] # NULL /\ lane \notin dirty =>
        board[lane].slots =
          GetAvailableSlots(board[lane].duration, BookedRanges(lane[1], lane[2]))

\* Every accepted request ends, with a result or an error.
RequestsReturn == \A p \in Requests : requests[p].pc # "idle" ~> requests[p].pc = "idle"

\* A confirmation is mailed or reported failed, unless its handler died before it
\* queued the job; stalls of the worker only delay it.
ConfirmationsSettle ==
  \A a \in AppointmentIds :
    (a \in Rows /\ appointments[a].confirmedAt)
      ~> \/ a \in lost
         \/ \E j \in JobsOf(a) : jobs[j].state \in {"completed", "failed"}

-----------------------------------------------------------------------------
MinutesOf(range) == ToMinutes(range.startTime) .. (ToMinutes(range.endTime) - 1)

\* The rows of the table as the visits of the abstract calendar.
VisitOf(a) ==
  IF a \notin Rows THEN NULL
  ELSE [lane |-> Lane(a), minutes |-> MinutesOf(Range_(a)), status |-> appointments[a].status]

Cal == INSTANCE Calendar WITH
  Visits <- AppointmentIds,
  Lanes <- Lanes,
  OpenMinutes <- MinutesOf([startTime |-> WORK_START, endTime |-> WORK_END])
                   \ MinutesOf([startTime |-> BREAK_START, endTime |-> BREAK_END]),
  entry <- [a \in AppointmentIds |-> VisitOf(a)]

\* An id not yet used is no visit.
ASSUME NullIsNoVisit == NULL \notin Cal!Entry

\* One request at a time, the whole service (races of the catalogue and aborted
\* handlers included) behaves as the calendar does.
ImplementsCalendar == Cal!Spec
=============================================================================
