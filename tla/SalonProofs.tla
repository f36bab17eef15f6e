---------------------------- MODULE SalonProofs ----------------------------
(***************************************************************************)
(* Proofs about the watchers of slots and about the salon as a whole: what *)
(* is proved of booking and of accounts by themselves holds when they run  *)
(* together, and what they promise each other is kept.                     *)
(***************************************************************************)
EXTENDS Salon, AppointmentsProofs

AuthProofs == INSTANCE AccountsProofs WITH
  Requests <- AuthRequests, requests <- authRequests

-----------------------------------------------------------------------------
\* Watchers take no part in booking.
LEMMA WatchedStep == [WatchNext]_watchVars => [Next]_vars
<1> SUFFICES ASSUME [WatchNext]_watchVars PROVE [Next]_vars
  OBVIOUS
<1>1. CASE UNCHANGED watchVars
  BY <1>1 DEF watchVars
<1>2. ASSUME NEW p \in Requests, Serve(p) \/ Fail(p)
      PROVE  Next
  BY <1>2 DEF Serve, Fail, Next
<1>3. ASSUME NEW p \in Requests, NEW user \in Users, Start(p, user)
      PROVE  Next
  BY <1>3 DEF Start, StartRequest, Next
<1>4. CASE Catalogue \/ Mail
  BY <1>4 DEF Next
<1>5. CASE \E w \in Clients :
             \/ \E room \in Rooms : Subscribe(w, room)
             \/ Unsubscribe(w) \/ AnswerRead(w) \/ StartRead(w)
  BY <1>5 DEF Subscribe, Unsubscribe, AnswerRead, StartRead
<1> QED BY <1>1, <1>2, <1>3, <1>4, <1>5 DEF WatchNext, Proceed, Curate

\* What they watch is a run of the booking system.
LEMMA WatchedBooking == WatchSpec => Spec
<1>1. WatchInit => Init
  BY DEF WatchInit
<1> QED BY <1>1, WatchedStep, PTL DEF WatchSpec, Spec

\* So types and the rows of the handlers are kept.
LEMMA WatchedBase == WatchSpec => [](TypeOK /\ RowsOfRequests)
<1> DEFINE Base == TypeOK /\ RowsOfRequests
<1>1. Spec => []Base
  <2>1. Init => Base
    BY BaseInit
  <2>2. Base /\ [Next]_vars => Base'
    BY BaseStep
  <2> QED BY <2>1, <2>2, PTL DEF Spec
<1> QED BY <1>1, WatchedBooking, PTL

-----------------------------------------------------------------------------
\* What the screens know.

\* A screen that has not asked, and one that has, as records.
LEMMA Screens ==
  ASSUME NEW c \in Client
  PROVE  /\ c.view # "none" => c.room \in Rooms /\ c.duration \in Durations
         /\ c.room \in Rooms \cup {NULL} /\ c.shown \in SUBSET Push
         /\ \A push \in Push : [c EXCEPT !.shown = @ \cup {push}] \in Client
         /\ c.view = "kept" => [c EXCEPT !.view = "lost"] \in Client
<1>1. CASE c \in [room : Rooms \cup {NULL}, view : {"none"}, duration : {0}, shown : SUBSET Push]
  <2>1. \A push \in Push : c.shown \cup {push} \in SUBSET Push
    BY <1>1
  <2> QED BY <1>1, <2>1 DEF Client
<1>2. CASE c \in [room : Rooms, view : {"reading", "kept", "lost"}, duration : Durations,
                  shown : SUBSET Push]
  <2>1. \A push \in Push : c.shown \cup {push} \in SUBSET Push
    BY <1>2
  <2> QED BY <1>2, <2>1 DEF Client
<1> QED BY <1>1, <1>2 DEF Client

\* Telling a room and overlooking a lane keep every screen well formed.
LEMMA TellTypes ==
  ASSUME WatchTypeOK, NEW lane, NEW room, NEW push \in Push, NEW told
  PROVE  /\ Overlook(lane, told) \in [Clients -> Client]
         /\ Tell(lane, room, push) \in [Clients -> Client]
<1>1. \A w \in Clients : \A others : Overlook(lane, others)[w] \in Client
  BY Screens DEF WatchTypeOK, Overlook
<1>2. \A w \in Clients : Tell(lane, room, push)[w] \in Client
  BY <1>1, Screens DEF WatchTypeOK, Tell
<1>3. \A others : Overlook(lane, others) = [w \in Clients |-> Overlook(lane, others)[w]]
  BY DEF Overlook
<1>4. Tell(lane, room, push) = [w \in Clients |-> Tell(lane, room, push)[w]]
  BY DEF Tell
<1> QED BY <1>1, <1>2, <1>3, <1>4

\* An answer and a push carry slots, counted for a duration staff may set.
LEMMA PushTypes ==
  /\ \A d \in Durations : \A ranges : [duration |-> d, slots |-> GetAvailableSlots(d, ranges)] \in Push
  /\ TypeOK => \A p \in Requests : requests[p].pc = "emit" =>
       /\ [duration |-> requests[p].duration, slots |-> requests[p].slots] \in Push
       /\ requests[p].serviceId \in ServiceIds /\ requests[p].date \in DateStrings
<1>1. \A d \in Durations : \A ranges : GetAvailableSlots(d, ranges) \in SUBSET Time
  BY AppointmentsAssumption, SlotsAreTimes
<1>2. ASSUME TypeOK, NEW p \in Requests, requests[p].pc = "emit"
      PROVE  /\ [duration |-> requests[p].duration, slots |-> requests[p].slots] \in Push
             /\ requests[p].serviceId \in ServiceIds /\ requests[p].date \in DateStrings
  BY <1>2, RequestRecords, ShapeOfRequest DEF Broadcasting, Push
<1> QED BY <1>1, <1>2 DEF Push

\* Every step keeps the screens well formed.
LEMMA WatchTypeStep ==
  ASSUME TypeOK, WatchTypeOK, [WatchNext]_watchVars
  PROVE  WatchTypeOK'
<1>1. ASSUME NEW w \in Clients, NEW c \in Client, clients' = [clients EXCEPT ![w] = c]
      PROVE  WatchTypeOK'
  BY <1>1 DEF WatchTypeOK
<1>2. \A room \in Rooms \cup {NULL} : Joined(room) \in Client
  BY DEF Joined, Client
<1>3. ASSUME NEW w \in Clients, Unsubscribe(w) \/ \E room \in Rooms : Subscribe(w, room)
      PROVE  WatchTypeOK'
  BY <1>1, <1>2, <1>3 DEF Subscribe, Unsubscribe
<1>4. ASSUME NEW w \in Clients, AnswerRead(w)
      PROVE  WatchTypeOK'
  <2> DEFINE c == clients[w]
             answer == [duration |-> c.duration,
                        slots |-> GetAvailableSlots(c.duration, BookedRanges(c.room[1], c.room[2]))]
             next == [c EXCEPT !.view = "kept", !.shown = @ \cup {answer}]
  <2>1. c \in Client /\ c.view = "reading"
    BY <1>4 DEF WatchTypeOK, AnswerRead
  <2>2. answer \in Push
    BY <2>1, Screens, PushTypes
  <2>3. clients' = [clients EXCEPT ![w] = next]
    BY <1>4 DEF AnswerRead
  <2>4. next \in Client
    <3> HIDE DEF c, answer
    <3>1. c.shown \cup {answer} \in SUBSET Push
      BY <2>1, <2>2, Screens
    <3>2. c \in [room : Rooms, view : {"reading", "kept", "lost"}, duration : Durations,
                 shown : SUBSET Push]
      BY <2>1 DEF Client
    <3> QED BY <3>1, <3>2 DEF Client
  <2> HIDE DEF next
  <2> QED BY <1>1, <2>3, <2>4
<1>5. ASSUME NEW w \in Clients, StartRead(w)
      PROVE  WatchTypeOK'
  <2> DEFINE c == clients[w]
             duration == services[c.room[1]].duration
             next == [c EXCEPT !.view = "reading", !.duration = duration]
  <2>1. c \in Client /\ c.room \in Rooms /\ c.shown \in SUBSET Push
    BY <1>5, Screens DEF WatchTypeOK, StartRead, Watching
  <2>2. duration \in Durations
    <3>1. c.room[1] \in ServiceIds
      BY <2>1 DEF Rooms
    <3>2. services[c.room[1]] \in Service /\ services[c.room[1]].state = "live"
      BY <1>5, <3>1 DEF StartRead, TypeOK
    <3> QED BY <3>2 DEF Service
  <2>3. clients' = [clients EXCEPT ![w] = next]
    BY <1>5 DEF StartRead
  <2>4. next \in Client
    <3> HIDE DEF c, duration
    <3> QED BY <2>1, <2>2 DEF Client
  <2> HIDE DEF next
  <2> QED BY <1>1, <2>3, <2>4
<1>6. ASSUME NEW p \in Requests, Serve(p)
      PROVE  WatchTypeOK'
  BY <1>6, PushTypes, TellTypes DEF Serve, WatchTypeOK
<1>7. ASSUME NEW p \in Requests, Fail(p)
      PROVE  WatchTypeOK'
  <2>1. \A lane, told : Overlook(lane, told) \in [Clients -> Client]
    BY Screens DEF WatchTypeOK, Overlook
  <2> QED BY <1>7, <2>1 DEF Fail, WatchTypeOK
<1>8. CASE UNCHANGED clients
  BY <1>8 DEF WatchTypeOK
<1> QED BY <1>3, <1>4, <1>5, <1>6, <1>7, <1>8 DEF WatchNext, Proceed, Curate, Start, watchVars

\* Type correctness: what a screen is shown are slots of the durations staff have set.
THEOREM WatchTypeCorrect == WatchSpec => []WatchTypeOK
<1> DEFINE Base == TypeOK /\ RowsOfRequests
<1>1. WatchInit => WatchTypeOK
  BY DEF WatchInit, WatchTypeOK, Joined, Client
<1>2. Base /\ WatchTypeOK /\ [WatchNext]_watchVars => WatchTypeOK'
  BY WatchTypeStep
<1> QED BY <1>1, <1>2, WatchedBase, PTL DEF WatchSpec

-----------------------------------------------------------------------------
\* What the screens are told.

\* A screen has been shown what is free in its room.
Told(w) ==
  \E message \in clients[w].shown :
    message.slots = GetAvailableSlots(message.duration,
                                      BookedRanges(clients[w].room[1], clients[w].room[2]))

\* A handler is on its way to a push that will be right when it comes: it has yet to
\* count the slots, or what it has counted is still so.
FreshPush(p) ==
  LET r == requests[p]
  IN  /\ OwesPush(p)
      /\ r.pc = "emit" =>
           r.slots = GetAvailableSlots(r.duration, BookedRanges(r.serviceId, r.date))

Coming(lane) == \E p \in Requests : FreshPush(p) /\ LaneOf(p) = lane

\* A screen that may rely on being told has been told, or is about to be.
InformedOrSoon ==
  \A w \in Clients :
    clients[w].view = "kept" => Told(w) \/ Coming(LaneOfRoom(clients[w].room))

\* A handler that looks for a service does so for a row of the table, so the service is
\* there and the handler does not forget its push.
BroadcastsAreForRows ==
  \A p \in Requests : requests[p].pc = "findService" =>
    \E a \in Rows : appointments[a].serviceId = requests[p].serviceId

InformedInv == InformedOrSoon /\ BroadcastsAreForRows

\* Rows stay where they are: on their service and day.
LEMMA RowsStay ==
  ASSUME TypeOK, RowsOfRequests, [Next]_vars, NEW a \in Rows
  PROVE  /\ a \in Rows' /\ Lane(a)' = Lane(a)
         /\ appointments'[a].serviceId = appointments[a].serviceId
<1>1. ASSUME NEW p \in Requests, NEW b \in AppointmentIds, CreateInsert(p, b)
      PROVE  a \in Rows' /\ appointments'[a] = appointments[a]
  BY <1>1, InsertAddsRow DEF RowInserted
<1>2. ASSUME NEW p \in Requests, ConfirmUpdate(p) \/ CancelUpdate(p)
      PROVE  /\ a \in Rows' /\ Lane(a)' = Lane(a)
             /\ appointments'[a].serviceId = appointments[a].serviceId
  BY <1>2, ConfirmIsStatusUpdate, CancelIsStatusUpdate DEF StatusUpdate
<1>3. CASE UNCHANGED appointments
  BY <1>3 DEF Rows, Lane
<1> QED BY <1>1, <1>2, <1>3, TableSteps DEF Lane

\* A change to a row leaves the bookings of the rooms of other lanes as they are.
LEMMA RoomsOfOtherLanesStay ==
  ASSUME NEW a \in AppointmentIds, NEW s, NEW date,
         \A b \in AppointmentIds \ {a} : appointments'[b] = appointments[b],
         Active(a) => Lane(a) # <<s, DayOf[date]>>, Active(a)' => Lane(a)' # <<s, DayOf[date]>>
  PROVE  BookedRanges(s, date)' = BookedRanges(s, date)
<1> DEFINE lane == <<s, DayOf[date]>>
<1>1. ASSUME NEW b \in AppointmentIds
      PROVE  /\ (Active(b) /\ Lane(b) = lane)' <=> Active(b) /\ Lane(b) = lane
             /\ Active(b) /\ Lane(b) = lane => Range_(b)' = Range_(b)
  BY <1>1 DEF Active, Rows, Lane, Range_
<1> QED BY <1>1 DEF BookedRanges

\* While one handler takes a step, the others keep what they owe.
LEMMA OthersKeepOn ==
  ASSUME TypeOK, NEW p \in Requests, StartRequest(p) \/ Handler(p) \/ Abort(p),
         NEW q \in Requests \ {p}
  PROVE  requests'[q] = requests[q] \/ \E a : requests[q].pc \in {"insert", "emit"} /\ StillReads(q, a)
<1> DEFINE Same == requests'[q] = requests[q]
                   \/ \E a : requests[q].pc \in {"insert", "emit"} /\ StillReads(q, a)
<1>1. ASSUME NEW r, Goto(p, r)
      PROVE  Same
  BY <1>1 DEF Goto, TypeOK
<1>2. ASSUME NEW a \in AppointmentIds, NEW next \in Request, next.pc \notin {"insert", "emit"},
             requests' = Overtake(a, [requests EXCEPT ![p] = next])
      PROVE  Same
  <2>1. requests'[q] = IF requests[q].pc \in {"insert", "emit"}
                       THEN [requests[q] EXCEPT !.missed = @ \cup {a}]
                       ELSE requests[q]
    BY <1>2, OvertakeOthers
  <2> QED BY <2>1, NotingKeepsTheRest
<1>3. ASSUME NEW a \in AppointmentIds, CreateInsert(p, a)
      PROVE  Same
  <2> DEFINE next == AwaitBroadcast(requests[p].serviceId, requests[p].date)
  <2>1. next \in Request /\ next.pc = "findService"
    BY <1>3, RequestRecords, ShapeOfRequest DEF CreateInsert, Creating, AwaitBroadcast
  <2>2. requests' = Overtake(a, [requests EXCEPT ![p] = next])
    BY <1>3 DEF CreateInsert
  <2> HIDE DEF next
  <2> QED BY <1>2, <2>1, <2>2
<1>4. ASSUME ConfirmUpdate(p)
      PROVE  Same
  <2> DEFINE next == [requests[p] EXCEPT !.pc = "enqueue"]
  <2>1. requests[p] \in Changing /\ requests[p].id \in AppointmentIds
    BY <1>4, RequestRecords, ShapeOfRequest DEF ConfirmUpdate, Changing
  <2>2. next \in Request /\ next.pc = "enqueue"
    BY <2>1 DEF Changing, Request
  <2>3. \/ requests' = Overtake(requests[p].id, [requests EXCEPT ![p] = next])
        \/ Goto(p, next)
    BY <1>4 DEF ConfirmUpdate, Goto
  <2> HIDE DEF next
  <2> QED BY <1>1, <1>2, <2>1, <2>2, <2>3
<1>5. ASSUME ~(\E a \in AppointmentIds : CreateInsert(p, a)), ~ConfirmUpdate(p)
      PROVE  \E r : Goto(p, r)
  <2>1. ASSUME StartRequest(p) PROVE \E r : Goto(p, r)
    BY <2>1 DEF StartRequest, StartAs, StartCreate, StartConfirm, StartCancel
  <2>2. ASSUME CreateCheckSlot(p) PROVE \E r : Goto(p, r)
    BY <2>2 DEF CreateCheckSlot
  <2>3. ASSUME Handler(p) PROVE \E r : Goto(p, r)
    BY <1>5, <2>2, <2>3 DEF Handler, CreateRefused, ConfirmEnqueue, CancelUpdate,
       BroadcastFindService, BroadcastFindBooked, BroadcastEmit
  <2>4. ASSUME Abort(p) PROVE \E r : Goto(p, r)
    BY <2>4 DEF Abort
  <2> QED BY <2>1, <2>3, <2>4
<1> QED BY <1>1, <1>3, <1>4, <1>5

\* So a push of another handler stays due to its lane, and stays right as long as the
\* bookings of the lane do.
LEMMA OthersStillPush ==
  ASSUME TypeOK, RowsOfRequests, [Next]_vars,
         NEW p \in Requests, StartRequest(p) \/ Handler(p) \/ Abort(p),
         NEW q \in Requests \ {p}, FreshPush(q),
         \A s, date : <<s, DayOf[date]>> = LaneOf(q) => BookedRanges(s, date)' = BookedRanges(s, date)
  PROVE  FreshPush(q)' /\ LaneOf(q)' = LaneOf(q)
<1> DEFINE r == requests[q]
<1>0. r.pc \in {"enqueue", "findService", "findBooked", "emit"}
  BY DEF FreshPush, OwesPush
<1>1. CASE requests'[q] = r /\ r.pc = "enqueue"
  <2>1. Lane(r.id)' = Lane(r.id)
    BY <1>1, RowsStay DEF RowsOfRequests, Lane
  <2> QED BY <1>1, <2>1 DEF FreshPush, OwesPush, LaneOf, Lane
<1>2. CASE requests'[q] = r /\ r.pc \in {"findService", "findBooked"}
  BY <1>2 DEF FreshPush, OwesPush, LaneOf
<1>3. CASE r.pc = "emit"
  <2>1. /\ requests'[q].pc = "emit" /\ requests'[q].slots = r.slots
        /\ requests'[q].serviceId = r.serviceId /\ requests'[q].date = r.date
        /\ requests'[q].duration = r.duration
    BY <1>3, OthersKeepOn DEF StillReads
  <2>2. LaneOf(q) = <<r.serviceId, DayOf[r.date]>> /\ LaneOf(q)' = LaneOf(q)
    BY <1>3, <2>1 DEF LaneOf
  <2>3. PICK s, date, d, slots : s = r.serviceId /\ date = r.date /\ d = r.duration /\ slots = r.slots
    OBVIOUS
  <2>4. slots = GetAvailableSlots(d, BookedRanges(s, date))
    BY <1>3, <2>3 DEF FreshPush
  <2>5. BookedRanges(s, date)' = BookedRanges(s, date)
    BY <2>2, <2>3
  <2> QED BY <2>1, <2>2, <2>3, <2>4, <2>5 DEF FreshPush, OwesPush
<1> QED BY <1>0, <1>1, <1>2, <1>3, OthersKeepOn

\* A screen that has been told stays so while the bookings of its room do.
LEMMA ToldStays ==
  ASSUME NEW w \in Clients, Told(w),
         clients'[w].room = clients[w].room, clients[w].shown \subseteq clients'[w].shown,
         BookedRanges(clients[w].room[1], clients[w].room[2])'
           = BookedRanges(clients[w].room[1], clients[w].room[2])
  PROVE  Told(w)'
<1>1. PICK message \in clients[w].shown :
        message.slots = GetAvailableSlots(message.duration,
                                          BookedRanges(clients[w].room[1], clients[w].room[2]))
  BY DEF Told
<1> QED BY <1>1 DEF Told

\* The table stays: then so do the bookings.
LEMMA SameTableSameBookings ==
  ASSUME UNCHANGED appointments
  PROVE  \A s, date : BookedRanges(s, date)' = BookedRanges(s, date)
  BY DEF BookedRanges, Active, Rows, Lane, Range_

\* A step that leaves the table alone: who could rely on being told still can.
LEMMA QuietWatchStep ==
  ASSUME InformedOrSoon, UNCHANGED appointments,
         \A w \in Clients : clients'[w].view = "kept" =>
           \/ Told(w)'
           \/ /\ clients[w].view = "kept"
              /\ clients'[w].room = clients[w].room
              /\ clients[w].shown \subseteq clients'[w].shown
              /\ Coming(LaneOfRoom(clients[w].room)) =>
                   Told(w)' \/ Coming(LaneOfRoom(clients[w].room))'
  PROVE  InformedOrSoon'
<1> SUFFICES ASSUME NEW w \in Clients, clients'[w].view = "kept", ~Told(w)'
             PROVE  Coming(LaneOfRoom(clients[w].room))'
  BY DEF InformedOrSoon
<1>1. ~Told(w)
  BY ToldStays, SameTableSameBookings
<1> QED BY <1>1 DEF InformedOrSoon

\* A step of a handler that owed no push and leaves table and screens alone.
LEMMA IdleWatchStep ==
  ASSUME TypeOK, RowsOfRequests, [Next]_vars, InformedOrSoon, UNCHANGED <<appointments, clients>>,
         NEW p \in Requests, StartRequest(p) \/ Handler(p) \/ Abort(p), ~OwesPush(p)
  PROVE  InformedOrSoon'
<1>1. ASSUME NEW lane, Coming(lane)
      PROVE  Coming(lane)'
  <2>1. PICK q \in Requests : FreshPush(q) /\ LaneOf(q) = lane
    BY <1>1 DEF Coming
  <2>2. q # p
    BY <2>1 DEF FreshPush
  <2>3. FreshPush(q)' /\ LaneOf(q)' = lane
    BY <2>1, <2>2, OthersStillPush, SameTableSameBookings
  <2> QED BY <2>3 DEF Coming
<1>2. \A w \in Clients : LaneOfRoom(clients[w].room)' = LaneOfRoom(clients[w].room)
  BY DEF LaneOfRoom
<1> QED BY <1>1, <1>2, QuietWatchStep

\* A handler that owes a push goes on to its next record for the same lane.
LEMMA OwingWatchStep ==
  ASSUME TypeOK, RowsOfRequests, [Next]_vars, InformedOrSoon, UNCHANGED <<appointments, clients>>,
         NEW p \in Requests, Handler(p), FreshPush(p)', LaneOf(p)' = LaneOf(p)
  PROVE  InformedOrSoon'
<1>1. ASSUME NEW lane, Coming(lane)
      PROVE  Coming(lane)'
  <2>1. PICK q \in Requests : FreshPush(q) /\ LaneOf(q) = lane
    BY <1>1 DEF Coming
  <2>2. CASE q = p
    BY <2>1, <2>2 DEF Coming
  <2>3. CASE q # p
    <3>1. FreshPush(q)' /\ LaneOf(q)' = lane
      BY <2>1, <2>3, OthersStillPush, SameTableSameBookings
    <3> QED BY <3>1 DEF Coming
  <2> QED BY <2>2, <2>3
<1> QED BY <1>1, QuietWatchStep

\* A step that changes a row and from then on owes a push of its lane.
LEMMA ChangeWatchStep ==
  ASSUME TypeOK, RowsOfRequests, [Next]_vars, InformedOrSoon, UNCHANGED clients,
         NEW p \in Requests, Handler(p), ~OwesPush(p),
         NEW a \in AppointmentIds,
         \A b \in AppointmentIds \ {a} : appointments'[b] = appointments[b],
         Active(a) => Lane(a) = Lane(a)',
         requests'[p].pc \in {"enqueue", "findService"}, LaneOf(p)' = Lane(a)'
  PROVE  InformedOrSoon'
<1> SUFFICES ASSUME NEW w \in Clients, clients[w].view = "kept", ~Told(w)'
             PROVE  Coming(LaneOfRoom(clients[w].room))'
  BY DEF InformedOrSoon
<1> SUFFICES ASSUME NEW room, room = clients[w].room
             PROVE  Coming(LaneOfRoom(room))'
  OBVIOUS
<1>1. LaneOfRoom(room) = <<room[1], DayOf[room[2]]>>
  BY DEF LaneOfRoom
<1>2. CASE Lane(a)' = LaneOfRoom(room)
  <2>1. FreshPush(p)'
    BY DEF FreshPush, OwesPush
  <2> QED BY <1>2, <2>1 DEF Coming, LaneOfRoom
<1>3. CASE Lane(a)' # LaneOfRoom(room)
  <2>1. \A s, date : <<s, DayOf[date]>> = LaneOfRoom(room) =>
          BookedRanges(s, date)' = BookedRanges(s, date)
    BY <1>3, RoomsOfOtherLanesStay
  <2>2. ~Told(w)
    BY <1>1, <2>1, ToldStays
  <2>3. PICK q \in Requests : FreshPush(q) /\ LaneOf(q) = LaneOfRoom(room)
    BY <2>2 DEF InformedOrSoon, Coming
  <2>4. q # p
    BY <2>3 DEF FreshPush
  <2>5. FreshPush(q)' /\ LaneOf(q)' = LaneOfRoom(room)
    BY <2>1, <2>3, <2>4, OthersStillPush
  <2> QED BY <2>5 DEF Coming, LaneOfRoom
<1> QED BY <1>2, <1>3

\* The screens that are overlooked: those of the lane, outside the rooms told, that
\* have their answer.
LEMMA Overlooked ==
  ASSUME WatchTypeOK, NEW lane, NEW told, NEW w \in Clients,
         Overlook(lane, told)[w].view = "kept"
  PROVE  /\ Overlook(lane, told)[w] = clients[w]
         /\ LaneOfRoom(clients[w].room) # lane \/ clients[w].room \in told
<1>1. CASE /\ clients[w].view = "kept"
           /\ LaneOfRoom(clients[w].room) = lane
           /\ clients[w].room \notin told
  <2>1. clients[w] \in Client
    BY DEF WatchTypeOK
  <2>2. [clients[w] EXCEPT !.view = "lost"].view = "lost"
    BY <2>1 DEF Client
  <2> QED BY <1>1, <2>2 DEF Overlook
<1>2. CASE ~(/\ clients[w].view = "kept"
             /\ LaneOfRoom(clients[w].room) = lane
             /\ clients[w].room \notin told)
  <2>1. Overlook(lane, told)[w] = clients[w]
    BY <1>2 DEF Overlook
  <2> QED BY <1>2, <2>1
<1> QED BY <1>1, <1>2

\* The push is sent: its room is told, the other rooms of its lane are overlooked.
LEMMA EmitWatchStep ==
  ASSUME TypeOK, RowsOfRequests, WatchTypeOK, [Next]_vars, InformedOrSoon,
         NEW p \in Requests, Serve(p), BroadcastEmit(p)
  PROVE  InformedOrSoon'
<1> DEFINE r == requests[p]
           room == <<r.serviceId, r.date>>
           push == [duration |-> r.duration, slots |-> r.slots]
<1>1. /\ r.pc = "emit" /\ Handler(p) /\ UNCHANGED appointments
      /\ clients' = Tell(LaneOf(p), room, push)
      /\ LaneOf(p) = LaneOfRoom(room)
  BY DEF Serve, BroadcastEmit, LaneOf, LaneOfRoom
<1>2. ASSUME NEW lane, NEW q \in Requests \ {p}, FreshPush(q), LaneOf(q) = lane
      PROVE  Coming(lane)'
  <2>1. FreshPush(q)' /\ LaneOf(q)' = lane
    BY <1>1, <1>2, OthersStillPush, SameTableSameBookings
  <2> QED BY <2>1 DEF Coming
<1>3. ASSUME NEW w \in Clients, clients[w].room = room, clients'[w].view = "kept"
      PROVE  /\ clients[w].view = "kept" /\ clients'[w].room = clients[w].room
             /\ clients'[w].shown = clients[w].shown \cup {push}
  <2>1. clients[w] \in Client
    BY DEF WatchTypeOK
  <2>2. clients'[w] = [clients[w] EXCEPT !.shown = @ \cup {push}]
    BY <1>1, <1>3 DEF Tell
  <2> HIDE DEF push, room
  <2> QED BY <1>3, <2>1, <2>2 DEF Client
<1>4. ASSUME NEW w \in Clients, clients[w].room = room, clients'[w].view = "kept", FreshPush(p)
      PROVE  Told(w)'
  <2>1. push.slots = GetAvailableSlots(push.duration, BookedRanges(room[1], room[2]))
    BY <1>1, <1>4 DEF FreshPush
  <2>2. PICK message, s, date : message = push /\ s = room[1] /\ date = room[2]
    OBVIOUS
  <2>3. BookedRanges(s, date)' = BookedRanges(s, date)
    BY <1>1, SameTableSameBookings
  <2>4. message.slots = GetAvailableSlots(message.duration, BookedRanges(s, date)')
    BY <2>1, <2>2, <2>3
  <2>5. message \in clients'[w].shown /\ clients'[w].room[1] = s /\ clients'[w].room[2] = date
    BY <1>3, <1>4, <2>2
  <2> QED BY <2>4, <2>5 DEF Told
<1>5. ASSUME NEW w \in Clients, clients[w].room # room, clients'[w].view = "kept"
      PROVE  clients'[w] = clients[w] /\ LaneOfRoom(clients[w].room) # LaneOf(p)
  <2>1. clients'[w] = Overlook(LaneOf(p), {room})[w]
    BY <1>1, <1>5 DEF Tell
  <2> HIDE DEF room
  <2> QED BY <1>5, <2>1, Overlooked
<1>6. ASSUME NEW w \in Clients, clients'[w].view = "kept"
      PROVE  \/ Told(w)'
             \/ /\ clients[w].view = "kept"
                /\ clients'[w].room = clients[w].room
                /\ clients[w].shown \subseteq clients'[w].shown
                /\ Coming(LaneOfRoom(clients[w].room)) =>
                     Told(w)' \/ Coming(LaneOfRoom(clients[w].room))'
  <2>1. /\ clients[w].view = "kept" /\ clients'[w].room = clients[w].room
        /\ clients[w].shown \subseteq clients'[w].shown
    BY <1>3, <1>5, <1>6
  <2>2. PICK lane : lane = LaneOfRoom(clients[w].room)
    OBVIOUS
  <2>3. LaneOfRoom(clients[w].room)' = lane
    BY <2>1, <2>2 DEF LaneOfRoom
  <2>4. ASSUME Coming(lane), ~Told(w)'
        PROVE  Coming(lane)'
    <3>1. PICK q \in Requests : FreshPush(q) /\ LaneOf(q) = lane
      BY <2>4 DEF Coming
    <3>2. q # p
      BY <1>4, <1>5, <1>6, <2>2, <2>4, <3>1
    <3> QED BY <1>2, <3>1, <3>2
  <2>5. Coming(lane)' => Coming(LaneOfRoom(clients[w].room))'
    BY <2>3 DEF Coming
  <2> QED BY <2>1, <2>2, <2>4, <2>5
<1> QED BY <1>1, <1>6, QuietWatchStep

\* A handler that owed a push stops: the screens of its lane may not rely on it.
LEMMA FailWatchStep ==
  ASSUME TypeOK, RowsOfRequests, WatchTypeOK, [Next]_vars, InformedOrSoon,
         NEW p \in Requests, Fail(p)
  PROVE  InformedOrSoon'
<1>1. /\ Abort(p) /\ UNCHANGED appointments
      /\ clients' = IF OwesPush(p) THEN Overlook(LaneOf(p), {}) ELSE clients
  BY DEF Fail, Abort
<1>2. CASE ~OwesPush(p)
  BY <1>1, <1>2, IdleWatchStep
<1>3. CASE OwesPush(p)
  <2>1. ASSUME NEW w \in Clients, clients'[w].view = "kept"
        PROVE  clients'[w] = clients[w] /\ LaneOfRoom(clients[w].room) # LaneOf(p)
    BY <1>1, <1>3, <2>1, Overlooked
  <2>2. ASSUME NEW w \in Clients, clients'[w].view = "kept", Coming(LaneOfRoom(clients[w].room))
        PROVE  Coming(LaneOfRoom(clients[w].room))'
    <3>1. PICK lane : lane = LaneOfRoom(clients[w].room)
      OBVIOUS
    <3>2. PICK q \in Requests : FreshPush(q) /\ LaneOf(q) = lane
      BY <2>2, <3>1 DEF Coming
    <3>3. q # p
      BY <2>1, <2>2, <3>1, <3>2
    <3>4. FreshPush(q)' /\ LaneOf(q)' = lane
      BY <1>1, <3>2, <3>3, OthersStillPush, SameTableSameBookings
    <3>5. LaneOfRoom(clients[w].room)' = lane
      BY <2>1, <2>2, <3>1 DEF LaneOfRoom
    <3> QED BY <3>4, <3>5 DEF Coming
  <2> QED BY <1>1, <2>1, <2>2, QuietWatchStep
<1> QED BY <1>2, <1>3

\* A handler starts to broadcast for a row it has just written or confirmed, and rows stay.
LEMMA BroadcastsStep ==
  ASSUME TypeOK, RowsOfRequests, BroadcastsAreForRows, [Next]_vars
  PROVE  BroadcastsAreForRows'
<1>1. \A a \in Rows : a \in Rows' /\ appointments'[a].serviceId = appointments[a].serviceId
  BY RowsStay
<1>2. ASSUME UNCHANGED requests
      PROVE  BroadcastsAreForRows'
  BY <1>1, <1>2 DEF BroadcastsAreForRows
<1>3. ASSUME NEW p \in Requests, StartRequest(p) \/ Handler(p) \/ Abort(p),
             requests'[p].pc = "findService" =>
               \E a \in Rows' : appointments'[a].serviceId = requests'[p].serviceId
      PROVE  BroadcastsAreForRows'
  <2> SUFFICES ASSUME NEW q \in Requests \ {p}, requests'[q].pc = "findService"
               PROVE  \E a \in Rows' : appointments'[a].serviceId = requests'[q].serviceId
    BY <1>3 DEF BroadcastsAreForRows
  <2>1. requests'[q] = requests[q]
    BY <1>3, OthersKeepOn DEF StillReads
  <2> QED BY <1>1, <2>1 DEF BroadcastsAreForRows
<1>4. ASSUME NEW p \in Requests, NEW r, Goto(p, r)
      PROVE  requests'[p] = r
  BY <1>4 DEF Goto, TypeOK
<1>5. ASSUME NEW p \in Requests, NEW a \in AppointmentIds, CreateInsert(p, a)
      PROVE  BroadcastsAreForRows'
  <2> DEFINE next == AwaitBroadcast(requests[p].serviceId, requests[p].date)
  <2>1. /\ next \in Request /\ next.pc = "findService"
        /\ next.serviceId = requests[p].serviceId
    BY <1>5, RequestRecords, ShapeOfRequest DEF CreateInsert, Creating, AwaitBroadcast
  <2>2. requests' = Overtake(a, [requests EXCEPT ![p] = next])
    BY <1>5 DEF CreateInsert
  <2> HIDE DEF next
  <2>3. requests'[p] = next
    BY <2>1, <2>2, OvertakeOthers
  <2>4. RowInserted(requests[p], a)
    BY <1>5, InsertAddsRow
  <2>5. a \in Rows' /\ appointments'[a].serviceId = requests[p].serviceId
    BY <2>4 DEF RowInserted, NewRow
  <2> QED BY <1>3, <1>5, <2>1, <2>3, <2>5 DEF Handler
<1>6. ASSUME NEW p \in Requests, ConfirmUpdate(p)
      PROVE  BroadcastsAreForRows'
  <2> DEFINE next == [requests[p] EXCEPT !.pc = "enqueue"]
  <2>1. requests[p] \in Changing /\ requests[p].id \in AppointmentIds
    BY <1>6, RequestRecords, ShapeOfRequest DEF ConfirmUpdate, Changing
  <2>2. next \in Request /\ next.pc = "enqueue"
    BY <2>1 DEF Changing, Request
  <2>3. \/ requests' = Overtake(requests[p].id, [requests EXCEPT ![p] = next])
        \/ Goto(p, next)
    BY <1>6 DEF ConfirmUpdate, Goto
  <2> HIDE DEF next
  <2>4. requests'[p] = next
    BY <1>4, <2>1, <2>2, <2>3, OvertakeOthers
  <2> QED BY <1>3, <1>6, <2>2, <2>4 DEF Handler
<1>7. ASSUME NEW p \in Requests, ConfirmEnqueue(p) \/ CancelUpdate(p)
      PROVE  BroadcastsAreForRows'
  <2> SUFFICES ASSUME NEW a, a = requests[p].id PROVE BroadcastsAreForRows'
    OBVIOUS
  <2>1. a \in Rows
    BY <1>7 DEF RowsOfRequests, ConfirmEnqueue, CancelUpdate
  <2>2. requests'[p] = AwaitBroadcast(appointments[a].serviceId, appointments[a].date)
    BY <1>4, <1>7 DEF ConfirmEnqueue, CancelUpdate
  <2>3. requests'[p].serviceId = appointments[a].serviceId
    BY <2>2 DEF AwaitBroadcast
  <2> QED BY <1>1, <1>3, <1>7, <2>1, <2>3 DEF Handler
<1>8. ASSUME NEW p \in Requests, CreateCheckSlot(p)
      PROVE  BroadcastsAreForRows'
  <2> DEFINE next == [requests[p] EXCEPT !.pc = "insert"]
  <2>1. next.pc = "insert" /\ IdleRequest.pc = "idle"
    BY <1>8, RequestRecords, ShapeOfRequest DEF CreateCheckSlot, Creating, IdleRequest
  <2>2. Goto(p, next) \/ Goto(p, IdleRequest)
    BY <1>8 DEF CreateCheckSlot
  <2> HIDE DEF next
  <2>3. requests'[p].pc # "findService"
    BY <1>4, <2>1, <2>2
  <2> QED BY <1>3, <1>8, <2>3 DEF Handler
<1>9. ASSUME NEW p \in Requests,
             \/ CreateRefused(p) \/ BroadcastFindService(p) \/ BroadcastFindBooked(p)
             \/ BroadcastEmit(p) \/ Abort(p)
      PROVE  BroadcastsAreForRows'
  <2>1. PICK r : Goto(p, r) /\ r.pc \in {"idle", "findBooked", "emit"}
    BY <1>9 DEF CreateRefused, BroadcastFindService, BroadcastFindBooked, BroadcastEmit,
                Abort, IdleRequest, EmitSlots
  <2>2. requests'[p].pc # "findService"
    BY <1>4, <2>1
  <2> QED BY <1>3, <1>9, <2>2 DEF Handler
<1>10. ASSUME NEW p \in Requests, StartRequest(p)
       PROVE  BroadcastsAreForRows'
  <2>1. ASSUME NEW user, NEW s, NEW date, NEW startTime, StartCreate(p, user, s, date, startTime)
        PROVE  requests'[p].pc # "findService"
    BY <1>4, <2>1 DEF StartCreate
  <2>2. ASSUME NEW user, NEW a, StartConfirm(p, user, a) \/ StartCancel(p, user, a)
        PROVE  requests'[p].pc # "findService"
    BY <1>4, <2>2 DEF StartConfirm, StartCancel
  <2> QED BY <1>3, <1>10, <2>1, <2>2 DEF StartRequest, StartAs
<1>11. CASE Catalogue \/ Mail \/ UNCHANGED vars
  BY <1>2, <1>11 DEF Catalogue, CreateService, UpdateService, RemoveService, Mail, vars
<1> QED BY <1>5, <1>6, <1>7, <1>8, <1>9, <1>10, <1>11 DEF Next, Handler

\* The handlers that change a row owe a push of its lane from then on.
LEMMA ChangesOwe ==
  ASSUME TypeOK, RowsOfRequests, WatchTypeOK, InformedOrSoon, [Next]_vars, UNCHANGED clients,
         NEW p \in Requests,
         \/ \E a \in AppointmentIds : CreateInsert(p, a)
         \/ ConfirmUpdate(p) \/ CancelUpdate(p)
  PROVE  InformedOrSoon'
<1>1. ASSUME NEW a \in AppointmentIds, CreateInsert(p, a)
      PROVE  InformedOrSoon'
  <2> DEFINE next == AwaitBroadcast(requests[p].serviceId, requests[p].date)
  <2>1. RowInserted(requests[p], a)
    BY <1>1, InsertAddsRow
  <2>2. /\ next \in Request /\ next.pc = "findService"
        /\ next.serviceId = requests[p].serviceId /\ next.date = requests[p].date
    BY <1>1, RequestRecords, ShapeOfRequest DEF CreateInsert, Creating, AwaitBroadcast
  <2>3. requests' = Overtake(a, [requests EXCEPT ![p] = next])
    BY <1>1 DEF CreateInsert
  <2> HIDE DEF next
  <2>4. requests'[p] = next
    BY <2>2, <2>3, OvertakeOthers
  <2>5. Lane(a)' = <<requests[p].serviceId, DayOf[requests[p].date]>>
    BY <2>1 DEF RowInserted, NewRow, Lane
  <2>6. LaneOf(p)' = Lane(a)'
    BY <2>2, <2>4, <2>5 DEF LaneOf
  <2>7. /\ ~OwesPush(p) /\ ~Active(a) /\ Handler(p)
        /\ \A b \in AppointmentIds \ {a} : appointments'[b] = appointments[b]
    BY <1>1, <2>1 DEF CreateInsert, OwesPush, Active, RowInserted, TypeOK, Handler
  <2> QED BY <2>2, <2>4, <2>6, <2>7, ChangeWatchStep
<1>2. ASSUME ConfirmUpdate(p)
      PROVE  InformedOrSoon'
  <2> SUFFICES ASSUME NEW a, a = requests[p].id PROVE InformedOrSoon'
    OBVIOUS
  <2> DEFINE next == [requests[p] EXCEPT !.pc = "enqueue"]
             row == [appointments[a] EXCEPT !.status = "CONFIRMED", !.confirmedAt = TRUE]
  <2>1. /\ a \in Rows /\ a \in AppointmentIds /\ StatusUpdate(a)
        /\ requests[p] \in Changing
    BY <1>2, ConfirmIsStatusUpdate, RowsAreAppointments, RequestRecords, ShapeOfRequest
       DEF RowsOfRequests, ConfirmUpdate
  <2>2. next \in Request /\ next.pc = "enqueue" /\ next.id = a
    BY <2>1 DEF Changing, Request
  <2>3. \/ requests' = Overtake(a, [requests EXCEPT ![p] = next])
        \/ Goto(p, next)
    BY <1>2 DEF ConfirmUpdate, Goto
  <2>4. appointments' = [appointments EXCEPT ![a] = row]
    BY <1>2 DEF ConfirmUpdate
  <2> HIDE DEF next, row
  <2>5. requests'[p] = next
    BY <2>1, <2>2, <2>3, OvertakeOthers DEF Goto, TypeOK
  <2>6. \A b \in AppointmentIds \ {a} : appointments'[b] = appointments[b]
    BY <2>4 DEF TypeOK
  <2>7. Lane(a)' = Lane(a) /\ LaneOf(p)' = Lane(a)'
    BY <2>1, <2>2, <2>5 DEF StatusUpdate, LaneOf, Lane
  <2>8. ~OwesPush(p) /\ Handler(p)
    BY <1>2 DEF ConfirmUpdate, OwesPush, Handler
  <2> QED BY <2>1, <2>2, <2>5, <2>6, <2>7, <2>8, ChangeWatchStep
<1>3. ASSUME CancelUpdate(p)
      PROVE  InformedOrSoon'
  <2> SUFFICES ASSUME NEW a, a = requests[p].id PROVE InformedOrSoon'
    OBVIOUS
  <2> DEFINE next == AwaitBroadcast(appointments[a].serviceId, appointments[a].date)
             row == [appointments[a] EXCEPT !.status = "CANCELLED"]
  <2>1. /\ a \in Rows /\ a \in AppointmentIds /\ StatusUpdate(a)
        /\ appointments[a] \in Appointment
    BY <1>3, CancelIsStatusUpdate, RowsAreAppointments DEF RowsOfRequests, CancelUpdate
  <2>2. /\ next.pc = "findService"
        /\ next.serviceId = appointments[a].serviceId /\ next.date = appointments[a].date
    BY DEF AwaitBroadcast
  <2>3. requests' = [requests EXCEPT ![p] = next] /\ appointments' = [appointments EXCEPT ![a] = row]
    BY <1>3 DEF CancelUpdate, Goto
  <2> HIDE DEF next, row
  <2>4. requests'[p] = next
    BY <2>3 DEF TypeOK
  <2>5. \A b \in AppointmentIds \ {a} : appointments'[b] = appointments[b]
    BY <2>3 DEF TypeOK
  <2>6. DayOf[appointments[a].date] = appointments[a].date
    BY <2>1, AppointmentsAssumption DEF Appointment, Days
  <2>7. Lane(a)' = Lane(a) /\ LaneOf(p)' = Lane(a)
    BY <2>1, <2>2, <2>4, <2>6 DEF StatusUpdate, LaneOf, Lane
  <2>8. ~OwesPush(p) /\ Handler(p)
    BY <1>3 DEF CancelUpdate, OwesPush, Handler
  <2> QED BY <2>1, <2>2, <2>4, <2>5, <2>7, <2>8, ChangeWatchStep
<1> QED BY <1>1, <1>2, <1>3

\* The handlers that owe a push go on with it: none forgets it, since the service of a
\* booking is there.
LEMMA OwersGoOn ==
  ASSUME TypeOK, RowsOfRequests, ServiceOfEveryBooking, InformedInv, [Next]_vars,
         UNCHANGED clients, NEW p \in Requests,
         ConfirmEnqueue(p) \/ BroadcastFindService(p) \/ BroadcastFindBooked(p)
  PROVE  InformedOrSoon'
<1>1. Handler(p) /\ UNCHANGED appointments
  BY DEF Handler, ConfirmEnqueue, BroadcastFindService, BroadcastFindBooked
<1>2. SUFFICES FreshPush(p)' /\ LaneOf(p)' = LaneOf(p)
  BY <1>1, OwingWatchStep DEF InformedInv
<1>3. ASSUME NEW r, Goto(p, r)
      PROVE  requests'[p] = r
  BY <1>3 DEF Goto, TypeOK
<1>4. CASE ConfirmEnqueue(p)
  <2> DEFINE a == requests[p].id
             next == AwaitBroadcast(appointments[a].serviceId, appointments[a].date)
  <2>1. a \in Rows /\ appointments[a] \in Appointment /\ requests[p].pc = "enqueue"
    BY <1>4, RowsAreAppointments DEF RowsOfRequests, ConfirmEnqueue
  <2>2. /\ next.pc = "findService"
        /\ next.serviceId = appointments[a].serviceId /\ next.date = appointments[a].date
    BY DEF AwaitBroadcast
  <2>3. requests'[p] = next
    BY <1>3, <1>4 DEF ConfirmEnqueue
  <2> HIDE DEF next
  <2>4. DayOf[appointments[a].date] = appointments[a].date
    BY <2>1, AppointmentsAssumption DEF Appointment, Days
  <2>5. LaneOf(p)' = LaneOf(p)
    BY <2>1, <2>2, <2>3, <2>4 DEF LaneOf, Lane
  <2> QED BY <2>2, <2>3, <2>5 DEF FreshPush, OwesPush
<1>5. CASE BroadcastFindService(p)
  <2> DEFINE r == requests[p]
             next == [pc |-> "findBooked", serviceId |-> r.serviceId, date |-> r.date,
                      duration |-> services[r.serviceId].duration]
  <2>1. services[r.serviceId].state = "live" /\ r.pc = "findService"
    BY <1>5 DEF BroadcastFindService, InformedInv, BroadcastsAreForRows, ServiceOfEveryBooking
  <2>2. requests'[p] = next
    BY <1>3, <1>5, <2>1 DEF BroadcastFindService
  <2>3. next.pc = "findBooked" /\ next.serviceId = r.serviceId /\ next.date = r.date
    OBVIOUS
  <2> HIDE DEF next
  <2> QED BY <2>1, <2>2, <2>3 DEF FreshPush, OwesPush, LaneOf
<1>6. CASE BroadcastFindBooked(p)
  <2> DEFINE r == requests[p]
  <2>1. requests'[p] = EmitSlots(r, BookedRanges(r.serviceId, r.date)) /\ r.pc = "findBooked"
    BY <1>3, <1>6 DEF BroadcastFindBooked
  <2>2. PICK s, date, ranges : s = r.serviceId /\ date = r.date /\ ranges = BookedRanges(s, date)
    OBVIOUS
  <2>3. BookedRanges(s, date)' = ranges
    BY <1>1, <2>2, SameTableSameBookings
  <2>4. /\ requests'[p].pc = "emit" /\ requests'[p].serviceId = s /\ requests'[p].date = date
        /\ requests'[p].slots = GetAvailableSlots(requests'[p].duration, ranges)
    BY <2>1, <2>2 DEF EmitSlots
  <2> QED BY <2>1, <2>2, <2>3, <2>4 DEF FreshPush, OwesPush, LaneOf
<1> QED BY <1>4, <1>5, <1>6

\* What clients and staff do beside the handlers.
LEMMA ClientsWatchStep ==
  ASSUME TypeOK, WatchTypeOK, InformedOrSoon,
         \/ Catalogue /\ UNCHANGED clients
         \/ Mail /\ UNCHANGED clients
         \/ UNCHANGED watchVars
         \/ \E w \in Clients : \/ \E room \in Rooms : Subscribe(w, room)
                               \/ Unsubscribe(w) \/ AnswerRead(w) \/ StartRead(w)
  PROVE  InformedOrSoon'
<1>1. UNCHANGED <<appointments, requests>>
  BY DEF Catalogue, CreateService, UpdateService, RemoveService, Mail, watchVars, vars,
         Subscribe, Unsubscribe, AnswerRead, StartRead
<1>2. \A lane : Coming(lane)' <=> Coming(lane)
  <2>1. \A p : FreshPush(p)' <=> FreshPush(p)
    BY <1>1, SameTableSameBookings DEF FreshPush, OwesPush
  <2>2. \A p : LaneOf(p)' = LaneOf(p)
    BY <1>1 DEF LaneOf, Lane
  <2> QED BY <2>1, <2>2 DEF Coming
<1>3. ASSUME \A w \in Clients : clients'[w].view = "kept" => Told(w)' \/ clients'[w] = clients[w]
      PROVE  InformedOrSoon'
  <2> SUFFICES ASSUME NEW w \in Clients, clients'[w] = clients[w]
               PROVE  Coming(LaneOfRoom(clients[w].room)) => Coming(LaneOfRoom(clients[w].room))'
    BY <1>1, <1>3, QuietWatchStep
  <2>1. PICK lane : lane = LaneOfRoom(clients[w].room)
    OBVIOUS
  <2>2. LaneOfRoom(clients[w].room)' = lane
    BY <2>1 DEF LaneOfRoom
  <2> QED BY <1>2, <2>1, <2>2 DEF Coming
<1>4. CASE UNCHANGED clients
  BY <1>3, <1>4
<1>5. ASSUME NEW w \in Clients, NEW c, clients' = [clients EXCEPT ![w] = c],
             c.view # "kept" \/ Told(w)'
      PROVE  InformedOrSoon'
  BY <1>3, <1>5 DEF WatchTypeOK
<1>6. ASSUME NEW w \in Clients, Unsubscribe(w) \/ \E room \in Rooms : Subscribe(w, room)
      PROVE  InformedOrSoon'
  <2>1. \A room : Joined(room).view = "none"
    BY DEF Joined
  <2> QED BY <1>5, <1>6, <2>1 DEF Unsubscribe, Subscribe
<1>7. ASSUME NEW w \in Clients, StartRead(w)
      PROVE  InformedOrSoon'
  <2> DEFINE next == [clients[w] EXCEPT !.view = "reading",
                                        !.duration = services[clients[w].room[1]].duration]
  <2>1. clients' = [clients EXCEPT ![w] = next] /\ clients[w] \in Client
    BY <1>7 DEF StartRead, WatchTypeOK
  <2>2. next.view = "reading"
    BY <2>1 DEF Client
  <2> HIDE DEF next
  <2> QED BY <1>5, <2>1, <2>2
<1>8. ASSUME NEW w \in Clients, AnswerRead(w)
      PROVE  InformedOrSoon'
  <2> DEFINE c == clients[w]
             ranges == BookedRanges(c.room[1], c.room[2])
             answer == [duration |-> c.duration, slots |-> GetAvailableSlots(c.duration, ranges)]
             next == [c EXCEPT !.view = "kept", !.shown = @ \cup {answer}]
  <2>1. clients' = [clients EXCEPT ![w] = next] /\ c \in Client
    BY <1>8 DEF AnswerRead, WatchTypeOK
  <2>2. next.room = c.room /\ answer \in next.shown
    <3> HIDE DEF answer
    <3> QED BY <2>1 DEF Client
  <2>3. answer.slots = GetAvailableSlots(answer.duration, ranges)
    OBVIOUS
  <2>4. PICK s, date, m : s = c.room[1] /\ date = c.room[2] /\ m = answer
    OBVIOUS
  <2>5. m.slots = GetAvailableSlots(m.duration, BookedRanges(s, date)')
    BY <1>1, <2>3, <2>4, SameTableSameBookings
  <2>6. clients'[w] = next
    BY <2>1 DEF WatchTypeOK
  <2>7. clients'[w].room[1] = s /\ clients'[w].room[2] = date /\ m \in clients'[w].shown
    BY <2>2, <2>4, <2>6
  <2>8. Told(w)'
    BY <2>5, <2>7 DEF Told
  <2> HIDE DEF next
  <2> QED BY <1>5, <2>1, <2>8
<1> QED BY <1>4, <1>6, <1>7, <1>8 DEF watchVars

\* Every step keeps who has been told or is about to be.
LEMMA InformedStep ==
  ASSUME TypeOK, RowsOfRequests, ServiceOfEveryBooking, WatchTypeOK, InformedInv,
         [WatchNext]_watchVars
  PROVE  InformedInv'
<1>1. [Next]_vars /\ BroadcastsAreForRows'
  BY WatchedStep, BroadcastsStep DEF InformedInv
<1>2. InformedOrSoon
  BY DEF InformedInv
<1>3. ASSUME NEW p \in Requests, Serve(p)
      PROVE  InformedOrSoon'
  <2>1. CASE BroadcastEmit(p)
    BY <1>1, <1>2, <1>3, <2>1, EmitWatchStep
  <2>2. CASE ~BroadcastEmit(p)
    <3>1. Handler(p) /\ UNCHANGED clients
      BY <1>3, <2>2 DEF Serve, Handler, CreateCheckSlot, CreateInsert, CreateRefused,
         ConfirmUpdate, ConfirmEnqueue, CancelUpdate, BroadcastFindService, BroadcastFindBooked
    <3>2. CASE CreateCheckSlot(p) \/ CreateRefused(p)
      BY <1>1, <1>2, <3>1, <3>2, IdleWatchStep DEF CreateCheckSlot, CreateRefused, OwesPush
    <3> QED BY <1>1, <1>2, <2>2, <3>1, <3>2, ChangesOwe, OwersGoOn DEF Handler
  <2> QED BY <2>1, <2>2
<1>4. ASSUME NEW p \in Requests, NEW user \in Users, Start(p, user)
      PROVE  InformedOrSoon'
  <2>1. /\ StartRequest(p) /\ UNCHANGED <<appointments, clients>> /\ ~OwesPush(p)
    BY <1>4 DEF Start, StartRequest, StartAs, StartCreate, StartConfirm, StartCancel, OwesPush
  <2> QED BY <1>1, <1>2, <2>1, IdleWatchStep
<1> QED BY <1>1, <1>2, <1>3, <1>4, FailWatchStep, ClientsWatchStep
     DEF InformedInv, WatchNext, Proceed, Curate

\* A screen that joined its room and then read has been shown what is free now as soon
\* as no handler owes a push of its lane, unless a push of the lane was lost or went to
\* another text of the date (appointment.gateway.ts:17-19, 65-69).
THEOREM ClientsAreInformed == WatchSpec => []InformedClients
<1> DEFINE Base == TypeOK /\ RowsOfRequests
<1>1. WatchInit => InformedInv
  BY DEF WatchInit, Init, InformedInv, InformedOrSoon, BroadcastsAreForRows, Joined, IdleRequest
<1>2. Base /\ ServiceOfEveryBooking /\ WatchTypeOK /\ InformedInv /\ [WatchNext]_watchVars
        => InformedInv'
  BY InformedStep
<1>3. InformedInv => InformedClients
  BY DEF InformedInv, InformedOrSoon, InformedClients, Told, Coming, FreshPush
<1> QED BY <1>1, <1>2, <1>3, WatchedBase, WatchedBooking, BookingsHaveServices,
           WatchTypeCorrect, PTL DEF WatchSpec

-----------------------------------------------------------------------------
\* The accounts of the salon are a run of AuthService.
LEMMA SalonAccounts == SalonSpec => Auth!Spec
<1>1. SalonInit => Auth!Init
  BY DEF SalonInit
<1>2. [SalonNext]_salonVars => [Auth!Next]_(Auth!vars)
  BY DEF SalonNext, salonVars, accountVars, Ask, Continue, Account, Auth!vars
<1> QED BY <1>1, <1>2, PTL DEF SalonSpec, Auth!Spec

\* The two instances of Accounts, in Salon and in the proofs about it, are one.
LEMMA SameTokenLeft == Auth!TokenLeft <=> AuthProofs!TokenLeft
<1>1. \A S : Auth!Cardinality(S) = AuthProofs!Cardinality(S)
  BY DEF Auth!Cardinality, AuthProofs!Cardinality, Auth!IsFiniteSet, AuthProofs!IsFiniteSet
<1> QED BY <1>1 DEF Auth!TokenLeft, AuthProofs!TokenLeft

\* Each of their actions is the same action.
LEMMA SameAccounts == Auth!Next => AuthProofs!Next
<1> USE DEF Auth!Rows, AuthProofs!Rows, Auth!Goto, AuthProofs!Goto, Auth!IdleRequest,
            AuthProofs!IdleRequest
<1>1. ASSUME NEW p, NEW email
      PROVE  /\ \A role : Auth!StartRegister(p, email, role)
                         => AuthProofs!StartRegister(p, email, role)
             /\ Auth!StartResend(p, email) => AuthProofs!StartResend(p, email)
             /\ Auth!StartLogin(p, email) => AuthProofs!StartLogin(p, email)
  BY SameTokenLeft
     DEF Auth!StartRegister, AuthProofs!StartRegister, Auth!StartResend,
         AuthProofs!StartResend, Auth!StartLogin, AuthProofs!StartLogin
<1>2. ASSUME NEW p, NEW u, NEW token
      PROVE  Auth!CreateUser(p, u, token) => AuthProofs!CreateUser(p, u, token)
  BY DEF Auth!CreateUser, AuthProofs!CreateUser, Auth!NewUser, AuthProofs!NewUser
<1>3. ASSUME NEW p, NEW token
      PROVE  /\ Auth!StartVerify(p, token) => AuthProofs!StartVerify(p, token)
             /\ Auth!RenewLink(p, token) => AuthProofs!RenewLink(p, token)
  BY DEF Auth!StartVerify, AuthProofs!StartVerify, Auth!RenewLink, AuthProofs!RenewLink
<1>4. ASSUME NEW p
      PROVE  /\ Auth!SendLink(p) => AuthProofs!SendLink(p)
             /\ Auth!VerifyUser(p) => AuthProofs!VerifyUser(p)
  BY DEF Auth!SendLink, AuthProofs!SendLink, Auth!VerifyUser, AuthProofs!VerifyUser,
         Auth!Verified, AuthProofs!Verified
<1>5. ASSUME NEW p, NEW outcome
      PROVE  /\ Auth!FinishLogin(p, outcome) => AuthProofs!FinishLogin(p, outcome)
             /\ Auth!Abort(p, outcome) => AuthProofs!Abort(p, outcome)
  BY DEF Auth!FinishLogin, AuthProofs!FinishLogin, Auth!Abort, AuthProofs!Abort
<1>6. ASSUME NEW u
      PROVE  Auth!Expire(u) => AuthProofs!Expire(u)
  BY DEF Auth!Expire, AuthProofs!Expire
<1>7. Auth!Delivered = AuthProofs!Delivered
  BY DEF Auth!Delivered, AuthProofs!Delivered
<1> QED BY <1>1, <1>2, <1>3, <1>4, <1>5, <1>6, <1>7
     DEF Auth!Next, AuthProofs!Next, Auth!Roles, AuthProofs!Roles

\* What Accounts assumes of its constants holds of the salon's.
LEMMA SalonTokens == AuthProofs!AccountsAssumption
<1>1. Auth!User = AuthProofs!User
  BY DEF Auth!User, AuthProofs!User, Auth!Roles, AuthProofs!Roles
<1> QED BY <1>1, SalonAssumption DEF AuthProofs!AccountsAssumption

\* What is proved of accounts holds in the salon.
LEMMA SalonAccountsInv == SalonSpec => []AuthProofs!AccountsInv
<1>1. Auth!Init => AuthProofs!Init
  BY DEF Auth!Init, AuthProofs!Init, Auth!IdleRequest, AuthProofs!IdleRequest
<1>2. [Auth!Next]_(Auth!vars) => [AuthProofs!Next]_(AuthProofs!vars)
  BY SameAccounts DEF Auth!vars, AuthProofs!vars
<1>3. Auth!Spec => AuthProofs!Spec
  BY <1>1, <1>2, PTL DEF Auth!Spec, AuthProofs!Spec
<1>4. AuthProofs!Spec => []AuthProofs!AccountsInv
  BY AuthProofs!AccountsInvariant, SalonTokens, PTL
<1> QED BY <1>3, <1>4, SalonAccounts, PTL

\* What the JWT strategy hands on is a user with a role.
LEMMA CallersAreUsers ==
  ASSUME AuthProofs!AccountsInv, NEW id \in UserIds, Authenticated(id)
  PROVE  Caller(id) \in Users
<1>1. users[id] \in AuthProofs!User
  BY DEF Authenticated, Auth!Rows, AuthProofs!AccountsInv, AuthProofs!TypeOK
<1>2. users[id].role \in AuthProofs!Roles
  BY <1>1 DEF AuthProofs!User
<1>3. AuthProofs!Roles = Auth!Roles
  BY DEF AuthProofs!Roles, Auth!Roles
<1> QED BY <1>2, <1>3, SalonAssumption DEF Caller

\* So what a user asks for is what booking and its watchers do.
LEMMA SalonWatchStep ==
  AuthProofs!AccountsInv /\ [SalonNext]_salonVars => [WatchNext]_watchVars
<1>1. ASSUME AuthProofs!AccountsInv, NEW id \in UserIds, Ask(id)
      PROVE  WatchNext
  BY <1>1, CallersAreUsers DEF Ask, WatchNext
<1> QED BY <1>1 DEF SalonNext, salonVars, Continue, Account, WatchNext

\* Booking in the salon is watched booking.
LEMMA SalonWatches == SalonSpec => WatchSpec
<1>1. SalonInit => WatchInit
  BY DEF SalonInit
<1> QED BY <1>1, SalonWatchStep, SalonAccountsInv, PTL DEF SalonSpec, WatchSpec

\* Put together, each part still does what it does alone: a run of the salon is a run of
\* the booking system and a run of AuthService, so what is proved of either holds of both.
THEOREM SalonKeepsItsParts == SalonSpec => Spec /\ Auth!Spec
  BY SalonWatches, WatchedBooking, SalonAccounts, PTL

-----------------------------------------------------------------------------
\* Who a booking may be for: a user, of either role, whose row is verified.
MayBook(id) == id \in Auth!Rows /\ users[id].verified

\* A create that the guards let in is for somebody who may book.
CreatesAreVerified ==
  \A p \in Requests :
    requests[p].pc \in {"checkSlot", "insert"} => MayBook(requests[p].userId)

\* What the guards let pass may book, and goes on to.
LEMMA VerifiedMayBook ==
  ASSUME AuthProofs!AccountsInv
  PROVE  \A id \in UserIds : Authenticated(id) => MayBook(id)
<1>1. AuthProofs!SessionsAreVerified /\ AuthProofs!Rows = Auth!Rows
  BY DEF AuthProofs!AccountsInv, AuthProofs!Rows, Auth!Rows
<1> QED BY <1>1 DEF MayBook, Authenticated, AuthProofs!SessionsAreVerified

\* No step of AuthService takes that away.
LEMMA MayBookStays ==
  ASSUME AuthProofs!AccountsInv, [AuthProofs!Next]_(AuthProofs!vars)
  PROVE  \A id : MayBook(id) => MayBook(id)'
<1>1. \A id \in AuthProofs!Rows :
        users[id].verified => id \in AuthProofs!Rows' /\ users'[id].verified
  BY AuthProofs!VerifiedRowsStay, SalonTokens
<1> QED BY <1>1 DEF MayBook, AuthProofs!Rows, Auth!Rows

\* A create that is under way was under way before, for the same user.
CreatesStay ==
  \A q \in Requests : requests'[q].pc \in {"checkSlot", "insert"} =>
    /\ requests[q].pc \in {"checkSlot", "insert"}
    /\ requests'[q].userId = requests[q].userId

\* A handler, once started, keeps the user it works for.
LEMMA HandlersKeepTheirUser ==
  ASSUME TypeOK, RowsOfRequests, NEW p \in Requests, Handler(p) \/ Abort(p)
  PROVE  CreatesStay
<1>1. ASSUME NEW r, Goto(p, r), r.pc \notin {"checkSlot", "insert"}
      PROVE  CreatesStay
  BY <1>1 DEF CreatesStay, Goto, TypeOK
<1>2. ASSUME NEW a \in AppointmentIds, NEW next \in Request,
             next.pc \notin {"checkSlot", "insert", "emit"},
             requests' = Overtake(a, [requests EXCEPT ![p] = next])
      PROVE  CreatesStay
  <2> SUFFICES ASSUME NEW q \in Requests, requests'[q].pc \in {"checkSlot", "insert"}
               PROVE  /\ requests[q].pc \in {"checkSlot", "insert"}
                      /\ requests'[q].userId = requests[q].userId
    BY DEF CreatesStay
  <2>1. requests'[p] = next
    BY <1>2, OvertakeOthers
  <2>2. /\ q # p
        /\ requests'[q] = IF requests[q].pc \in {"insert", "emit"}
                          THEN [requests[q] EXCEPT !.missed = @ \cup {a}]
                          ELSE requests[q]
    BY <1>2, <2>1, OvertakeOthers
  <2>3. CASE requests[q].pc \in {"insert", "emit"}
    <3>1. requests'[q].pc = requests[q].pc
      BY <2>2, <2>3, NotingKeepsTheRest DEF StillReads
    <3>2. requests[q] \in Creating
      BY <3>1, RequestRecords, ShapeOfRequest
    <3> QED BY <2>2, <2>3, <3>1, <3>2 DEF Creating
  <2>4. CASE requests[q].pc \notin {"insert", "emit"}
    BY <2>2, <2>4
  <2> QED BY <2>3, <2>4
<1>3. ASSUME CreateCheckSlot(p)
      PROVE  CreatesStay
  <2> DEFINE next == [requests[p] EXCEPT !.pc = "insert"]
  <2>1. next.userId = requests[p].userId /\ requests[p].pc = "checkSlot"
    BY <1>3, RequestRecords, ShapeOfRequest DEF CreateCheckSlot, Creating
  <2>2. CASE Goto(p, next)
    <3> HIDE DEF next
    <3> QED BY <2>1, <2>2 DEF CreatesStay, Goto, TypeOK
  <2>3. CASE Goto(p, IdleRequest)
    BY <1>1, <2>3 DEF IdleRequest
  <2> QED BY <1>3, <2>2, <2>3 DEF CreateCheckSlot
<1>4. ASSUME NEW a \in AppointmentIds, CreateInsert(p, a)
      PROVE  CreatesStay
  <2> DEFINE next == AwaitBroadcast(requests[p].serviceId, requests[p].date)
  <2>1. next \in Request /\ next.pc = "findService"
    BY <1>4, RequestRecords, ShapeOfRequest DEF CreateInsert, Creating, AwaitBroadcast
  <2>2. requests' = Overtake(a, [requests EXCEPT ![p] = next])
    BY <1>4 DEF CreateInsert
  <2> HIDE DEF next
  <2> QED BY <1>2, <2>1, <2>2
<1>5. ASSUME ConfirmUpdate(p)
      PROVE  CreatesStay
  <2> DEFINE next == [requests[p] EXCEPT !.pc = "enqueue"]
  <2>1. requests[p] \in Changing /\ requests[p].id \in AppointmentIds
    BY <1>5, RequestRecords, ShapeOfRequest DEF ConfirmUpdate, Changing
  <2>2. next \in Request /\ next.pc = "enqueue"
    BY <2>1 DEF Changing, Request
  <2>3. \/ requests' = Overtake(requests[p].id, [requests EXCEPT ![p] = next])
        \/ Goto(p, next)
    BY <1>5 DEF ConfirmUpdate, Goto
  <2> HIDE DEF next
  <2> QED BY <1>1, <1>2, <2>1, <2>2, <2>3
<1>6. ASSUME \/ CreateRefused(p) \/ ConfirmEnqueue(p) \/ CancelUpdate(p)
             \/ BroadcastFindService(p) \/ BroadcastFindBooked(p) \/ BroadcastEmit(p)
             \/ Abort(p)
      PROVE  CreatesStay
  <2>1. PICK r : Goto(p, r) /\ r.pc \in {"idle", "findService", "findBooked", "emit"}
    BY <1>6 DEF CreateRefused, ConfirmEnqueue, CancelUpdate, BroadcastFindService,
                BroadcastFindBooked, BroadcastEmit, Abort, IdleRequest, AwaitBroadcast, EmitSlots
  <2> QED BY <1>1, <2>1
<1> QED BY <1>3, <1>4, <1>5, <1>6 DEF Handler

\* Of the steps of booking, only the start of a create brings in a user, the one the
\* guards let in.
LEMMA VerifiedCreatesStep ==
  ASSUME TypeOK, RowsOfRequests, CreatesAreVerified, UNCHANGED accountVars,
         AuthProofs!AccountsInv,
         \/ \E id \in UserIds : Ask(id)
         \/ Proceed
  PROVE  CreatesAreVerified'
<1>1. \A id : MayBook(id)' <=> MayBook(id)
  BY DEF MayBook, accountVars, Auth!Rows
<1>2. CASE CreatesStay
  BY <1>1, <1>2 DEF CreatesStay, CreatesAreVerified
<1>3. CASE UNCHANGED requests
  BY <1>1, <1>3 DEF CreatesAreVerified
<1>4. ASSUME NEW p \in Requests, Serve(p) \/ Fail(p)
      PROVE  CreatesAreVerified'
  BY <1>2, <1>4, HandlersKeepTheirUser DEF Serve, Fail
<1>5. ASSUME NEW id \in UserIds, NEW p \in Requests, Authenticated(id), Start(p, Caller(id))
      PROVE  CreatesAreVerified'
  <2>1. ASSUME NEW r, Goto(p, r), r.pc = "checkSlot" => r.userId = id, r.pc # "insert"
        PROVE  CreatesAreVerified'
    <3>1. requests'[p] = r /\ \A q \in Requests \ {p} : requests'[q] = requests[q]
      BY <2>1 DEF Goto, TypeOK
    <3>2. MayBook(id)
      BY <1>5, VerifiedMayBook
    <3> QED BY <1>1, <2>1, <3>1, <3>2 DEF CreatesAreVerified
  <2>2. ASSUME NEW s, NEW date, NEW startTime,
               StartCreate(p, Caller(id), s, date, startTime)
        PROVE  CreatesAreVerified'
    BY <2>1, <2>2 DEF StartCreate, Caller
  <2>3. ASSUME NEW a, StartConfirm(p, Caller(id), a) \/ StartCancel(p, Caller(id), a)
        PROVE  CreatesAreVerified'
    BY <2>1, <2>3 DEF StartConfirm, StartCancel
  <2> QED BY <1>5, <2>2, <2>3 DEF Start, StartAs
<1>6. CASE Catalogue \/ Mail
  BY <1>3, <1>6 DEF Catalogue, CreateService, UpdateService, RemoveService, Mail
<1>7. CASE \E w \in Clients : \/ \E room \in Rooms : Subscribe(w, room)
                              \/ Unsubscribe(w) \/ AnswerRead(w) \/ StartRead(w)
  BY <1>3, <1>7 DEF Subscribe, Unsubscribe, AnswerRead, StartRead, vars
<1> QED BY <1>4, <1>5, <1>6, <1>7 DEF Ask, Proceed, Curate

\* A row keeps its user, and a new row is for the user of its create.
LEMMA BookersStep ==
  ASSUME TypeOK, RowsOfRequests, CreatesAreVerified, BookersAreVerified,
         \A id : MayBook(id) => MayBook(id)',
         [Next]_vars
  PROVE  BookersAreVerified'
<1>0. BookersAreVerified <=> \A a \in Rows : MayBook(appointments[a].userId)
  BY DEF BookersAreVerified, MayBook
<1> SUFFICES ASSUME NEW a \in Rows', NEW id, id = appointments'[a].userId
             PROVE  MayBook(id)'
  BY DEF BookersAreVerified, MayBook
<1>2. CASE UNCHANGED appointments
  BY <1>0, <1>2 DEF Rows
<1>3. ASSUME NEW p \in Requests, NEW b \in AppointmentIds, CreateInsert(p, b)
      PROVE  MayBook(id)'
  <2>1. RowInserted(requests[p], b)
    BY <1>3, InsertAddsRow
  <2>2. MayBook(requests[p].userId)
    BY <1>3 DEF CreateInsert, CreatesAreVerified
  <2> QED BY <1>0, <2>1, <2>2 DEF RowInserted, NewRow
<1>4. ASSUME NEW p \in Requests, ConfirmUpdate(p) \/ CancelUpdate(p)
      PROVE  MayBook(id)'
  <2>1. StatusUpdate(requests[p].id)
    BY <1>4, ConfirmIsStatusUpdate, CancelIsStatusUpdate
  <2> QED BY <1>0, <2>1 DEF StatusUpdate
<1> QED BY <1>2, <1>3, <1>4, TableSteps

\* Nobody, customer or staff, books before the address is verified: the guards look only
\* for a row of the user's id, but login() signs a token for a verified row, nothing
\* takes the verification back, and a create inserts for the user the guards let in
\* (jwt.strategy.ts:27-33, appointments.service.ts:104-138).
THEOREM BookersHaveVerified == SalonSpec => []BookersAreVerified
<1> DEFINE Inv == CreatesAreVerified /\ BookersAreVerified
           Base == TypeOK /\ RowsOfRequests /\ AuthProofs!AccountsInv
<1>1. SalonInit => Inv
  BY DEF SalonInit, WatchInit, Init, CreatesAreVerified, BookersAreVerified, Rows, IdleRequest
<1>2. Base /\ Inv /\ [SalonNext]_salonVars => Inv'
  <2> SUFFICES ASSUME Base, Inv, [SalonNext]_salonVars PROVE Inv'
    OBVIOUS
  <2>1. CASE Account
    <3>1. \A id : MayBook(id) => MayBook(id)'
      BY <2>1, SameAccounts, MayBookStays DEF Account
    <3> QED BY <2>1, <3>1, BookersStep
         DEF Account, watchVars, vars, CreatesAreVerified
  <2>2. ASSUME UNCHANGED accountVars, \/ \E id \in UserIds : Ask(id)
                                      \/ Proceed
        PROVE  Inv'
    <3>1. \A id : MayBook(id) => MayBook(id)'
      BY <2>2 DEF MayBook, accountVars, Auth!Rows
    <3>2. [Next]_vars
      <4>1. [WatchNext]_watchVars
        BY <2>2, CallersAreUsers DEF Ask, WatchNext
      <4> QED BY <4>1, WatchedStep
    <3> QED BY <2>2, <3>1, <3>2, BookersStep, VerifiedCreatesStep
  <2>3. CASE UNCHANGED salonVars
    BY <2>3 DEF salonVars, accountVars, watchVars, vars, CreatesAreVerified,
                BookersAreVerified, MayBook, Rows, Auth!Rows
  <2> QED BY <2>1, <2>2, <2>3 DEF SalonNext, Ask, Continue
<1>3. SalonSpec => []Base
  BY WatchedBase, SalonWatches, SalonAccountsInv, PTL
<1> QED BY <1>1, <1>2, <1>3, PTL DEF SalonSpec

\* Confirmations go to people who have shown that the address is theirs.
ConfirmationsGoToVerified ==
  \A j \in DOMAIN jobs :
    LET id == appointments[jobs[j].appointmentId].userId
    IN  id \in Auth!Rows /\ users[id].verified

\* Every confirmation that is queued is for a booking of a user, of either role, whose
\* address is verified, also in the jobs that a late confirm queues twice: the queue
\* (appointments.service.ts:217) trusts the row, the row trusts the guards, the guards
\* trust the token, and the token rests on login().
THEOREM ConfirmationsAreVerified == SalonSpec => []ConfirmationsGoToVerified
<1>1. TypeOK /\ ConfirmedRowsAreQueued /\ BookersAreVerified => ConfirmationsGoToVerified
  <2> SUFFICES ASSUME TypeOK, ConfirmedRowsAreQueued, BookersAreVerified, NEW j \in DOMAIN jobs,
                      NEW a, a = jobs[j].appointmentId
               PROVE  LET id == appointments[a].userId
                      IN  id \in Auth!Rows /\ users[id].verified
    BY DEF ConfirmationsGoToVerified
  <2>1. a \in AppointmentIds
    <3>1. jobs[j] \in Job
      BY DEF TypeOK
    <3> QED BY <3>1 DEF Job
  <2>2. j \in JobsOf(a)
    BY DEF JobsOf
  <2>3. a \in Rows
    BY <2>1, <2>2 DEF ConfirmedRowsAreQueued
  <2> QED BY <2>3 DEF BookersAreVerified
<1> QED BY <1>1, TypeCorrect, ConfirmationsAreQueued, SalonKeepsItsParts, BookersHaveVerified, PTL
=============================================================================
