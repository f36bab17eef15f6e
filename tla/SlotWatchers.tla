---------------------------- MODULE SlotWatchers ----------------------------
(***************************************************************************)
(* The people who look at the slots: sockets that join and leave the rooms *)
(* of AppointmentsGateway, and GET /appointments/available-slots, the read *)
(* a screen starts from.  The server keeps only who is in which room; what *)
(* a screen has been shown is recorded as a set, because nothing orders an *)
(* HTTP answer and the pushes, and no message says how old it is.          *)
(***************************************************************************)
EXTENDS Appointments

CONSTANT Clients        \* sockets, each watching one room at a time

VARIABLE clients

watchVars == <<vars, clients>>

\* `view`: no read since joining; a read that has its service and not yet its
\* bookings; answered; answered, and since then a push of the lane was lost.
Client ==
  [room : Rooms \cup {NULL}, view : {"none"}, duration : {0}, shown : SUBSET Push]
    \cup [room : Rooms, view : {"reading", "kept", "lost"}, duration : Durations,
          shown : SUBSET Push]

Joined(room) == [room |-> room, view |-> "none", duration |-> 0, shown |-> {}]

Watching(w) == clients[w].room # NULL

LaneOfRoom(room) == <<room[1], DayOf[room[2]]>>

WatchInit == Init /\ clients = [w \in Clients |-> Joined(NULL)]

-----------------------------------------------------------------------------
\* handleSubscribeSlots(), lines 43-51: any text a client sends names a room.
Subscribe(w, room) ==
  /\ ~Watching(w)
  /\ clients' = [clients EXCEPT ![w] = Joined(room)]
  /\ UNCHANGED vars

\* handleUnsubscribeSlots(), or the connection is gone.
Unsubscribe(w) ==
  /\ Watching(w)
  /\ clients' = [clients EXCEPT ![w] = Joined(NULL)]
  /\ UNCHANGED vars

\* Mutant: a service that is not there is not refused.
StartReadUnrefused(w) ==
  /\ Watching(w)
  /\ clients[w].view = "none"
  /\ clients' = [clients EXCEPT ![w].view = "reading",
                                ![w].duration = services[clients[w].room[1]].duration]
  /\ UNCHANGED vars

\* getAvailableSlots(), appointments.service.ts:51.  Bound: one read of a client
\* after it joined; a read made before tells the room nothing.
StartRead(w) ==
  LET service == services[clients[w].room[1]]
  IN  /\ Watching(w)
      /\ clients[w].view = "none"
      /\ service.state = "live"
      /\ clients' = [clients EXCEPT ![w].view = "reading", ![w].duration = service.duration]
      /\ UNCHANGED vars

\* Lines 52-54.
AnswerRead(w) ==
  LET c == clients[w]
      answer == [duration |-> c.duration,
                 slots |-> GetAvailableSlots(c.duration, BookedRanges(c.room[1], c.room[2]))]
  IN  /\ c.view = "reading"
      /\ clients' = [clients EXCEPT ![w].view = "kept", ![w].shown = @ \cup {answer}]
      /\ UNCHANGED vars

-----------------------------------------------------------------------------
\* The screens of a lane that have their answer and are not in the rooms told.
Overlook(lane, told) ==
  [w \in Clients |->
     IF /\ clients[w].view = "kept"
        /\ LaneOfRoom(clients[w].room) = lane
        /\ clients[w].room \notin told
     THEN [clients[w] EXCEPT !.view = "lost"] ELSE clients[w]]

\* broadcastSlotsUpdate(), lines 65-69: everyone in the room at the time is told.
Tell(lane, room, push) ==
  [w \in Clients |->
     IF clients[w].room = room THEN [clients[w] EXCEPT !.shown = @ \cup {push}]
     ELSE Overlook(lane, {room})[w]]

Serve(p) ==
  LET r == requests[p]
  IN  /\ Handler(p)
      /\ clients' = IF r.pc = "emit"
                    THEN Tell(LaneOf(p), <<r.serviceId, r.date>>,
                              [duration |-> r.duration, slots |-> r.slots])
                    ELSE clients

\* A handler that owed a push and stops: no room of the lane hears of its change.
Fail(p) ==
  /\ Abort(p)
  /\ clients' = IF OwesPush(p) THEN Overlook(LaneOf(p), {}) ELSE clients

Start(p, user) == StartAs(p, user) /\ UNCHANGED clients

Curate == Catalogue /\ UNCHANGED clients

\* Everything but the start of a request and of a read, and staff's changes of the
\* catalogue, which need a user.
Proceed ==
  \/ \E p \in Requests : Serve(p) \/ Fail(p)
  \/ Mail /\ UNCHANGED clients
  \/ \E w \in Clients :
       \/ \E room \in Rooms : Subscribe(w, room)
       \/ Unsubscribe(w)
       \/ AnswerRead(w)

WatchNext ==
  \/ Proceed
  \/ \E p \in Requests, user \in Users : Start(p, user)
  \/ \E w \in Clients : StartRead(w)
  \/ Curate

WatchSpec == WatchInit /\ [][WatchNext]_watchVars

-----------------------------------------------------------------------------
WatchTypeOK == clients \in [Clients -> Client]

\* appointment.gateway.ts:17-19, as far as the code keeps it when handlers overlap:
\* a screen that joined its room and then read has been shown what is free now, in
\* its answer or in a push, as soon as no handler owes a push of that lane.  It may
\* have been shown something older after that (see BoardFresh), and it is told
\* nothing of a change whose push failed or went to another text of the date.
InformedClients ==
  \A w \in Clients :
    LET room == clients[w].room
    IN  /\ clients[w].view = "kept"
        /\ \A p \in Requests : OwesPush(p) => LaneOf(p) # LaneOfRoom(room)
        => \E message \in clients[w].shown :
             message.slots = GetAvailableSlots(message.duration, BookedRanges(room[1], room[2]))
=============================================================================
