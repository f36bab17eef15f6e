# Verification of the salon appointment backend

TLA+ models, TLC runs and TLAPS proofs for the NestJS backend whose sources are under `src/`
(the application itself is `src/src/`). All paths below are relative to the directory above
this one. Every definition that stands for code is listed with its lines in `PROJECT.json`,
as are the runs, the mutants that show each property can fail, the hazards and the findings.

## 1. The system

One Node process serves REST calls and two WebSocket namespaces, keeps its data in PostgreSQL
through Prisma, and runs the workers of two BullMQ queues in Redis. Nothing in `src/` uses a
transaction, a lock or a retry: **every handler is an async function whose awaits are its only
interleaving points**, and whatever a handler read before an await may be stale after it. That
sentence decides the shape of every module here.

| component | state | operations | talks to |
|---|---|---|---|
| slot arithmetic, `common/utils/time-slot.util.ts` | none | `validateSlot`, `getAvailableSlots`, helpers | called by appointments |
| appointments, `modules/appointments/` | table `Appointment`; one room per service and date text | `create`, `confirm`, `cancel`, `broadcastSlots`; reads | services, slot arithmetic, confirmation queue, gateway |
| services catalogue, `modules/services/` | table `Service` | `create`, `update`, `remove`; reads | read by appointments |
| confirmation mails, `modules/notifications/` | queue `appointment-notifications` | `process` | mail service |
| bulk mails, `modules/bulk-jobs/` | tables `BulkJob`, `NotificationLog`; queue `bulk-notifications`; one room per job | `uploadAndEnqueue`, `process`; reads | settings, mail service, gateway |
| settings, `modules/settings/` | the `Settings` row | `setActiveTemplate`, `clearActiveTemplate`, `get` | read by bulk mails |
| authentication, `modules/auth/` | table `User` | `register`, `verifyEmail`, `resendVerification`, `login` | mail service |
| mail service, `modules/mail/` | none | `send` | SMTP server |
| gateways, `appointment.gateway.ts`, `bulk -notification.gateway.ts` | which socket is in which room | join, leave, disconnect, push | sockets |
| JWT strategy and guards, `strategies/`, `common/guards/` | none | `validate`, role check | table `User`; in front of every controller |
| template renderer, `common/utils/template.renderer.util.ts` | none | `render` | called by bulk mails |
| filter, interceptor, listing of templates, bootstrap | none | | |

What makes it hard, and what each component must keep nevertheless:

- **Appointments.** `create` checks and inserts in separate awaits, `confirm` and `cancel` update
  by id what they decided on an earlier read, the catalogue changes in between, pushes overtake
  each other. Correct means: no two visits of a service overlap, a status never goes back, a
  confirmation is mailed once, watchers end up with what is free. The code does not keep these
  under concurrency; the models say exactly what it does keep.
- **Confirmation mails.** A job may be repeated by a stall and a send may be accepted although
  its reply is lost. Correct means: duplicates only from that, jobs started in the order they were queued, no silent loss.
- **Bulk mails.** A job may stall and be run again from row 0, beside the run that lost its lock;
  log and counters are separate writes; nothing is written when the run throws. Correct means:
  the log accounts for what the counters and the status claim.
- **Authentication.** Addresses, links and the verified flag are all read before they are
  written. Correct means: one account per address, verification only by a link mailed to that
  address, tokens only for verified users, and so bookings only of verified users, whichever role
  they registered with.
- **Screens.** A screen joins a room and then reads; the answer and the pushes travel apart, and
  pushes overtake each other. Correct means: who joined before reading ends up informed, of free
  slots as of the end of a bulk job.

The complete list, line by line, is `hazards` in `PROJECT.json`.

## 2. The modules

| module | models | how |
|---|---|---|
| `TimeSlots` | `TimeSlotUtil` | pure operators on clock texts `[h, m]`; the DTO allows any two digits, so neither field is bounded |
| `Agenda` | one service's day as one client at a time uses the arithmetic; EXTENDS `TimeSlots` | `Book` a start `validateSlot` accepts, `Cancel`; its two properties are what the arithmetic is for |
| `Calendar` | abstract | what booking promises: every minute of a service's day is held by at most one visit; PENDING, CONFIRMED, CANCELLED in that order |
| `ConfirmationQueue` | queue and processor of confirmations | `jobs`, a sequence in the order of `queue.add`; `Take`, `Deliver`, `Reject`, `Finish`, `Stall` |
| `Appointments` | appointments service, gateway rooms, catalogue; EXTENDS `TimeSlots` and `ConfirmationQueue`, implements `Calendar` | one action per await, see below |
| `SlotWatchers` | rooms of `AppointmentsGateway`, `GET /appointments/available-slots`; EXTENDS `Appointments` | each step of a handler is composed with what it does to the screens; two actions of the read |
| `Salon` | JWT strategy and guards; composes `SlotWatchers` with an INSTANCE of `Accounts` | one table of users of either role; every request, a booking's, a screen's read or a change of the catalogue, starts only for an authenticated user, with the role of its row |
| `TemplateRenderer` | `TemplateRenderer.render`, the templates of the seed | a text is a sequence of pieces: plain, `{{x}}`, `{x}`, value |
| `Sheet` | abstract | what a bulk job promises: rows settled in order, mailed once per attempt at most, completed only when all are settled |
| `BulkJobs` | bulk jobs service, processor, events, settings; EXTENDS `TemplateRenderer` | one action per await or emit; a run is identified by its job and how often that had stalled |
| `BulkWatchers` | rooms of `BulkNotificationGateway`, `GET /bulk-jobs/:id`; EXTENDS `BulkJobs` | as `SlotWatchers`; a restart empties the rooms |
| `Accounts` | `AuthService` | one action per await |
| `MC...` | small instances for TLC | values of the constants, symmetry, views |
| `...Proofs` | theorems | each EXTENDS the module it is about; `SheetProofs` is about `BulkJobs` as a `Sheet`, `SalonProofs` about `SlotWatchers` and `Salon` |

**Handlers.** `requests[p]` is what handler `p` carries over its current await: the program
counter `pc` and the locals it still uses. An action is the moment the database, Redis or the
socket acts, plus the synchronous code up to the next await:

| code | actions, in order |
|---|---|
| `create`, appointments.service.ts:103-141 | `StartCreate` (read the service), `CreateCheckSlot` (read the bookings, validate), `CreateInsert` or `CreateRefused` (the database client throws), then the broadcast |
| `confirm`, :192-230 | `StartConfirm` (read), `ConfirmUpdate` (update by id), `ConfirmEnqueue` (`queue.add`), then the broadcast |
| `cancel`, :232-252 | `StartCancel` (read), `CancelUpdate` (update by id), then the broadcast |
| `broadcastSlots`, :57-67 | `BroadcastFindService`, `BroadcastFindBooked`, `BroadcastEmit` |
| any of them | `Abort`: the awaited call rejects, or the process dies there |

`board[room]` is the last push to a room; a room is named by the client's *text* of the date, and
`DayOf` says which day a text denotes: two texts of one day are two rooms and one column value.
`unseen`, `revived`, `lost`, `dirty` and the field `missed` are history: no guard reads them, they
only let properties name a cause. `dirty` holds the days of services a room missed a push of, because
the handler failed or used another text of the date; a room is excused by it only until it is pushed what
is free then, so a push counted before the missed change does not end it. A refused request that changes nothing (missing or inactive
service, wrong role, wrong status) is the absence of the starting action.

**Services** are in the same module because a create reads its service two awaits before it uses
it. `RemoveService` carries the foreign key of the migration; inserting a booking of a deleted
service is refused by the same key.

**Screens.** The server keeps only who is in which room. What a screen has been shown is a *set* of
messages, because an HTTP answer and a push are not ordered and carry no version; the properties
ask whether the right message is among them. A socket watches one room at a time and reads once
per subscription. The `view` of a screen whose push was lost is marked `lost`: a push fails
(`Abort`), or it goes to the room of another text of the day, and no later message is owed for it.

**Users.** There is one table of users. `register()` writes the whole body into the row (`...dto`,
auth.service.ts:36), and the body may ask for a role (auth.dto.ts:28-31), so `StartRegister` takes either
role, and staff come to their row, their verification and their tokens as customers do. `Salon` lets
any user start a request only with a session of `login` and a row for the token's user id
(`Authenticated`), and with the role of that row (`Caller`): the guards of `confirm` and `cancel` read
it, and only staff start a change of the catalogue. The read of the row is merged with the start of
the handler: rows of `User` are never deleted and roles never changed, so nothing can come between.
`Appointments` by itself knows users as the CONSTANT `Users`, records of an id and a role;
`SalonAssumption` makes them all the combinations, and the row says which one acts. The signature and
the expiry of a token belong to Passport; expiry only removes behaviours.

**Settings.** `settings` is NULL when `prisma/seed.ts` was not run (`Seeded`): the two writes then
throw on `settings!`, while `process()` reads `settings?.` and mails with its built-in text. With the seed,
the row starts with any template or none, as an earlier life of the process may have left it.

**Texts.** The renderer replaces `{{x}}` for the names it is given and keeps everything else.
`MailText` applies it to the subject and body of a template with the variables of `processRow()`.

**Queues.** BullMQ is not under `src/`. Its part is modelled from the options the code gives it:
default attempts (one), `maxStalledCount` 1, concurrency 1 and 5, oldest job first, a stalled job
put back at the head. In `ConfirmationQueue` a run that lost its lock is reduced to the one thing
it can still do, have its mail accepted; `BulkJobs` keeps it as a run of its own, since it goes on
writing to the tables.

## 3. The runs

| run | checks | instance |
|---|---|---|
| `timeslots` | the arithmetic against a definition by minutes, in every agenda that bookings and cancellations reach | a short day with a break, 36 start texts on and off the grid (among them `x:75`), durations 15, 40, 60, three bookings |
| `race` | `OverlapOnlyFromRace`, `StalePushOnlyFromRace`, `ServiceOfEveryBooking`, `ConfirmedRowsAreQueued`, `DuplicateJobsBounded` | two handlers, two rows, two overlapping starts, one service; all requests by a member of staff, whom no guard keeps from anything |
| `serial` | the README's promises and `ImplementsCalendar` | one handler, two rows, two durations, two texts of one day, a customer and a member of staff, three starts |
| `mail` | the queue's three invariants, `RequestsReturn`, `ConfirmationsSettle` | one handler, two rows, up to two stalls per job; fair |
| `salon` | `InformedClients`, `BookersAreVerified` | two booking handlers, one row, two texts of one day, one screen; two people, two addresses and two links: whoever acts has registered in either role, verified and logged in within the run |
| `bulk` | the sheet's invariants, `CompletionIsTold`, `ProgressOnlyForward`, `ImplementsSheet` | one sheet of up to two rows, one template or none, one allowed stall, one screen |
| `bulk_pool` | `UploadsSettle`, `UploadsComplete` | two sheets of up to one row, one slot, no settings row; fair |
| `accounts` | the account invariants, `VerifiedForever` | two handlers, two addresses, two users, four links |

Four runs are expected to find a violation; each is a `findings` entry:

| run | promise | what the code does |
|---|---|---|
| `race_double` | src/README.md:96, one slot per service at a time | two creates that both checked before either inserted are both accepted |
| `race_status` | src/README.md:101, the status flow | a confirm that read PENDING overwrites a cancel |
| `race_board` | appointment.gateway.ts:17-19, users see stale slots disappear | a create reads for its push, a cancel of that visit is written and pushed, the create's older push goes out last: the freed hours stay hidden |
| `bulk_raw` | src/prisma/schema.prisma:96, templates support placeholders | the seeded templates write `{x}`, the renderer replaces `{{x}}` |

Two more divergences show in passing runs. `timeslots` says what is offered exactly: the accepted
starts among multiples of the *duration*, although time-slot.util.ts:9 and :83 speak of all valid
starts at 15 minutes (`findings`). And the race of `race_status` also queues two mails for one
confirmation (src/README.md:113): `OneJobPerAppointment` holds in `serial` only, and
`DuplicateJobsBounded` in `race` says how many there can be.

`race` and `serial` belong together with these: `serial` shows the same properties hold with one
request at a time, so concurrency is the only cause, and `race` shows which interleavings are.

**Bounds.** Rows, sheets and links are ids that are used once; `IdLeft` and `TokenLeft` keep a
handler from starting when no id is left for it, so no handler hangs for a reason the code does
not have. `MaxBookings`, `MaxRows`, `MaxStalls`, `MaxStarted` bound what their names say. Every
race here is between a read and a write of two handlers on at most two rows, so two of each reach
it; the sheet needs a row that is logged and one that is not yet; one stall more than
`MaxStalledCount` is where BullMQ gives up. `race`, `serial` and `salon` set `MaxStarted` to 0
(jobs are queued, the worker is idle): `mail` explores the worker. `salon` needs one row only: its
properties fail through a push that overtakes or is missing, for which a create and a cancel
suffice, or through one wrong account. Two people are enough for a customer who books
what another one, of the staff, confirms; the handlers of registration interleave in `accounts`. `bulk_pool` needs no template, since without a settings row
none can be chosen; it is the instance in which that row is missing.

**Views.** `salon` and `bulk` identify states by a VIEW. `salon` leaves out what neither an action nor an
invariant of that run reads (last push of a room, links that verified somebody or were not mailed, history of other properties); `bulk` the result of a
row that is already logged, the template of a run past its last row and the kind of the last
event. No step and no property of the run can tell such states apart. The proofs below need none of these
bounds. `CHECK_DEADLOCK FALSE` is set where the instance may run out of ids, which is the normal
end of such a behaviour.

**Fairness.** `Appointments`: weak fairness on every step of a started handler and on the worker's
progress. Node runs every ready continuation, and each awaited call resolves or rejects (the
mail transport has timeouts); the outcome is free. `Abort`, `Stall`, clients, staff and the
catalogue get none. `BulkJobs`: the same for uploads, for each run and for the worker that polls;
and for the periodic stalled check, only as far as it finds jobs whose run is gone. A `Crash` is a
death *and restart*, so it never disables the worker for good. That a dead process is started
again is an assumption about its operation, made by `bulk_pool` and `mail` and by nothing else.

## 4. The proofs

Checked by TLAPS for any number of handlers, rows, services, days, durations, users, sheets, runs
and screens: for every value of the constants that satisfies the named assumptions, which say

- `HoursAssumption`, `QueueAssumption`: opening hours in order, within a day, around a break that
  is not empty; counts are natural numbers;
- `AppointmentsAssumption`, `BulkAssumption`, `AccountsAssumption`, `SalonAssumption`,
  `NullIsNoVisit`, `NullIsNoSheet`: durations are positive, templates have texts, at least one
  worker slot, a row may have either role, and NULL, the empty column, is none of the values it stands for
  the absence of;
- `AgendaAssumption`: the same of an agenda's durations and start texts;
- in single theorems, stated with them: `OneHandlerPerLane` or its special case `Serial`, and, where
  jobs or visits are counted against handlers, a finite set `Requests`.

Every safety property, action property and refinement of the passing runs is proved. An invariant
is seldom inductive as it stands; what had to be added is the argument:

- **`TimeSlotsProofs`.** Offered slots are accepted ones; `rangesOverlap` means a shared minute. The
  rules behind the agenda's two properties are proved of the functions alone:
  `ValidMeansFreeMinutes` for any set of bookings that each hold a minute, `OffersAreTheAcceptedGrid`
  for any set at all.
- **`AgendaProofs`.** `AcceptedStartsAreFree` and `OffersAreAccepted` are the two properties as the run
  checks them, for any opening hours, break, durations, start texts and number of bookings. The first needs
  to know that a booked range holds a minute and is a range of clock texts, which `AgendaInOrder` adds to
  what the agenda is for: no two bookings share a minute, and all lie in the open hours.
- **`AppointmentsProofs`.**
  - `TypeCorrect`: `TypeOK` with `RowsOfRequests`, one lemma per group of actions.
  - `OverlapsOnlyFromRaces`, `StalePushesOnlyFromRaces`. `OverlapOnlyFromRace` alone is not
    inductive: an insert preserves it only if the slot check is still good up to what the handler
    is recorded to have missed. `CheckedSlotsFree` says so, and `RaceInv` is the conjunction of
    the three. Steps are sorted by what they do to the rows: nothing (`QuietStep`), a status
    (`StatusUpdateStep`, for confirm and cancel alike), a read of the bookings (`ReadStep`) and the
    insert (`InsertStep`, the heart of the argument).
  - `MailsOfConfirmations`, `CompletedJobsHaveMailed`, `MailsKeepTheirOrder`: the queue's invariant
    `QueueInv` (proved of the worker and of `AddJob` first) is kept by the composed system, whose other steps
    only append.
  - `ConfirmationsAreQueued`: the property is an equivalence, and read row by row (`Accounted`) it is
    inductive with the types.
  - `DuplicatesAreBounded`: a handler that may still queue a job for a row is `Confirming`. Jobs and
    confirming handlers of a row together never exceed the handlers (`JobsLeft`): a handler joins
    them only by reading PENDING, and a PENDING row was never confirmed (`PendingRowsUnconfirmed`),
    so it has no job.
  - `BookingsHaveServices`, and `RowsStayLegal` from `CheckedTermsAreLegal`: the terms a handler
    carries to its insert passed the check at the duration it carries.
  - **What would repair the races.** `OneHandlerPerLane` says that no two handlers are at work on one
    service and day: a lock for each, held by `create`, `confirm` and `cancel` from the first read to the
    last push. It is a hypothesis about behaviours (`Spec /\ []OneHandlerPerLane => ...`), which the
    code does not enforce, and says nothing of other days and services, of the catalogue, of aborts or of the worker.
    Under it nothing can have been missed (`NothingMissed`: a handler changes only rows of its
    own lane, `WorkStaysInItsLane`, and notes only what another handler of the lane did,
    `OthersNote`), so no cause is left for an overlap or a step back:
    `LaneLockNoDoubleBooking`, `LaneLockStatusFlow`, `LaneLockOneJob`. A confirm or cancel must hold the
    lock before it reads its row, that is for the lane of a row it knows by id only; a lock taken
    between the read and the update would not do. `LaneLockIsACalendar` is the refinement: rows are
    visits of the abstract calendar (`RowsAreVisits`), an insert is `Book`, the two updates are
    `Confirm` and `Cancel`, and every other step leaves all visits as they are. `LaneLockBoardFresh`
    rests on `BoardInv`: a lane that no handler owes a push shows what is free, and the slots of a
    handler about to push are counted from the bookings as they are.
  - One handler at a time has every lane to itself (`SerialHandlersHaveTheirLane`), so the run
    `serial` checks instances of the same theorems: `SerialNoDoubleBooking`, `SerialStatusFlow`, `SerialOneJob`,
    `SerialSalonIsACalendar`, `SerialBoardFresh`.
  - `OverbookingIsBounded` says how bad it can get without the lock: no minute of a service's day is held by
    more active visits than there are handlers. The number of holders alone is not inductive. What
    is counted are the *claims* on a minute, rows that hold it and cancelled rows that a late confirm
    may still revive, together with the handlers that have passed the slot check for it (`ClaimsBounded`).
    An insert turns one into the other (`InsertedMinute`); a slot check that
    adds such a handler found no active row on that minute (`AcceptedMinuteIsFree`), so at that moment
    every claim belongs to a handler of its own that is about to confirm (`RevivingClaims`).
  - `HandlersGoForward` is the part of `RequestsReturn` that needs no fairness: a call that returns
    brings its handler nearer to its end (`AwaitsLeft`, at most five), and no step of anybody else
    sets it back.
  - `CalendarsAreExclusive`: the abstract calendar holds no minute twice, so a system that refines
    it does not either. Its `Book` and the two moves of a status keep that by themselves (`HeldOnce`).
- **`AccountsProofs`.** `AccountsInvariant` proves `AccountsInv`: types, `ReadsHold` (what a handler
  remembers of a row that cannot have become false: the row exists, its address, a verified flag
  once read, a link it was shown) and `LinksAreOwned` (a link sent to one address is never held by a
  user with another), with the four safety properties, which follow; `VerificationStays` is
  the action property.
- **`BulkJobsProofs`.** `BulkInvariant` proves `BulkInv`. Its base is the types and `QueueFits`, what
  the queue allows to run: a job that is not queued has not run, and only the run that began last can
  hold the lock. `RunsFit` places a run in its sheet; `LogsInOrder` says that the rows a run has passed are
  logged, hence `CompletedMeansLogged` although an overtaken run may be the one that completes the job.
  `CountsMatchTheLog` needs `TalliesAreLogged`, since a run counts for itself before it writes: the
  tally of any run, stale ones included, is never ahead of the log of the rows it has passed; whoever
  overwrites the table last writes such a tally. `SuccessMeansMailed` needs
  `SuccessesMailed`: entries SUCCESS and the runs about to write one are together no more than the
  mails. `MailsAreBounded` needs `SendsCounted`: mails and the runs that may still send one are
  together no more than the runs started. The two are counting arguments over sets of overlapping runs.
- **`SheetProofs`.** For a job with no second run (`Alone`) the code can be read as if it ran by itself,
  and `AloneInv` says what that reading says: `FinishedSheetsAddUp`, `SheetHasOneTemplate`,
  `ProgressGoesForward`. `BulkJobsAreSheets` is the refinement for *all* jobs: an upload is `Upload`,
  a write that turns the status to PROCESSING `Begin`, an accepted send `Mail`, the first log entry of a
  row `Settle`, a write that turns it to COMPLETED `Complete`, a stall that leads to another run `Retry`, and every other step, those of
  overtaken runs that repeat what was done included, stutters. `SheetsSettleInOrder` says what that is worth: an
  abstract sheet settles its rows in order, all of them before it is completed, and mails none more than
  once per attempt.
- **`BulkWatchersProofs`.** `WatchersAreTold` from `BulkInv` and `CompletionIsTold` itself: the status
  becomes COMPLETED only in the step that brings a run to its last event, and that event leaves nobody
  waiting in the room. `WatchersOnlyWatch`: the bulk jobs do the same with screens as without, so the
  theorems about them hold in the composition the run `bulk` checks.
- **`SalonProofs`.** `ClientsAreInformed`: a screen that may rely on being told has been shown what is
  free, or a push that will be right when it comes is under way (`InformedOrSoon`). `FreshPush`
  is the point: a handler that has counted before the last change does not qualify, but the
  handler that made the change has yet to count. It does not forget its push when it looks for the
  service (`BroadcastsAreForRows`), since the service of a row is never gone. `SalonKeepsItsParts`: the
  composition is a behaviour of the booking system and of the accounts, so all theorems above hold in
  it. For the first it is shown that who is asked for is one of `Users` (`CallersAreUsers`).
  `BookersHaveVerified` joins the two halves: a create past the guards belongs to a user, of either role,
  whose row is verified (`CreatesAreVerified`, from `SessionsAreVerified`), and no step of the accounts
  takes that back (`VerifiedRowsStay`). `ConfirmationsAreVerified` follows the chain to its end: every
  queued mail is for a booking of a user whose row is verified, jobs queued twice included.

**Only model-checked:** the properties under fairness, `RequestsReturn`, `ConfirmationsSettle`,
`UploadsSettle` and `UploadsComplete`. They need ENABLED, which is beyond the prover.
`NoRawPlaceholders` is one of the four expected violations: there is nothing to prove of it. The
other three, `NoDoubleBooking`, `StatusFlow` and `BoardFresh`, are proved under the hypothesis
named above and refuted without it.

## 5. What is not modelled

- Read-only endpoints except the two that a screen starts from, the listing of notification
  templates, the controllers' wiring, Swagger, configuration, bootstrap, the exception filter and
  the response interceptor: they change no state.
- The wording of mails. Two things of it are known and stated here only, since no step relates them
  to any state: appointment-notification.processor.ts writes its own text and never reads the
  active template, although src/README.md:116 says that template is used for all confirmation mails;
  and its job carries `Date` objects through JSON (appointments.service.ts:222), so the mail shows
  ISO time stamps.
- Names, prices, notes, passwords: `bcrypt.compare` is a free choice. The signature and the expiry
  of a token.
- A screen that reads before it has joined: it may miss pushes for good, and the join is not
  acknowledged (listed as a hazard).
- The steps of the seed itself, which run before the program; their result is `Seeded`.
- The commented-out `update` of an appointment.

## 6. Plan

Done, in this order: slot arithmetic; the booking core with catalogue, rooms and queue; its
abstract calendar; bulk mails with settings; accounts; the proofs of the booking core and of the
accounts; template rendering and the unseeded database; the rooms and screens of both gateways;
accounts composed with booking; the abstract sheet and its refinement; the proofs of the mail
promises, of the calendar and the rooms, of the bulk jobs, their refinement and their screens, and of
the salon; the proofs of the agenda, of what a lock on a service and day repairs and of how far the races go
without it; what the abstract modules promise by themselves.

What could follow: shorter proofs where two step lemmas argue alike (the type lemmas of
`BulkJobsProofs`, the screens of the two gateways), and, if the code gets a lock or an exclusion constraint,
a model of it in place of the hypothesis `OneHandlerPerLane`.
