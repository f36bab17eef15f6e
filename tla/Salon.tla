-------------------------------- MODULE Salon --------------------------------
(***************************************************************************)
(* Accounts and booking together: the JWT strategy and the guards in front *)
(* of AppointmentsController and ServicesController, and the users that    *)
(* AuthService registers and signs tokens for.  There is one User table:   *)
(* staff come to their rows, their verification and their tokens the way   *)
(* customers do, by register(), which takes the role from the body.        *)
(***************************************************************************)
EXTENDS SlotWatchers

CONSTANTS
  AuthRequests,   \* handlers of AuthController
  Emails, Tokens

VARIABLES users, authRequests, inbox, sessions, drawn, unsent, proof

accountVars == <<users, authRequests, inbox, sessions, drawn, unsent, proof>>
salonVars == <<watchVars, accountVars>>

Auth == INSTANCE Accounts WITH
  Requests <- AuthRequests, requests <- authRequests

\* A link and a row of the User table are told from an empty column, and a row may
\* have either role.
ASSUME SalonAssumption ==
  /\ NULL \notin Tokens
  /\ NULL \notin Auth!User
  /\ Users = [id : UserIds, role : Auth!Roles]

\* JwtAuthGuard with JwtStrategy.validate: a token of a login, and a row for its user.
\* The read of the row is merged with the handler's start: no row is ever deleted and
\* no role changed.
Authenticated(id) == id \in sessions /\ id \in Auth!Rows

\* What the strategy returns, with the role of the row and not of the token.
Caller(id) == [id |-> id, role |-> users[id].role]

SalonInit == WatchInit /\ Auth!Init

\* A request that passes the guards: a booking request, the read of a screen, or a
\* change of the catalogue, which RolesGuard keeps for staff.
Ask(id) ==
  /\ Authenticated(id)
  /\ \/ \E p \in Requests : Start(p, Caller(id))
     \/ \E w \in Clients : StartRead(w)
     \/ Caller(id).role = "STAFF" /\ Curate
  /\ UNCHANGED accountVars

\* What needs no user any more: handlers, worker, sockets.
Continue == Proceed /\ UNCHANGED accountVars

\* AuthController, the mails it sends and the links that are opened.
Account == Auth!Next /\ UNCHANGED watchVars

SalonNext == (\E id \in UserIds : Ask(id)) \/ Continue \/ Account

SalonSpec == SalonInit /\ [][SalonNext]_salonVars

-----------------------------------------------------------------------------
\* README.md:124: nobody books, of either role, before the address is verified.  The
\* token is checked against a row that exists, never against its flag
\* (jwt.strategy.ts:27-33), so it rests on what login() decided on a row it had read
\* earlier, on no verification being taken back, and on the booking going to the
\* account that was checked.
BookersAreVerified ==
  \A a \in Rows :
    LET id == appointments[a].userId
    IN  id \in Auth!Rows /\ users[id].verified
=============================================================================
