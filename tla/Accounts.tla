------------------------------ MODULE Accounts ------------------------------
(***************************************************************************)
(* AuthService: registration, the links that verify an address, and login. *)
(* As in Appointments, each action is one awaited call of a handler with   *)
(* the synchronous code up to the next one.                                *)
(***************************************************************************)
EXTENDS Naturals, FiniteSets

CONSTANTS
  Requests,      \* handlers that can be in progress at once
  Emails,
  UserIds,
  Tokens,        \* bound: the uuids that are drawn
  NULL

VARIABLES
  users,         \* the User table; NULL is an id not yet used
  requests,      \* the continuation of each handler
  inbox,         \* the links that have arrived, by address
  sessions,      \* users an access token was signed for
  \* History, read by no action but the draw of a new uuid:
  drawn,         \* tokens written to a row so far
  unsent,        \* tokens whose mail was rejected or never sent
  proof          \* the link with which each user was verified

vars == <<users, requests, inbox, sessions, drawn, unsent, proof>>

Roles == {"CUSTOMER", "STAFF"}

\* An unverified user always holds a link.
User == [email : Emails, role : Roles, verified : {FALSE}, token : Tokens,
         expired : BOOLEAN]
          \cup [email : Emails, role : Roles, verified : {TRUE},
                token : Tokens \cup {NULL}, expired : BOOLEAN]

ASSUME AccountsAssumption == NULL \notin Tokens /\ NULL \notin User

Request ==
  [pc : {"idle"}]
    \cup [pc : {"create"}, email : Emails, role : Roles]
    \cup [pc : {"mail"}, email : Emails, token : Tokens]
    \cup [pc : {"verify"}, id : UserIds, token : Tokens]
    \cup [pc : {"renew"}, id : UserIds, email : Emails]
    \cup [pc : {"compare"}, id : UserIds, verified : BOOLEAN]

IdleRequest == [pc |-> "idle"]

Rows == { u \in UserIds : users[u] # NULL }
Goto(p, request) == requests' = [requests EXCEPT ![p] = request]

Init ==
  /\ users = [u \in UserIds |-> NULL]
  /\ requests = [p \in Requests |-> IdleRequest]
  /\ inbox = [email \in Emails |-> {}]
  /\ sessions = {} /\ drawn = {} /\ unsent = {}
  /\ proof = [u \in UserIds |-> NULL]

-----------------------------------------------------------------------------
\* register()

\* Bound: a handler that will draw a uuid starts only if one is left for it.
TokenLeft ==
  Cardinality({ q \in Requests : requests[q].pc \in {"create", "renew"} })
    < Cardinality(Tokens \ drawn)

\* Lines 25-30; a known address ends the request.  The body may name either role
\* (RegisterDto.role), a customer's where it names none.
StartRegister(p, email, role) ==
  /\ requests[p].pc = "idle"
  /\ TokenLeft
  /\ \A u \in Rows : users[u].email # email
  /\ Goto(p, [pc |-> "create", email |-> email, role |-> role])
  /\ UNCHANGED <<users, inbox, sessions, drawn, unsent, proof>>

\* The row takes what the body said (`...dto`, line 36), its role included.
NewUser(r, token) ==
  [email |-> r.email, role |-> r.role, verified |-> FALSE, token |-> token,
   expired |-> FALSE]

\* Mutant: the address has no unique index, the read before is the only check.
CreateUserUnindexed(p, u, token) ==
  /\ requests[p].pc = "create"
  /\ u \notin Rows
  /\ token \in Tokens \ drawn
  /\ users' = [users EXCEPT ![u] = NewUser(requests[p], token)]
  /\ drawn' = drawn \cup {token}
  /\ Goto(p, [pc |-> "mail", email |-> requests[p].email, token |-> token])
  /\ UNCHANGED <<inbox, sessions, unsent, proof>>

\* Lines 31-41; the unique index decides between two that found the address free.
CreateUser(p, u, token) ==
  /\ requests[p].pc = "create"
  /\ u \notin Rows
  /\ token \in Tokens \ drawn
  /\ \A v \in Rows : users[v].email # requests[p].email
  /\ users' = [users EXCEPT ![u] = NewUser(requests[p], token)]
  /\ drawn' = drawn \cup {token}
  /\ Goto(p, [pc |-> "mail", email |-> requests[p].email, token |-> token])
  /\ UNCHANGED <<inbox, sessions, unsent, proof>>

\* Lines 43 and 101: sendVerificationEmail resolves.
SendLink(p) ==
  LET r == requests[p]
  IN  /\ r.pc = "mail"
      /\ inbox' = [inbox EXCEPT ![r.email] = @ \cup {r.token}]
      /\ Goto(p, IdleRequest)
      /\ UNCHANGED <<users, sessions, drawn, unsent, proof>>

-----------------------------------------------------------------------------
\* verifyEmail()

\* Mutant: an undefined filter, which the database client takes for no filter.
StartVerifyUnfiltered(p, token) ==
  \E u \in Rows :
    /\ requests[p].pc = "idle"
    /\ ~users[u].expired /\ ~users[u].verified
    /\ Goto(p, [pc |-> "verify", id |-> u, token |-> token])
    /\ UNCHANGED <<users, inbox, sessions, drawn, unsent, proof>>

\* Lines 50-71; any other outcome of the read ends the request with nothing done.
StartVerify(p, token) ==
  \E u \in Rows :
    /\ requests[p].pc = "idle"
    /\ users[u].token = token
    /\ ~users[u].expired /\ ~users[u].verified
    /\ Goto(p, [pc |-> "verify", id |-> u, token |-> token])
    /\ UNCHANGED <<users, inbox, sessions, drawn, unsent, proof>>

Verified(user) == [user EXCEPT !.verified = TRUE, !.token = NULL, !.expired = FALSE]

\* Mutant: the link is used up, the flag is forgotten.
VerifyUserUnflagged(p) ==
  LET u == requests[p].id
  IN  /\ requests[p].pc = "verify"
      /\ users' = [users EXCEPT ![u].token = NULL, ![u].expired = FALSE]
      /\ proof' = [proof EXCEPT ![u] = requests[p].token]
      /\ Goto(p, IdleRequest)
      /\ UNCHANGED <<inbox, sessions, drawn, unsent>>

\* Lines 73-82: the update names the row by its id, whatever its token is now.
VerifyUser(p) ==
  LET u == requests[p].id
  IN  /\ requests[p].pc = "verify"
      /\ users' = [users EXCEPT ![u] = Verified(users[u])]
      /\ proof' = [proof EXCEPT ![u] = requests[p].token]
      /\ Goto(p, IdleRequest)
      /\ UNCHANGED <<inbox, sessions, drawn, unsent>>

-----------------------------------------------------------------------------
\* resendVerification()

\* Lines 86-90.
StartResend(p, email) ==
  \E u \in Rows :
    /\ requests[p].pc = "idle"
    /\ TokenLeft
    /\ users[u].email = email
    /\ ~users[u].verified
    /\ Goto(p, [pc |-> "renew", id |-> u, email |-> email])
    /\ UNCHANGED <<users, inbox, sessions, drawn, unsent, proof>>

\* Mutant: the row as it was read is written back with its new link.
RenewLinkSaved(p, token) ==
  LET r == requests[p]
  IN  /\ r.pc = "renew"
      /\ token \in Tokens \ drawn
      /\ users' = [users EXCEPT ![r.id].verified = FALSE, ![r.id].token = token,
                                ![r.id].expired = FALSE]
      /\ drawn' = drawn \cup {token}
      /\ Goto(p, [pc |-> "mail", email |-> r.email, token |-> token])
      /\ UNCHANGED <<inbox, sessions, unsent, proof>>

\* Mutant: the mail carries the link the row had before.
RenewLinkStale(p, token) ==
  LET r == requests[p]
  IN  /\ r.pc = "renew"
      /\ token \in Tokens \ drawn
      /\ users' = [users EXCEPT ![r.id].token = token, ![r.id].expired = FALSE]
      /\ drawn' = drawn \cup {token}
      /\ users[r.id].token # NULL
      /\ Goto(p, [pc |-> "mail", email |-> r.email, token |-> users[r.id].token])
      /\ UNCHANGED <<inbox, sessions, unsent, proof>>

\* Lines 92-99: the update names the row by its id, verified by now or not.
RenewLink(p, token) ==
  LET r == requests[p]
  IN  /\ r.pc = "renew"
      /\ token \in Tokens \ drawn
      /\ users' = [users EXCEPT ![r.id].token = token, ![r.id].expired = FALSE]
      /\ drawn' = drawn \cup {token}
      /\ Goto(p, [pc |-> "mail", email |-> r.email, token |-> token])
      /\ UNCHANGED <<inbox, sessions, unsent, proof>>

-----------------------------------------------------------------------------
\* login()

\* Lines 106-109.
StartLogin(p, email) ==
  \E u \in Rows :
    /\ requests[p].pc = "idle"
    /\ users[u].email = email
    /\ Goto(p, [pc |-> "compare", id |-> u, verified |-> users[u].verified])
    /\ UNCHANGED <<users, inbox, sessions, drawn, unsent, proof>>

\* Mutant: the password is all that counts.
FinishLoginUnverified(p, passwordMatch) ==
  LET r == requests[p]
  IN  /\ r.pc = "compare"
      /\ sessions' = IF passwordMatch THEN sessions \cup {r.id} ELSE sessions
      /\ Goto(p, IdleRequest)
      /\ UNCHANGED <<users, inbox, drawn, unsent, proof>>

\* Lines 111-129, on the row as it was read before the comparison.
FinishLogin(p, passwordMatch) ==
  LET r == requests[p]
  IN  /\ r.pc = "compare"
      /\ sessions' = IF passwordMatch /\ r.verified THEN sessions \cup {r.id} ELSE sessions
      /\ Goto(p, IdleRequest)
      /\ UNCHANGED <<users, inbox, drawn, unsent, proof>>

-----------------------------------------------------------------------------
\* 24 hours pass since a link was drawn (lines 32 and 97, read at line 64).
Expire(u) ==
  /\ u \in Rows
  /\ users[u].token # NULL
  /\ users' = [users EXCEPT ![u].expired = TRUE]
  /\ UNCHANGED <<requests, inbox, sessions, drawn, unsent, proof>>

\* A handler stops at an await: the call rejects (the unique index, the mail
\* server) or the process dies.  A rejected mail may have been accepted.
Abort(p, accepted) ==
  LET r == requests[p]
  IN  /\ r.pc # "idle"
      /\ Goto(p, IdleRequest)
      /\ unsent' = IF r.pc = "mail" THEN unsent \cup {r.token} ELSE unsent
      /\ inbox' = IF r.pc = "mail" /\ accepted
                  THEN [inbox EXCEPT ![r.email] = @ \cup {r.token}] ELSE inbox
      /\ UNCHANGED <<users, sessions, drawn, proof>>

\* A link is opened by somebody it has reached; uuids are not guessed.
Delivered == UNION { inbox[email] : email \in Emails }

Next ==
  \/ \E p \in Requests :
       \/ \E email \in Emails :
            \/ \E role \in Roles : StartRegister(p, email, role)
            \/ StartResend(p, email) \/ StartLogin(p, email)
       \/ \E u \in UserIds, token \in Tokens : CreateUser(p, u, token)
       \/ SendLink(p)
       \/ \E token \in Delivered : StartVerify(p, token)
       \/ VerifyUser(p)
       \/ \E token \in Tokens : RenewLink(p, token)
       \/ \E passwordMatch \in BOOLEAN : FinishLogin(p, passwordMatch)
       \/ \E accepted \in BOOLEAN : Abort(p, accepted)
  \/ \E u \in UserIds : Expire(u)

Spec == Init /\ [][Next]_vars

-----------------------------------------------------------------------------
TypeOK ==
  /\ users \in [UserIds -> User \cup {NULL}]
  /\ requests \in [Requests -> Request]
  /\ inbox \in [Emails -> SUBSET Tokens]
  /\ sessions \subseteq UserIds
  /\ drawn \subseteq Tokens
  /\ unsent \subseteq Tokens
  /\ proof \in [UserIds -> Tokens \cup {NULL}]

\* Two registrations of one address that both found it free leave one account.
OneAccountPerEmail ==
  \A u, v \in Rows : users[u].email = users[v].email => u = v

\* README.md:124: a verified user has shown a link that was mailed to the user's
\* own address, although update and login name rows by id, after a read.
VerifiedThroughOwnMailbox ==
  \A u \in Rows : users[u].verified => proof[u] \in inbox[users[u].email]

\* The link a row holds is the one that was mailed to its address, is about to be,
\* or fell to a rejected mail; the owner is never sent a link that is already dead
\* while the live one is unknown to everybody.
LiveLinkIsMailed ==
  \A u \in Rows :
    users[u].token # NULL =>
      \/ users[u].token \in inbox[users[u].email]
      \/ users[u].token \in unsent
      \/ \E p \in Requests :
           requests[p] = [pc |-> "mail", email |-> users[u].email, token |-> users[u].token]

\* README.md:124: access tokens are signed for verified users only, although login
\* decides on a row it read before the password was compared (lines 106-116).
SessionsAreVerified ==
  \A u \in sessions : u \in Rows /\ users[u].verified

\* No late resend or second verification takes a verification back.
VerifiedForever ==
  [][\A u \in Rows : users[u].verified => users'[u].verified]_vars
=============================================================================
