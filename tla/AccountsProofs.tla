--------------------------- MODULE AccountsProofs ---------------------------
(***************************************************************************)
(* Proofs about Accounts, for any number of handlers, addresses, users and *)
(* links.                                                                  *)
(***************************************************************************)
EXTENDS Accounts, TLAPS

history == <<drawn, unsent, proof>>

\* A link goes to an address: it has arrived there or is being sent.
SentTo(token, email) ==
  \/ token \in inbox[email]
  \/ \E p \in Requests : requests[p] = [pc |-> "mail", email |-> email, token |-> token]

\* Links are drawn once: what has been sent to an address is no link of a user
\* with another address.
LinksAreOwned ==
  /\ \A u \in Rows : users[u].token # NULL => users[u].token \in drawn
  /\ \A token \in Tokens, email \in Emails :
       SentTo(token, email) =>
         /\ token \in drawn
         /\ \A u \in Rows : users[u].token = token => users[u].email = email

\* What a handler has read and acts on later is still true of its row.
ReadsHold ==
  \A p \in Requests :
    LET r == requests[p]
    IN  /\ r.pc \in {"verify", "renew", "compare"} => r.id \in Rows
        /\ r.pc = "verify" => r.token \in inbox[users[r.id].email]
        /\ r.pc = "renew" => r.email = users[r.id].email
        /\ r.pc = "compare" /\ r.verified => users[r.id].verified

AccountsInv ==
  /\ TypeOK
  /\ ReadsHold
  /\ LinksAreOwned
  /\ OneAccountPerEmail
  /\ VerifiedThroughOwnMailbox
  /\ LiveLinkIsMailed
  /\ SessionsAreVerified

-----------------------------------------------------------------------------
\* Initially there is neither a user nor a link.
LEMMA AccountsInit == Init => AccountsInv
<1> SUFFICES ASSUME Init PROVE AccountsInv
  OBVIOUS
<1> USE DEF Init, Rows, IdleRequest
<1>1. TypeOK
  BY DEF TypeOK, Request
<1>2. ReadsHold /\ LinksAreOwned
  BY DEF ReadsHold, LinksAreOwned, SentTo
<1> QED BY <1>1, <1>2 DEF AccountsInv, OneAccountPerEmail, VerifiedThroughOwnMailbox,
                          LiveLinkIsMailed, SessionsAreVerified

\* A step that only moves a handler, to a record with true reads and no mail to
\* send, keeps the invariant.
LEMMA MoveKeeps ==
  ASSUME AccountsInv, NEW p \in Requests, NEW r \in Request,
         Goto(p, r), UNCHANGED <<users, inbox, sessions, history>>,
         requests[p].pc # "mail", r.pc # "mail",
         r.pc \in {"verify", "renew", "compare"} => r.id \in Rows,
         r.pc = "verify" => r.token \in inbox[users[r.id].email],
         r.pc = "renew" => r.email = users[r.id].email,
         r.pc = "compare" /\ r.verified => users[r.id].verified
  PROVE  AccountsInv'
<1> USE DEF history, Rows
<1>1. requests' = [requests EXCEPT ![p] = r] /\ requests \in [Requests -> Request]
  BY DEF Goto, AccountsInv, TypeOK
<1>2. TypeOK'
  BY <1>1 DEF AccountsInv, TypeOK
<1>3. ReadsHold'
  BY <1>1 DEF AccountsInv, ReadsHold
<1>4. \A q \in Requests : \A e, t :
        requests'[q] = [pc |-> "mail", email |-> e, token |-> t]
          <=> requests[q] = [pc |-> "mail", email |-> e, token |-> t]
  BY <1>1
<1>5. LinksAreOwned'
  BY <1>4 DEF AccountsInv, LinksAreOwned, SentTo
<1>6. LiveLinkIsMailed'
  BY <1>4 DEF AccountsInv, LiveLinkIsMailed
<1>7. (OneAccountPerEmail /\ VerifiedThroughOwnMailbox /\ SessionsAreVerified)'
  BY DEF AccountsInv, OneAccountPerEmail, VerifiedThroughOwnMailbox, SessionsAreVerified
<1> QED BY <1>2, <1>3, <1>5, <1>6, <1>7 DEF AccountsInv

\* The first steps of register(), resendVerification() and login() keep the invariant.
LEMMA StartsKeep ==
  ASSUME AccountsInv, NEW p \in Requests, NEW email \in Emails,
         \/ \E role \in Roles : StartRegister(p, email, role)
         \/ StartResend(p, email) \/ StartLogin(p, email)
  PROVE  AccountsInv'
<1> USE DEF history, Rows
<1>2. ASSUME NEW role \in Roles, StartRegister(p, email, role)
      PROVE  AccountsInv'
  <2>1. [pc |-> "create", email |-> email, role |-> role] \in Request
    BY DEF Request
  <2> QED BY <1>2, <2>1, MoveKeeps DEF StartRegister
<1>3. CASE StartResend(p, email)
  <2>1. PICK u \in Rows : /\ users[u].email = email
                          /\ Goto(p, [pc |-> "renew", id |-> u, email |-> email])
    BY <1>3 DEF StartResend
  <2>2. [pc |-> "renew", id |-> u, email |-> email] \in Request
    BY DEF Request
  <2> QED BY <1>3, <2>1, <2>2, MoveKeeps DEF StartResend
<1>4. CASE StartLogin(p, email)
  <2>1. PICK u \in Rows :
          Goto(p, [pc |-> "compare", id |-> u, verified |-> users[u].verified])
    BY <1>4 DEF StartLogin
  <2>2. users[u].verified \in BOOLEAN
    BY DEF AccountsInv, TypeOK, User
  <2>3. [pc |-> "compare", id |-> u, verified |-> users[u].verified] \in Request
    BY <2>2 DEF Request
  <2> QED BY <1>4, <2>1, <2>3, MoveKeeps DEF StartLogin
<1> QED BY <1>2, <1>3, <1>4

\* So does the first step of verifyEmail(): the link it is shown has been mailed to the
\* address of the row that holds it.
LEMMA StartVerifyKeeps ==
  ASSUME AccountsInv, NEW p \in Requests, NEW token \in Delivered, StartVerify(p, token)
  PROVE  AccountsInv'
<1> USE DEF history, Rows
<1>0. token \in Tokens
  BY DEF Delivered, AccountsInv, TypeOK
<1>1. PICK u \in Rows : /\ users[u].token = token
                        /\ Goto(p, [pc |-> "verify", id |-> u, token |-> token])
  BY DEF StartVerify
<1>2. [pc |-> "verify", id |-> u, token |-> token] \in Request
  BY <1>0 DEF Request
<1>3. token \in inbox[users[u].email]
  <2>1. PICK e \in Emails : token \in inbox[e]
    BY DEF Delivered
  <2>2. users[u].email = e
    BY <1>0, <1>1, <2>1 DEF AccountsInv, LinksAreOwned, SentTo
  <2> QED BY <2>1, <2>2
<1> QED BY <1>1, <1>2, <1>3, MoveKeeps DEF StartVerify


-----------------------------------------------------------------------------
\* What the two handlers that draw a link do: they write row `u` of address `e` with
\* the new link and go on to mail it.
Draws(p, u, e, token, row) ==
  /\ requests[p].pc \in {"create", "renew"}
  /\ token \in Tokens \ drawn
  /\ row \in User /\ row.email = e /\ row.token = token
  /\ users' = [users EXCEPT ![u] = row]
  /\ drawn' = drawn \cup {token}
  /\ Goto(p, [pc |-> "mail", email |-> e, token |-> token])
  /\ UNCHANGED <<inbox, sessions, unsent, proof>>
  /\ \A v \in Rows : v # u => users[v].email # e
  /\ u \in Rows => users[u].email = e /\ row.verified = users[u].verified
  /\ u \notin Rows => row.verified = FALSE

\* Such a step keeps the invariant.
LEMMA DrawKeeps ==
  ASSUME AccountsInv, NEW p \in Requests, NEW u \in UserIds, NEW e \in Emails,
         NEW token, NEW row, Draws(p, u, e, token, row)
  PROVE  AccountsInv'
<1> USE DEF Draws
<1> DEFINE m == [pc |-> "mail", email |-> e, token |-> token]
<1>1. /\ requests' = [requests EXCEPT ![p] = m] /\ requests \in [Requests -> Request]
      /\ m \in Request
  BY DEF Goto, AccountsInv, TypeOK, Request
<1>2. row # NULL
  BY AccountsAssumption DEF User
<1> HIDE DEF m
<1>3. TypeOK'
  BY <1>1 DEF AccountsInv, TypeOK
<1>4. /\ Rows' = Rows \cup {u}
      /\ users'[u] = row
      /\ \A v \in Rows : v # u => users'[v] = users[v]
  BY <1>2 DEF Rows, AccountsInv, TypeOK
<1>5. requests'[p].pc = "mail" /\ \A q \in Requests : q # p => requests'[q] = requests[q]
  BY <1>1 DEF m
<1>6. \A v \in Rows : /\ users'[v].email = users[v].email
                      /\ users'[v].verified = users[v].verified
  BY <1>4
<1>7. ReadsHold'
  BY <1>4, <1>5, <1>6 DEF AccountsInv, ReadsHold
<1>8. \A t, f : SentTo(t, f)' => SentTo(t, f) \/ (t = token /\ f = e)
  BY <1>1, <1>5 DEF SentTo, m
<1>9. LinksAreOwned'
  <2>1. drawn' = drawn \cup {token} /\ token \notin drawn
    OBVIOUS
  <2>2. \A v \in Rows' : users'[v].token # NULL => users'[v].token \in drawn'
    BY <1>4, <2>1 DEF AccountsInv, LinksAreOwned
  <2>3. \A v \in Rows' : users'[v].token = token => v = u
    <3>1. token # NULL
      BY AccountsAssumption
    <3> QED BY <1>4, <2>1, <3>1 DEF AccountsInv, LinksAreOwned
  <2>4. ASSUME NEW t \in Tokens, NEW f \in Emails, SentTo(t, f)'
        PROVE  /\ t \in drawn'
               /\ \A v \in Rows' : users'[v].token = t => users'[v].email = f
    <3>1. CASE SentTo(t, f)
      BY <1>4, <2>1, <2>3, <3>1 DEF AccountsInv, LinksAreOwned
    <3>2. CASE t = token /\ f = e
      BY <1>4, <2>1, <2>3, <3>2
    <3> QED BY <1>8, <2>4, <3>1, <3>2
  <2> QED BY <2>2, <2>4 DEF LinksAreOwned
<1>10. OneAccountPerEmail'
  BY <1>4, <1>6 DEF AccountsInv, OneAccountPerEmail
<1>11. VerifiedThroughOwnMailbox'
  BY <1>4, <1>6 DEF AccountsInv, VerifiedThroughOwnMailbox
<1>12. LiveLinkIsMailed'
  <2>1. requests[p].pc # "mail"
    OBVIOUS
  <2>2. requests'[p] = [pc |-> "mail", email |-> users'[u].email, token |-> users'[u].token]
    BY <1>1, <1>4 DEF m
  <2> QED BY <1>4, <1>5, <2>1, <2>2 DEF AccountsInv, LiveLinkIsMailed
<1>13. SessionsAreVerified'
  BY <1>4, <1>6 DEF AccountsInv, SessionsAreVerified
<1> QED BY <1>3, <1>7, <1>9, <1>10, <1>11, <1>12, <1>13 DEF AccountsInv

\* The insert of register() is such a step.
LEMMA CreateKeeps ==
  ASSUME AccountsInv, NEW p \in Requests, NEW u \in UserIds, NEW token \in Tokens,
         CreateUser(p, u, token)
  PROVE  AccountsInv'
<1>0. requests[p] \in Request
  BY DEF AccountsInv, TypeOK
<1>1. requests[p].email \in Emails /\ requests[p].role \in Roles
  BY <1>0 DEF CreateUser, Request
<1> DEFINE row == NewUser(requests[p], token)
<1>2. row \in User /\ row.email = requests[p].email /\ row.token = token /\ row.verified = FALSE
  BY <1>1 DEF User, NewUser
<1>3. users' = [users EXCEPT ![u] = row]
  BY DEF CreateUser
<1>4. /\ token \in Tokens \ drawn /\ u \notin Rows
      /\ drawn' = drawn \cup {token}
      /\ requests[p].pc = "create"
      /\ Goto(p, [pc |-> "mail", email |-> requests[p].email, token |-> token])
      /\ \A v \in Rows : users[v].email # requests[p].email
      /\ UNCHANGED <<inbox, sessions, unsent, proof>>
  BY DEF CreateUser
<1> HIDE DEF row
<1>5. Draws(p, u, requests[p].email, token, row)
  BY <1>2, <1>3, <1>4 DEF Draws
<1> QED BY <1>1, <1>5, DrawKeeps

\* So is the update of resendVerification().
LEMMA RenewKeeps ==
  ASSUME AccountsInv, NEW p \in Requests, NEW token \in Tokens, RenewLink(p, token)
  PROVE  AccountsInv'
<1>0. requests[p] \in Request /\ \A v \in Rows : v \in UserIds /\ users[v] \in User
  BY DEF AccountsInv, TypeOK, Rows
<1> DEFINE r == requests[p]
<1>1. r.email \in Emails
  BY <1>0 DEF RenewLink, Request
<1>2. r.id \in Rows /\ r.id \in UserIds /\ users[r.id] \in User /\ r.email = users[r.id].email
  BY <1>0 DEF RenewLink, AccountsInv, ReadsHold
<1> DEFINE row == [users[r.id] EXCEPT !.token = token, !.expired = FALSE]
<1>3. /\ row \in User /\ row.email = r.email /\ row.token = token
      /\ row.verified = users[r.id].verified
  BY <1>2 DEF User
<1>4. users' = [users EXCEPT ![r.id] = row]
  BY DEF RenewLink, AccountsInv, TypeOK
<1>5. \A v \in Rows : v # r.id => users[v].email # r.email
  BY <1>2 DEF AccountsInv, OneAccountPerEmail
<1>6. /\ token \in Tokens \ drawn
      /\ drawn' = drawn \cup {token}
      /\ r.pc = "renew"
      /\ Goto(p, [pc |-> "mail", email |-> r.email, token |-> token])
      /\ UNCHANGED <<inbox, sessions, unsent, proof>>
  BY DEF RenewLink
<1> HIDE DEF row, r
<1>7. Draws(p, r.id, r.email, token, row)
  BY <1>2, <1>3, <1>4, <1>5, <1>6 DEF Draws, r
<1> QED BY <1>1, <1>2, <1>7, DrawKeeps

-----------------------------------------------------------------------------
\* The steps that end a handler: its mail is sent, or its row is changed, or it stops.

\* The mail of register() or resendVerification() arrives, or may have.
LEMMA MailsKeep ==
  ASSUME AccountsInv, NEW p \in Requests, NEW accepted \in BOOLEAN,
         SendLink(p) \/ Abort(p, accepted)
  PROVE  AccountsInv'
<1> USE DEF Rows
<1> DEFINE r == requests[p]
<1>1. /\ requests' = [requests EXCEPT ![p] = IdleRequest]
      /\ requests \in [Requests -> Request]
      /\ r \in Request
      /\ IdleRequest \in Request
      /\ UNCHANGED <<users, sessions, drawn, proof>>
  BY DEF SendLink, Abort, Goto, AccountsInv, TypeOK, Request, IdleRequest
<1>2. r.pc = "mail" => /\ r = [pc |-> "mail", email |-> r.email, token |-> r.token]
                       /\ r.email \in Emails /\ r.token \in Tokens
  BY <1>1 DEF Request
<1>3. /\ inbox' \in [Emails -> SUBSET Tokens]
      /\ \A e \in Emails : inbox[e] \subseteq inbox'[e]
      /\ \A e \in Emails : \A t \in inbox'[e] : t \in inbox[e] \/ SentTo(t, e)
  BY <1>2 DEF SendLink, Abort, SentTo, AccountsInv, TypeOK
<1>4. /\ unsent' \subseteq Tokens /\ unsent \subseteq unsent'
      /\ r.pc = "mail" => r.token \in unsent' \/ r.token \in inbox'[r.email]
  BY <1>2 DEF SendLink, Abort, AccountsInv, TypeOK
<1>5. TypeOK'
  BY <1>1, <1>3, <1>4 DEF AccountsInv, TypeOK
<1>6. ReadsHold'
  <2>1. \A u \in Rows : users[u].email \in Emails
    BY DEF AccountsInv, TypeOK, User
  <2> QED BY <1>1, <1>3, <2>1 DEF AccountsInv, ReadsHold, IdleRequest
<1>7. \A q \in Requests : \A e, t :
        requests'[q] = [pc |-> "mail", email |-> e, token |-> t] => requests'[q] = requests[q]
  BY <1>1 DEF IdleRequest
<1>8. \A t : \A e \in Emails : SentTo(t, e)' => SentTo(t, e)
  BY <1>3, <1>7 DEF SentTo
<1>9. LinksAreOwned'
  BY <1>1, <1>8 DEF AccountsInv, LinksAreOwned
<1>10. LiveLinkIsMailed'
  <2> SUFFICES ASSUME NEW u \in Rows, users[u].token # NULL
               PROVE  \/ users[u].token \in inbox'[users[u].email]
                      \/ users[u].token \in unsent'
                      \/ \E q \in Requests :
                           requests'[q] = [pc |-> "mail", email |-> users[u].email,
                                           token |-> users[u].token]
    BY <1>1 DEF LiveLinkIsMailed
  <2>1. users[u].email \in Emails
    BY DEF AccountsInv, TypeOK, User
  <2>2. CASE users[u].token \in inbox[users[u].email] \/ users[u].token \in unsent
    BY <1>3, <1>4, <2>1, <2>2
  <2>3. CASE \E q \in Requests :
               requests[q] = [pc |-> "mail", email |-> users[u].email, token |-> users[u].token]
    <3>1. PICK q \in Requests :
            requests[q] = [pc |-> "mail", email |-> users[u].email, token |-> users[u].token]
      BY <2>3
    <3>2. CASE q = p
      BY <1>4, <3>1, <3>2
    <3>3. CASE q # p
      BY <1>1, <3>1, <3>3
    <3> QED BY <3>2, <3>3
  <2> QED BY <2>2, <2>3 DEF AccountsInv, LiveLinkIsMailed
<1>11. (OneAccountPerEmail /\ SessionsAreVerified)'
  BY <1>1 DEF AccountsInv, OneAccountPerEmail, SessionsAreVerified
<1>12. VerifiedThroughOwnMailbox'
  <2>1. \A u \in Rows : users[u].email \in Emails
    BY DEF AccountsInv, TypeOK, User
  <2> QED BY <1>1, <1>3, <2>1 DEF AccountsInv, VerifiedThroughOwnMailbox
<1> QED BY <1>5, <1>6, <1>9, <1>10, <1>11, <1>12 DEF AccountsInv

\* The update of verifyEmail() keeps the invariant: the link it was read with has
\* been mailed to the address of the row, whatever the row's link is by now.
LEMMA VerifyKeeps ==
  ASSUME AccountsInv, NEW p \in Requests, VerifyUser(p)
  PROVE  AccountsInv'
<1> DEFINE r == requests[p]
           row == Verified(users[r.id])
<1>1. /\ requests \in [Requests -> Request] /\ IdleRequest \in Request
      /\ r \in Request /\ r.pc = "verify"
      /\ requests' = [requests EXCEPT ![p] = IdleRequest]
  BY DEF VerifyUser, Goto, AccountsInv, TypeOK, Request, IdleRequest
<1>2. /\ r.id \in Rows /\ r.id \in UserIds /\ users[r.id] \in User
      /\ r.token \in Tokens /\ r.token \in inbox[users[r.id].email]
  BY <1>1 DEF AccountsInv, ReadsHold, Rows, TypeOK, Request
<1>3. /\ row \in User /\ row.email = users[r.id].email
      /\ row.verified = TRUE /\ row.token = NULL /\ row # NULL
  BY <1>2, AccountsAssumption DEF User, Verified
<1>4. users' = [users EXCEPT ![r.id] = row] /\ users \in [UserIds -> User \cup {NULL}]
  BY DEF VerifyUser, AccountsInv, TypeOK
<1>5. /\ proof' = [proof EXCEPT ![r.id] = r.token] /\ proof \in [UserIds -> Tokens \cup {NULL}]
      /\ UNCHANGED <<inbox, sessions, drawn, unsent>>
  BY DEF VerifyUser, AccountsInv, TypeOK
<1> HIDE DEF row
<1>6. /\ Rows' = Rows /\ users'[r.id] = row
      /\ \A v \in Rows : v # r.id => users'[v] = users[v]
      /\ \A v \in Rows : users'[v].email = users[v].email
  BY <1>2, <1>3, <1>4 DEF Rows
<1>7. /\ r.pc # "mail"
      /\ requests'[p] = IdleRequest
      /\ \A q \in Requests : q # p => requests'[q] = requests[q]
  BY <1>1
<1>8. TypeOK'
  BY <1>1, <1>2, <1>3, <1>4, <1>5 DEF AccountsInv, TypeOK
<1>9. ReadsHold'
  BY <1>3, <1>5, <1>6, <1>7 DEF AccountsInv, ReadsHold, IdleRequest
<1>10. \A t, e : SentTo(t, e)' => SentTo(t, e)
  BY <1>5, <1>7 DEF SentTo, IdleRequest
<1>11. LinksAreOwned'
  <2>1. \A v \in Rows : users'[v].token # NULL => users'[v] = users[v]
    BY <1>3, <1>6
  <2> QED BY <1>5, <1>6, <1>10, <2>1, AccountsAssumption DEF AccountsInv, LinksAreOwned
<1>12. OneAccountPerEmail'
  BY <1>6 DEF AccountsInv, OneAccountPerEmail
<1>13. VerifiedThroughOwnMailbox'
  <2>1. proof'[r.id] = r.token /\ \A v \in Rows : v # r.id => proof'[v] = proof[v]
    BY <1>2, <1>5 DEF Rows
  <2> QED BY <1>2, <1>5, <1>6, <2>1 DEF AccountsInv, VerifiedThroughOwnMailbox
<1>14. LiveLinkIsMailed'
  BY <1>3, <1>5, <1>6, <1>7 DEF AccountsInv, LiveLinkIsMailed
<1>15. SessionsAreVerified'
  BY <1>3, <1>5, <1>6 DEF AccountsInv, SessionsAreVerified
<1> QED BY <1>8, <1>9, <1>11, <1>12, <1>13, <1>14, <1>15 DEF AccountsInv

\* The passing of a day changes no address, link or verification.
LEMMA ExpireKeeps ==
  ASSUME AccountsInv, NEW u \in UserIds, Expire(u)
  PROVE  AccountsInv'
<1> DEFINE row == [users[u] EXCEPT !.expired = TRUE]
<1>1. u \in Rows /\ users[u] \in User /\ users' = [users EXCEPT ![u] = row]
  BY DEF Expire, AccountsInv, TypeOK, Rows
<1>2. /\ row \in User /\ row # NULL /\ row.email = users[u].email
      /\ row.verified = users[u].verified /\ row.token = users[u].token
  BY <1>1, AccountsAssumption DEF User
<1> HIDE DEF row
<1>3. TypeOK'
  BY <1>1, <1>2 DEF Expire, AccountsInv, TypeOK
<1>4. /\ Rows' = Rows
      /\ \A v \in Rows : /\ users'[v].email = users[v].email
                        /\ users'[v].verified = users[v].verified
                        /\ users'[v].token = users[v].token
  BY <1>1, <1>2 DEF Rows, AccountsInv, TypeOK
<1>5. UNCHANGED <<requests, inbox, sessions, drawn, unsent, proof>>
  BY DEF Expire
<1>6. (ReadsHold /\ LinksAreOwned)'
  BY <1>4, <1>5 DEF AccountsInv, ReadsHold, LinksAreOwned, SentTo
<1>7. (OneAccountPerEmail /\ VerifiedThroughOwnMailbox /\ LiveLinkIsMailed)'
  BY <1>4, <1>5 DEF AccountsInv, OneAccountPerEmail, VerifiedThroughOwnMailbox, LiveLinkIsMailed
<1>8. SessionsAreVerified'
  BY <1>4, <1>5 DEF AccountsInv, SessionsAreVerified
<1> QED BY <1>3, <1>6, <1>7, <1>8 DEF AccountsInv

\* The end of a login: the row is still as verified as it was read.
LEMMA LoginKeeps ==
  ASSUME AccountsInv, NEW p \in Requests, NEW passwordMatch \in BOOLEAN,
         FinishLogin(p, passwordMatch)
  PROVE  AccountsInv'
<1> USE DEF Rows
<1> DEFINE r == requests[p]
<1>1. /\ requests' = [requests EXCEPT ![p] = IdleRequest]
      /\ requests \in [Requests -> Request] /\ IdleRequest \in Request
      /\ r.pc = "compare" /\ r.id \in Rows /\ (r.verified => users[r.id].verified)
      /\ UNCHANGED <<users, inbox, drawn, unsent, proof>>
  BY DEF FinishLogin, Goto, AccountsInv, TypeOK, ReadsHold, Request, IdleRequest
<1>2. sessions' = sessions \/ (r.verified /\ sessions' = sessions \cup {r.id})
  BY DEF FinishLogin
<1>3. TypeOK' /\ SessionsAreVerified'
  BY <1>1, <1>2 DEF AccountsInv, TypeOK, SessionsAreVerified
<1>4. ReadsHold'
  BY <1>1 DEF AccountsInv, ReadsHold, IdleRequest
<1>5. \A q \in Requests : \A e, t :
        requests'[q] = [pc |-> "mail", email |-> e, token |-> t]
          <=> requests[q] = [pc |-> "mail", email |-> e, token |-> t]
  BY <1>1 DEF IdleRequest
<1>6. (LinksAreOwned /\ LiveLinkIsMailed)'
  BY <1>1, <1>5 DEF AccountsInv, LinksAreOwned, SentTo, LiveLinkIsMailed
<1>7. (OneAccountPerEmail /\ VerifiedThroughOwnMailbox)'
  BY <1>1 DEF AccountsInv, OneAccountPerEmail, VerifiedThroughOwnMailbox
<1> QED BY <1>3, <1>4, <1>6, <1>7 DEF AccountsInv

-----------------------------------------------------------------------------
\* Every step keeps the invariant.
LEMMA AccountsStep ==
  ASSUME AccountsInv, [Next]_vars
  PROVE  AccountsInv'
<1>1. CASE UNCHANGED vars
  BY <1>1 DEF vars, AccountsInv, TypeOK, ReadsHold, LinksAreOwned, SentTo, Rows,
              OneAccountPerEmail, VerifiedThroughOwnMailbox, LiveLinkIsMailed,
              SessionsAreVerified
<1>2. CASE Next
  <2>1. ASSUME NEW p \in Requests, NEW email \in Emails,
               \/ \E role \in Roles : StartRegister(p, email, role)
               \/ StartResend(p, email) \/ StartLogin(p, email)
        PROVE  AccountsInv'
    BY <2>1, StartsKeep
  <2>2. ASSUME NEW p \in Requests, NEW u \in UserIds, NEW token \in Tokens,
               CreateUser(p, u, token)
        PROVE  AccountsInv'
    BY <2>2, CreateKeeps
  <2>3. ASSUME NEW p \in Requests, NEW accepted \in BOOLEAN,
               SendLink(p) \/ Abort(p, accepted)
        PROVE  AccountsInv'
    BY <2>3, MailsKeep
  <2>4. ASSUME NEW p \in Requests, NEW token \in Delivered, StartVerify(p, token)
        PROVE  AccountsInv'
    BY <2>4, StartVerifyKeeps
  <2>5. ASSUME NEW p \in Requests, VerifyUser(p)
        PROVE  AccountsInv'
    BY <2>5, VerifyKeeps
  <2>6. ASSUME NEW p \in Requests, NEW token \in Tokens, RenewLink(p, token)
        PROVE  AccountsInv'
    BY <2>6, RenewKeeps
  <2>7. ASSUME NEW p \in Requests, NEW passwordMatch \in BOOLEAN,
               FinishLogin(p, passwordMatch)
        PROVE  AccountsInv'
    BY <2>7, LoginKeeps
  <2>8. ASSUME NEW u \in UserIds, Expire(u)
        PROVE  AccountsInv'
    BY <2>8, ExpireKeeps
  <2> QED BY <1>2, <2>1, <2>2, <2>3, <2>4, <2>5, <2>6, <2>7, <2>8 DEF Next
<1> QED BY <1>1, <1>2

-----------------------------------------------------------------------------
\* Everything AuthService writes is what it should be, however handlers interleave.
THEOREM AccountsInvariant == Spec => []AccountsInv
<1>1. Init => AccountsInv
  BY AccountsInit
<1>2. AccountsInv /\ [Next]_vars => AccountsInv'
  BY AccountsStep
<1> QED BY <1>1, <1>2, PTL DEF Spec

\* Type correctness: every user, handler, mailbox and session keeps its shape.
THEOREM AccountsTypeCorrect == Spec => []TypeOK
<1>1. AccountsInv => TypeOK
  BY DEF AccountsInv
<1> QED BY <1>1, AccountsInvariant, PTL

\* Of two registrations of one address that both found it free, one succeeds
\* (auth.service.ts:25-41).
THEOREM OneAccount == Spec => []OneAccountPerEmail
<1>1. AccountsInv => OneAccountPerEmail
  BY DEF AccountsInv
<1> QED BY <1>1, AccountsInvariant, PTL

\* A user is verified only through a link mailed to the user's own address
\* (auth.service.ts:50-80), whatever resends and logins run beside it.
THEOREM VerifiedByOwner == Spec => []VerifiedThroughOwnMailbox
<1>1. AccountsInv => VerifiedThroughOwnMailbox
  BY DEF AccountsInv
<1> QED BY <1>1, AccountsInvariant, PTL

\* The link a user holds has been mailed to the user, is being mailed, or its mail
\* was rejected (auth.service.ts:34-43, 92-101).
THEOREM LiveLinks == Spec => []LiveLinkIsMailed
<1>1. AccountsInv => LiveLinkIsMailed
  BY DEF AccountsInv
<1> QED BY <1>1, AccountsInvariant, PTL

\* An access token is signed for verified users only (auth.service.ts:106-119).
THEOREM SessionsVerified == Spec => []SessionsAreVerified
<1>1. AccountsInv => SessionsAreVerified
  BY DEF AccountsInv
<1> QED BY <1>1, AccountsInvariant, PTL

\* No step takes a row or its verification away.
LEMMA VerifiedRowsStay ==
  ASSUME AccountsInv, [Next]_vars
  PROVE  \A u \in Rows : users[u].verified => u \in Rows' /\ users'[u].verified
<1> SUFFICES ASSUME NEW u \in Rows, users[u].verified
             PROVE  users'[u] # NULL /\ users'[u].verified
  BY DEF Rows
<1>1. /\ u \in UserIds /\ users[u] \in User /\ users[u] # NULL
      /\ users \in [UserIds -> User \cup {NULL}]
  BY DEF AccountsInv, TypeOK, Rows
<1>2. CASE UNCHANGED users
  BY <1>1, <1>2
<1>3. ASSUME NEW p \in Requests, NEW v \in UserIds, NEW token \in Tokens, CreateUser(p, v, token)
      PROVE  users'[u] # NULL /\ users'[u].verified
  BY <1>1, <1>3 DEF CreateUser
<1>4. ASSUME NEW row \in User, users'[u] = row, row.verified
      PROVE  users'[u] # NULL /\ users'[u].verified
  BY <1>4, AccountsAssumption
<1>5. ASSUME NEW p \in Requests, NEW token \in Tokens, RenewLink(p, token)
      PROVE  users'[u] # NULL /\ users'[u].verified
  <2>1. users'[u] = users[u] \/ users'[u] = [users[u] EXCEPT !.token = token, !.expired = FALSE]
    BY <1>1, <1>5 DEF RenewLink
  <2>2. [users[u] EXCEPT !.token = token, !.expired = FALSE] \in User
    BY <1>1 DEF User
  <2>3. [users[u] EXCEPT !.token = token, !.expired = FALSE].verified
    BY <1>1 DEF User
  <2> QED BY <1>1, <1>4, <2>1, <2>2, <2>3
<1>6. ASSUME NEW p \in Requests, VerifyUser(p)
      PROVE  users'[u] # NULL /\ users'[u].verified
  <2>1. users'[u] = users[u] \/ users'[u] = Verified(users[u])
    BY <1>1, <1>6 DEF VerifyUser
  <2>2. Verified(users[u]) \in User /\ Verified(users[u]).verified
    BY <1>1 DEF User, Verified
  <2> QED BY <1>1, <1>4, <2>1, <2>2
<1>7. ASSUME NEW v \in UserIds, Expire(v)
      PROVE  users'[u] # NULL /\ users'[u].verified
  <2>1. users'[u] = users[u] \/ users'[u] = [users[u] EXCEPT !.expired = TRUE]
    BY <1>1, <1>7 DEF Expire
  <2>2. /\ [users[u] EXCEPT !.expired = TRUE] \in User
        /\ [users[u] EXCEPT !.expired = TRUE].verified
    BY <1>1 DEF User
  <2> QED BY <1>1, <1>4, <2>1, <2>2
<1> QED BY <1>2, <1>3, <1>5, <1>6, <1>7
     DEF Next, vars, StartRegister, StartResend, StartLogin, SendLink, StartVerify,
         FinishLogin, Abort

\* No step takes a verification back: the update of a late resend, which names its
\* row by id (auth.service.ts:93-99), leaves the flag alone.
THEOREM VerificationStays == Spec => VerifiedForever
<1> DEFINE Stays == \A u \in Rows : users[u].verified => users'[u].verified
<1>1. AccountsInv /\ [Next]_vars => [Stays]_vars
  BY VerifiedRowsStay
<1> QED BY <1>1, AccountsInvariant, PTL DEF Spec, VerifiedForever
=============================================================================
