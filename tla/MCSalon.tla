------------------------------- MODULE MCSalon -------------------------------
(***************************************************************************)
(* A small salon for TLC: one day under two texts, one start, two people   *)
(* who register in either role, verify, log in and use the salon.          *)
(***************************************************************************)
EXTENDS Salon, TLC

CONSTANTS d1, d1Long, u1, u2

MCUsers == [id : {u1, u2}, role : {"CUSTOMER", "STAFF"}]
MCWorkStart  == [h |-> 9,  m |-> 0]
MCWorkEnd    == [h |-> 20, m |-> 0]
MCBreakStart == [h |-> 12, m |-> 0]
MCBreakEnd   == [h |-> 14, m |-> 0]
MCDayOf == [text \in DateStrings |-> d1]
MCStartTimes == { [h |-> 11, m |-> 0] }

\* States that differ only in what no action and no invariant of the run reads.
View ==
  <<services, appointments, jobs, clients, users, authRequests, inbox, sessions, drawn,
    [p \in Requests |-> [f \in DOMAIN requests[p] \ {"missed"} |-> requests[p][f]]]>>

Symmetry ==
  Permutations(Requests) \cup Permutations(UserIds)
    \cup Permutations(Emails) \cup Permutations(Tokens)
=============================================================================
