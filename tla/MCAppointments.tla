--------------------------- MODULE MCAppointments ---------------------------
(***************************************************************************)
(* Small instances of Appointments for TLC: the real opening hours, start  *)
(* texts that touch, overlap and break the rules, one or two days.         *)
(***************************************************************************)
EXTENDS Appointments, TLC

CONSTANTS d1, d1Long, d2, c1, u1

MCWorkStart  == [h |-> 9,  m |-> 0]
MCWorkEnd    == [h |-> 20, m |-> 0]
MCBreakStart == [h |-> 12, m |-> 0]
MCBreakEnd   == [h |-> 14, m |-> 0]

MCStaff == { [id |-> u1, role |-> "STAFF"] }
MCUsers == MCStaff \cup { [id |-> c1, role |-> "CUSTOMER"] }

\* d1Long is another text of the day d1, such as "2025-07-15T10:00:00Z".
MCDayOf == [text \in DateStrings |-> IF text = d1Long THEN d1 ELSE text]

\* 11:00 and 10:30 overlap for an hour's visit; 09:75 passes the DTO's pattern and
\* the slot check, but is no time of day.
MCStartTimes == { [h |-> 11, m |-> 0], [h |-> 10, m |-> 30] }
MCStartTimesOne == { [h |-> 11, m |-> 0] }
MCStartTimesLive == MCStartTimesOne \cup { [h |-> 9, m |-> 75] }
MCStartTimesSerial == MCStartTimes \cup { [h |-> 9, m |-> 75] }

Symmetry == Permutations(AppointmentIds) \cup Permutations(Requests)
=============================================================================
