---------------------------- MODULE MCTimeSlots ----------------------------
(***************************************************************************)
(* Checks the agenda of a short day, with its break.                       *)
(***************************************************************************)
EXTENDS Agenda

MCWorkStart  == [h |-> 9, m |-> 0]
MCWorkEnd    == [h |-> 12, m |-> 30]
MCBreakStart == [h |-> 10, m |-> 30]
MCBreakEnd   == [h |-> 11, m |-> 0]

\* Texts the DTO's pattern lets through: on and off the quarter-hour grid,
\* before opening, after closing, and with minutes no clock shows.
MCStarts == [h : 8 .. 13, m : {0, 10, 15, 30, 45, 75}]
=============================================================================
