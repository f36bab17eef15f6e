-------------------------------- MODULE Sheet --------------------------------
(***************************************************************************)
(* What a bulk job promises, without queue, runs, counters or events: a    *)
(* sheet whose rows are settled one after the other, each mailed once per  *)
(* attempt at most, and which is completed only when every row is settled. *)
(***************************************************************************)
EXTENDS Naturals, FiniteSets

CONSTANTS Jobs, MaxRows, MaxRetries, NULL

VARIABLE sheet    \* NULL, or what has become of the job

New(rows) == [status |-> "PENDING", rows |-> rows, settled |-> {}, retries |-> 0,
              mails |-> [row \in 0 .. (MaxRows - 1) |-> 0]]

Init == sheet = [j \in Jobs |-> NULL]

Become(j, new) == sheet' = [sheet EXCEPT ![j] = new]

Upload(j) == sheet[j] = NULL /\ \E rows \in 0 .. MaxRows : Become(j, New(rows))

Begin(j) ==
  /\ sheet[j].status = "PENDING" \/ sheet[j].retries > 0
  /\ Become(j, [sheet[j] EXCEPT !.status = "PROCESSING"])

\* The next row, or one that an earlier attempt has dealt with.
Mail(j, row) ==
  /\ sheet[j].status # "PENDING"
  /\ row < sheet[j].rows
  /\ row <= Cardinality(sheet[j].settled)
  /\ sheet[j].mails[row] <= sheet[j].retries
  /\ Become(j, [sheet[j] EXCEPT !.mails[row] = @ + 1])

Settle(j) ==
  LET next == Cardinality(sheet[j].settled)
  IN  /\ sheet[j].status # "PENDING"
      /\ next < sheet[j].rows
      /\ Become(j, [sheet[j] EXCEPT !.settled = @ \cup {next}])

Complete(j) ==
  /\ sheet[j].status = "PROCESSING"
  /\ sheet[j].settled = 0 .. (sheet[j].rows - 1)
  /\ Become(j, [sheet[j] EXCEPT !.status = "COMPLETED"])

Retry(j) ==
  /\ sheet[j].retries < MaxRetries
  /\ Become(j, [sheet[j] EXCEPT !.retries = @ + 1])

\* Every step moves something; the rest of the system is stuttering.
Next ==
  /\ sheet' # sheet
  /\ \E j \in Jobs :
       \/ Upload(j)
       \/ /\ sheet[j] # NULL
          /\ \/ Begin(j)
             \/ \E row \in 0 .. (MaxRows - 1) : Mail(j, row)
             \/ Settle(j)
             \/ Complete(j)
             \/ Retry(j)

Spec == Init /\ [][Next]_sheet

-----------------------------------------------------------------------------
\* What the sheet is for: what is settled is its first rows, all of them once it is
\* completed, and no row is mailed more than once per attempt.
SettledInOrder ==
  \A j \in Jobs : sheet[j] # NULL =>
    /\ \E count \in 0 .. sheet[j].rows : sheet[j].settled = 0 .. (count - 1)
    /\ sheet[j].status = "COMPLETED" => sheet[j].settled = 0 .. (sheet[j].rows - 1)
    /\ \A row \in 0 .. (MaxRows - 1) : sheet[j].mails[row] <= 1 + sheet[j].retries
=============================================================================
