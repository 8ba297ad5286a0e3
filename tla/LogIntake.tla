------------------------------- MODULE LogIntake -------------------------------
(***************************************************************************)
(* What datadog_serve promises a sender, with no threads, locks or         *)
(* transactions: the rows of a request become part of the table in one     *)
(* step, at most once and before the request is answered, and the answer   *)
(* tells the truth about them.                                             *)
(***************************************************************************)
EXTENDS Naturals

CONSTANTS
    Requests,     \* the POSTs ever made to the intake
    MaxRows,      \* bound on the rows of one body
    Refusals      \* the error statuses the intake answers with

VARIABLES
    received,     \* the requests the intake has read
    rows,         \* rows[r]: how many rows r carries
    stored,       \* stored[r]: how many rows of r the tables hold
    answer        \* answer[r]: the status the sender saw, or Pending, or Lost

vars == <<received, rows, stored, answer>>

Pending == "pending"
Lost == "lost"
Accepted == "202"

Init ==
    /\ received = {}
    /\ rows = [r \in Requests |-> 0]
    /\ stored = [r \in Requests |-> 0]
    /\ answer = [r \in Requests |-> Pending]

\* A request reaches the intake; its sender now waits for an answer.
Receive(r) ==
    /\ r \notin received
    /\ received' = received \cup {r}
    /\ \E n \in 0..MaxRows : rows' = [rows EXCEPT ![r] = n]
    /\ UNCHANGED <<stored, answer>>

\* All rows of r appear at once.
Store(r) ==
    /\ r \in received
    /\ stored[r] = 0
    /\ answer[r] = Pending
    /\ stored' = [stored EXCEPT ![r] = rows[r]]
    /\ UNCHANGED <<received, rows, answer>>

\* 202 means every row is in the table, an error status that none is; the
\* sender of a lost answer learns nothing.
Answer(r, status) ==
    /\ r \in received
    /\ answer[r] = Pending
    /\ status = Accepted => stored[r] = rows[r]
    /\ status \in Refusals => stored[r] = 0
    /\ answer' = [answer EXCEPT ![r] = status]
    /\ UNCHANGED <<received, rows, stored>>

Next ==
    \E r \in Requests :
        \/ Receive(r)
        \/ Store(r)
        \/ \E status \in Refusals \cup {Accepted, Lost} : Answer(r, status)

Spec == Init /\ [][Next]_vars
================================================================================
