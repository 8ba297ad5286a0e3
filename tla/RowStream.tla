------------------------------- MODULE RowStream -------------------------------
(***************************************************************************)
(* What a scan of Datadog promises the query that reads it: the rows it    *)
(* wants, each once and in order, chunk by chunk, until there are no more; *)
(* or an error, after which nothing is delivered.                          *)
(***************************************************************************)
EXTENDS Integers, Sequences

VARIABLES
    may_end_early,   \* whether the scan may end before the last wanted row; fixed
    wanted,          \* how many rows the query should get; fixed
    delivered,       \* the rows it got
    status           \* "open", "ended" or "failed"

streamVars == <<may_end_early, wanted, delivered, status>>

Init ==
    /\ may_end_early \in BOOLEAN /\ wanted \in Nat
    /\ delivered = <<>> /\ status = "open"

\* A chunk of n rows, from the first one not delivered yet.
Deliver(n) ==
    /\ status = "open"
    /\ Len(delivered) + n <= wanted
    /\ delivered' = delivered \o [i \in 1..n |-> Len(delivered) + i]
    /\ UNCHANGED <<may_end_early, wanted, status>>

End ==
    /\ status = "open"
    /\ Len(delivered) = wanted \/ may_end_early
    /\ status' = "ended"
    /\ UNCHANGED <<may_end_early, wanted, delivered>>

Fail ==
    /\ status = "open"
    /\ status' = "failed"
    /\ UNCHANGED <<may_end_early, wanted, delivered>>

Next == (\E n \in 1..wanted : Deliver(n)) \/ End \/ Fail

Spec == Init /\ [][Next]_streamVars
================================================================================
