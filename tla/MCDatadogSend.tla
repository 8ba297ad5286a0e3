----------------------------- MODULE MCDatadogSend -----------------------------
(* Instances of DatadogSend for TLC. *)
EXTENDS DatadogSend, TLC

\* Threads and connections are interchangeable (safety runs only).
Symmetry == Permutations(Threads) \cup Permutations(Connections)

Chunk(sizes) == [sizes |-> sizes, malformed |-> FALSE]

\* With batches of two rows and three bytes: one batch and two batches; then
\* the row limit, a row that is too large for any batch, no rows, a bad row.
SmallChunks == {Chunk(<<1, 1>>), Chunk(<<2, 2>>)}
EndingChunks == {Chunk(<<1, 1, 1>>), Chunk(<<4, 1>>), Chunk(<<>>),
                 [sizes |-> <<>>, malformed |-> TRUE]}
OneRow == {Chunk(<<1>>)}

Absent == [parsed |-> FALSE, seconds |-> 0]
NoHeaders == {Absent}
Present(s) == [parsed |-> TRUE, seconds |-> s]
AllHeaders == {Absent, Present(-1), Present(0), Present(58), Present(59),
               Present(60), Present(3600)}
================================================================================
