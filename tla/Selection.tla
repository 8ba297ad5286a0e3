------------------------------- MODULE Selection -------------------------------
(***************************************************************************)
(* The loops that keep some items of a list, in their order.               *)
(***************************************************************************)
EXTENDS Integers, Sequences

\* The items of s that are in S.
Selected(s, S) ==
    LET kept[i \in 0..Len(s)] ==
            IF i = 0 THEN <<>>
            ELSE IF s[i] \in S THEN Append(kept[i - 1], s[i]) ELSE kept[i - 1]
    IN  kept[Len(s)]
================================================================================
