-------------------------------- MODULE Merging --------------------------------
(***************************************************************************)
(* JSON objects and tag maps as functions from names to values: how one is *)
(* filled from several sources, the first of which to set a name keeps it. *)
(***************************************************************************)

\* One name with its value.
Only(name, value) == [n \in {name} |-> value]

\* What f holds, and of g the names that are still free.
Merge(f, g) ==
    [n \in DOMAIN f \cup DOMAIN g |-> IF n \in DOMAIN f THEN f[n] ELSE g[n]]
================================================================================
