---------------------------- MODULE MCDatadogServer ----------------------------
(* Instances of DatadogServer for TLC. *)
EXTENDS DatadogServer

\* One body per way through the handlers.  The first refused body fails two
\* checks at once, so that the order of the checks is visible.
Body(route, oversized, keyMatches, malformed, rows) ==
    [route |-> route, oversized |-> oversized, keyMatches |-> keyMatches,
     malformed |-> malformed, rows |-> rows]

StoringBodies == {Body("logs", FALSE, TRUE, FALSE, 2),
                  Body("series", FALSE, TRUE, FALSE, 1)}
AllBodies == StoringBodies \cup {
    Body("logs", TRUE, FALSE, FALSE, 2),
    Body("logs", FALSE, FALSE, TRUE, 1),
    Body("logs", FALSE, TRUE, TRUE, 1),
    Body("logs", FALSE, TRUE, FALSE, 0)}

BothTables == {"logs", "series"}
================================================================================
