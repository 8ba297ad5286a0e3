------------------------- MODULE AuthenticatedRequest -------------------------
(***************************************************************************)
(* DatadogClient::AuthenticatedRequest: one read request of a table        *)
(* function, with its retries.  A scan, which is serialized, extends this  *)
(* module and says what a successful answer does.                          *)
(***************************************************************************)
EXTENDS RetryPolicy

CONSTANTS
    MaxRetries,   \* client.retries
    Headers       \* values of a rate-limit header: [parsed, seconds]

ASSUME RetriesAssumption ==
    /\ MaxRetries \in Nat
    /\ Headers \subseteq [parsed : BOOLEAN, seconds : Int]

VARIABLES
    request,   \* "idle", where the loop is, or how it threw
    attempt,   \* attempts made so far
    wait,      \* seconds to sleep before the next one
    query      \* "running", or "interrupted" by the user

requestVars == <<request, attempt, wait, query>>

Underway == {"starting", "waiting", "sleeping"}
Threw == {"failed", "interrupted"}

RequestInit ==
    /\ request = "idle" /\ attempt = 0 /\ wait = 0
    /\ query = "running"

BeginRequest ==
    /\ request = "idle"
    /\ request' = "starting" /\ attempt' = 0
    /\ UNCHANGED <<wait, query>>

\* The interrupt flag is read before each attempt and during each sleep.
InterruptedRequest ==
    /\ request \in {"starting", "sleeping"} /\ query = "interrupted"
    /\ request' = "interrupted"
    /\ UNCHANGED <<attempt, wait, query>>

SendRequest ==
    /\ request = "starting" /\ query = "running"
    /\ request' = "waiting"
    /\ UNCHANGED <<attempt, wait, query>>

Delay(outcome, seconds) ==
    IF outcome = "429"
    THEN \E reset, retryAfter \in Headers :
            seconds = RateLimitRetryDelaySeconds(reset, retryAfter, attempt)
    ELSE seconds = Backoff(attempt)

\* An attempt that fails is followed by another after a delay ...
RetryRequest(outcome) ==
    /\ request = "waiting"
    /\ ReadRetries(outcome, attempt, MaxRetries)
    /\ \E seconds \in 0..60 : Delay(outcome, seconds) /\ wait' = seconds
    /\ request' = "sleeping"
    /\ UNCHANGED <<attempt, query>>

\* ... or the request throws.
FailRequest(outcome) ==
    /\ request = "waiting"
    /\ ~ReadRetries(outcome, attempt, MaxRetries)
    /\ request' = "failed"
    /\ UNCHANGED <<attempt, wait, query>>

\* Mutant: the attempt is not counted.
WakeRequestUncounted ==
    /\ request = "sleeping" /\ query = "running"
    /\ request' = "starting" /\ wait' = 0
    /\ UNCHANGED <<attempt, query>>

WakeRequest ==
    /\ request = "sleeping" /\ query = "running"
    /\ request' = "starting" /\ attempt' = attempt + 1 /\ wait' = 0
    /\ UNCHANGED query

\* A 2xx: the caller gets the body, or throws if it cannot be parsed.
FinishRequest(parsed) ==
    /\ request = "waiting"
    /\ request' = IF parsed THEN "idle" ELSE "failed"
    /\ UNCHANGED <<attempt, wait, query>>

Interrupt ==
    /\ query = "running" /\ query' = "interrupted"
    /\ UNCHANGED <<request, attempt, wait>>

RequestStep ==
    \/ InterruptedRequest \/ SendRequest \/ WakeRequest
    \/ \E outcome \in ReadFailures : RetryRequest(outcome) \/ FailRequest(outcome)

\* No attempt beyond client.retries, and no delay outside 1..60 seconds.
RequestOK ==
    /\ request \in {"idle"} \cup Underway \cup Threw
    /\ attempt \in 0..MaxRetries
    /\ wait \in 0..60
    /\ request = "sleeping" => attempt < MaxRetries /\ wait > 0
    /\ query \in {"running", "interrupted"}
================================================================================
