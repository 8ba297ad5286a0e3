------------------------------ MODULE RetryPolicy ------------------------------
(***************************************************************************)
(* When DatadogClient sends a request again, and how long it waits before: *)
(* the decisions of the retry loops of SendLogs, SendMetrics, SendTraces   *)
(* and SendTracesDirect, which are the same, and of AuthenticatedRequest.  *)
(***************************************************************************)
EXTENDS Integers

\* What one attempt can end in: a transport error, by what it proves, or a
\* status, by how the loop treats it.
TransportErrors == {"pre-send", "other error"}
Statuses == {"2xx", "429", "4xx", "5xx"}
Outcomes == TransportErrors \cup Statuses

\* Failures that happened before any byte of the request was sent.
IsPreSendTransportError(outcome) == outcome = "pre-send"

\* Mutant: every transport error is retried, as the read requests do.
RetryableRead(outcome) == outcome \in TransportErrors \cup {"429", "5xx"}

Retryable(outcome) ==
    \/ outcome \in TransportErrors /\ IsPreSendTransportError(outcome)
    \/ outcome \in {"429", "5xx"}

Retries(outcome, attempt, retries) == attempt < retries /\ Retryable(outcome)

--------------------------------------------------------------------------------
(* The read requests of AuthenticatedRequest, which may be sent twice.     *)

ReadErrors == {"TLS error", "other error"}
ReadFailures == ReadErrors \cup {"429", "4xx", "5xx"}

\* A certificate or hostname that does not verify will not verify later.
IsRetryableTransportError(outcome) == outcome # "TLS error"

ReadRetries(outcome, attempt, retries) ==
    attempt < retries /\ outcome # "4xx" /\ IsRetryableTransportError(outcome)

--------------------------------------------------------------------------------
(* How long to wait.                                                       *)

\* min(uint64_t(1) << attempt, 60).  A shift by 64 or more is undefined; the
\* shift instruction uses the count modulo 64.
Backoff(attempt) ==
    LET shift == attempt % 64 IN
        IF shift >= 6 THEN 60 ELSE <<1, 2, 4, 8, 16, 32>>[shift + 1]


\* Mutant: a negative header is not clamped.
AdvisedUnclamped(header) ==
    IF header.seconds > 59 THEN 60 ELSE header.seconds + 1

\* A header [parsed, seconds] that parsed: its delay and a margin of one second, at most 60.
Advised(header) ==
    LET seconds == IF header.seconds < 0 THEN 0 ELSE header.seconds IN
        IF seconds > 59 THEN 60 ELSE seconds + 1

\* X-RateLimit-Reset is asked first, then Retry-After, then the backoff.
RateLimitRetryDelaySeconds(reset, retryAfter, attempt) ==
    IF reset.parsed THEN Advised(reset)
    ELSE IF retryAfter.parsed THEN Advised(retryAfter)
    ELSE Backoff(attempt)
================================================================================
