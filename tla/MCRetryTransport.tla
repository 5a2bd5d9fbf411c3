------------------------- MODULE MCRetryTransport -------------------------
(* RetryTransport with the default configuration and a small explicit one, *)
(* a success, a 404, and the retryable 429 and 503 with every form of      *)
(* Retry-After header that calculateBackoff tells apart.                   *)
EXTENDS RetryTransport

\* The zero RetryTransport (3 retries, 1 s, 30 s) and one with 1 retry,
\* 500 ms initial and 1.5 s maximum backoff.
MCConfigs == {[maxRetries |-> 0, initialBackoff |-> 0, maxBackoff |-> 0],
              [maxRetries |-> 1, initialBackoff |-> 500, maxBackoff |-> 1500]}

MCStatuses == {200, 404, 429, 503}

\* No header; "45" and "-1" seconds; a date 2 s in the past, 1 s and 60 s
\* ahead; a value neither Atoi nor ParseTime accepts.
MCHeaders == {NoHeader,
              [kind |-> "secs", val |-> 45], [kind |-> "secs", val |-> -1],
              [kind |-> "date", val |-> -2000], [kind |-> "date", val |-> 1000],
              [kind |-> "date", val |-> 60000], [kind |-> "junk", val |-> 0]}
=============================================================================
