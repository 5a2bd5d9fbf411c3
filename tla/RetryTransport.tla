--------------------------- MODULE RetryTransport ---------------------------
(***************************************************************************)
(* netutil.RetryTransport (src/netutil/retry.go): an http.RoundTripper    *)
(* that calls its Base transport up to MaxRetries+1 times per request.    *)
(*                                                                         *)
(* One variable set is one RoundTrip call of the shared transport; a      *)
(* finished call may be followed by another one.  Each Attempt action is  *)
(* one iteration of the loop of lines 58-110, whole: the request clone    *)
(* and GetBody, base.RoundTrip, the classification of the outcome, the    *)
(* OnRetry callback, closing the discarded body and the Sleep.  Sleep has *)
(* no observable effect besides its duration, which is recorded in the    *)
(* OnRetry log `waits`.  Durations are integers in milliseconds; the      *)
(* configured values stay far below 2^63, so Go's int64 arithmetic is     *)
(* exact on them (overflow is listed as a hazard).                        *)
(***************************************************************************)
EXTENDS Integers, Sequences, FiniteSets

CONSTANTS
    Configs,    \* the RetryTransport fields: [maxRetries, initialBackoff, maxBackoff]
    Statuses,   \* status codes the base transport may answer with
    Headers     \* Retry-After headers a retryable response may carry

VARIABLES
    cfg,        \* the transport's fields (fixed once the transport is built)
    pc,         \* "idle", "loop" (inside RoundTrip) or "done" (returned)
    getBody,    \* req.GetBody != nil
    ctxDone,    \* the request's context has been cancelled
    attempt,    \* the loop variable
    trace,      \* ghost: the outcome of every base.RoundTrip of this call
    closed,     \* indices of trace whose response body RoundTrip closed
    lastResp,   \* index into trace of lastResp, 0 for nil
    lastErr,    \* lastErr, "nil" for nil
    waits,      \* ghost: the OnRetry calls, [attempt, wait, status]
    result      \* what RoundTrip returned: [resp (trace index or 0), err]

vars == <<cfg, pc, getBody, ctxDone, attempt, trace, closed, lastResp,
          lastErr, waits, result>>

Second == 1000

NoHeader == [kind |-> "none", val |-> 0]
\* A response outcome and an error outcome of base.RoundTrip.
Response(s, h) == [status |-> s, header |-> h, err |-> "nil"]
Failure(e) == [status |-> 0, header |-> NoHeader, err |-> e]
NoResult == [resp |-> 0, err |-> "nil"]

\* Lines 40-53: zero fields take their defaults.
MaxRetries == IF cfg.maxRetries = 0 THEN 3 ELSE cfg.maxRetries
InitialBackoff == IF cfg.initialBackoff = 0 THEN Second ELSE cfg.initialBackoff
MaxBackoff == IF cfg.maxBackoff = 0 THEN 30 * Second ELSE cfg.maxBackoff

\* isRetryableStatus: 429, 502, 503 and 504.
IsRetryableStatusNo429(s) == s \in {502, 503, 504}
IsRetryableStatus(s) == s \in {429, 502, 503, 504}

\* Lines 92-95: a 4xx other than 429 is returned without retrying.
IsClientError(s) == s >= 400 /\ s < 500 /\ s # 429

IsSSRFBlockedErrorNever(e) == FALSE
\* IsSSRFBlockedError (secure_dialer.go:219): errors.As an *SSRFBlockedError.
IsSSRFBlockedError(e) == e = "ssrf"

CalculateBackoffUncapped(a, initial, maxD, resp) ==
    LET h == resp.header IN
    CASE h.kind = "secs" -> h.val * Second
      [] h.kind = "date" -> IF h.val < 0 THEN initial
                            ELSE IF h.val > maxD THEN maxD ELSE h.val
      [] OTHER -> IF initial * 2^a > maxD THEN maxD ELSE initial * 2^a

\* calculateBackoff: a Retry-After header that Atoi parses is a number of
\* seconds, one that ParseTime parses is a date whose distance from now is
\* `val`; any other header (or none, or no response) gives exponential
\* backoff initial * 2^attempt.  Every branch is capped at maxDuration.
CalculateBackoff(a, initial, maxD, resp) ==
    LET h == resp.header IN
    CASE h.kind = "secs" -> IF h.val * Second > maxD THEN maxD ELSE h.val * Second
      [] h.kind = "date" -> IF h.val < 0 THEN initial
                            ELSE IF h.val > maxD THEN maxD ELSE h.val
      [] OTHER -> IF initial * 2^a > maxD THEN maxD ELSE initial * 2^a

\* What base.RoundTrip may do: once the context is cancelled every call
\* fails with the context's error (which is not an SSRF error).
Outcomes ==
    IF ctxDone
    THEN {Failure("ctx")}
    ELSE {Failure("net"), Failure("ssrf")}
         \cup {Response(s, NoHeader) : s \in {s \in Statuses : ~IsRetryableStatus(s)}}
         \cup {Response(s, h) : s \in {s \in Statuses : IsRetryableStatus(s)}, h \in Headers}

Init ==
    /\ cfg \in Configs
    /\ pc = "idle"
    /\ getBody = FALSE
    /\ ctxDone = FALSE
    /\ attempt = 0
    /\ trace = <<>>
    /\ closed = {}
    /\ lastResp = 0
    /\ lastErr = "nil"
    /\ waits = <<>>
    /\ result = NoResult

\* RoundTrip is entered with a new request (lines 34-56).
Call ==
    /\ pc \in {"idle", "done"}
    /\ pc' = "loop"
    /\ getBody' \in BOOLEAN
    /\ ctxDone' = FALSE
    /\ attempt' = 0
    /\ trace' = <<>>
    /\ closed' = {}
    /\ lastResp' = 0
    /\ lastErr' = "nil"
    /\ waits' = <<>>
    /\ result' = NoResult
    /\ UNCHANGED cfg

Return(resp, err) == /\ result' = [resp |-> resp, err |-> err]
                     /\ pc' = "done"

\* The caller cancels the request's context while RoundTrip runs.
Cancel ==
    /\ pc = "loop"
    /\ ~ctxDone
    /\ ctxDone' = TRUE
    /\ UNCHANGED <<cfg, pc, getBody, attempt, trace, closed, lastResp,
                   lastErr, waits, result>>

\* Line 58: the loop condition, and lines 76 and 100: a retry is left.
InLoopOffByOne == attempt <= MaxRetries + 1
InLoop == attempt <= MaxRetries
RetriesLeftInclusive == attempt <= MaxRetries
RetriesLeft == attempt < MaxRetries

\* Lines 61-65: GetBody fails; RoundTrip returns its error.
GetBodyFails ==
    /\ pc = "loop"
    /\ InLoop
    /\ getBody
    /\ Return(0, "getbody")
    /\ UNCHANGED <<cfg, getBody, ctxDone, attempt, trace, closed, lastResp,
                   lastErr, waits>>

\* Lines 77-82 and 101-108: OnRetry(attempt+1, wait, status), Sleep(wait),
\* next iteration.
ScheduleRetry(o) ==
    /\ waits' = Append(waits, [attempt |-> attempt + 1,
                               wait |-> CalculateBackoff(attempt, InitialBackoff, MaxBackoff, o),
                               status |-> o.status])
    /\ attempt' = attempt + 1

\* Line 106: the retried response's body is closed.
CloseBodyNever(n) == closed' = closed
CloseBody(n) == closed' = closed \cup {n}

\* Lines 69-85: base.RoundTrip fails.  An SSRF block is returned at once;
\* any other error is retried while retries are left, else returned.
AttemptError(o) ==
    /\ pc = "loop"
    /\ InLoop
    /\ o.err # "nil"
    /\ trace' = Append(trace, o)
    /\ lastErr' = o.err
    /\ \/ /\ IsSSRFBlockedError(o.err)
          /\ Return(0, o.err)
          /\ UNCHANGED <<attempt, waits>>
       \/ /\ ~IsSSRFBlockedError(o.err)
          /\ RetriesLeft
          /\ ScheduleRetry(o)
          /\ UNCHANGED <<pc, result>>
       \/ /\ ~IsSSRFBlockedError(o.err)
          /\ ~RetriesLeft
          /\ Return(0, o.err)
          /\ UNCHANGED <<attempt, waits>>
    /\ UNCHANGED <<cfg, getBody, ctxDone, closed, lastResp>>

\* Lines 87-109: base.RoundTrip answers.  A status that is not retryable,
\* or a 4xx other than 429, is returned; a retryable one becomes lastResp
\* and, while retries are left, is closed and retried.
AttemptResponse(o) ==
    LET n == Len(trace) + 1 IN
    /\ pc = "loop"
    /\ InLoop
    /\ o.err = "nil"
    /\ trace' = Append(trace, o)
    /\ \/ /\ ~IsRetryableStatus(o.status) \/ IsClientError(o.status)
          /\ Return(n, "nil")
          /\ UNCHANGED <<attempt, waits, closed, lastResp, lastErr>>
       \/ /\ IsRetryableStatus(o.status) /\ ~IsClientError(o.status)
          /\ lastResp' = n
          /\ lastErr' = "nil"
          /\ \/ /\ RetriesLeft
                /\ ScheduleRetry(o)
                /\ CloseBody(n)
             \/ /\ ~RetriesLeft
                /\ attempt' = attempt + 1
                /\ UNCHANGED <<waits, closed>>
          /\ UNCHANGED <<pc, result>>
    /\ UNCHANGED <<cfg, getBody, ctxDone>>

\* Lines 112-115: the loop ran out; lastResp if any, else lastErr.
Exhausted ==
    /\ pc = "loop"
    /\ ~InLoop
    /\ Return(lastResp, IF lastResp # 0 THEN "nil" ELSE lastErr)
    /\ UNCHANGED <<cfg, getBody, ctxDone, attempt, trace, closed, lastResp,
                   lastErr, waits>>

Next ==
    \/ Call
    \/ Cancel
    \/ GetBodyFails
    \/ \E o \in Outcomes : AttemptError(o) \/ AttemptResponse(o)
    \/ Exhausted

Spec == Init /\ [][Next]_vars

-----------------------------------------------------------------------------
(* Properties *)

TypeOK ==
    /\ pc \in {"idle", "loop", "done"}
    /\ getBody \in BOOLEAN /\ ctxDone \in BOOLEAN
    /\ attempt \in 0..MaxRetries + 1
    /\ Len(trace) <= MaxRetries + 1
    /\ closed \subseteq DOMAIN trace
    /\ lastResp \in 0..Len(trace)
    /\ result.resp \in 0..Len(trace)

\* The attempts of one call, as spec 4.11 states them: base.RoundTrip is
\* called at most MaxRetries+1 times (MaxRetries after its default), and
\* a further call follows only a transport error that is not an SSRF block
\* or a 429, 502, 503 or 504; never a 4xx other than 429.
Transient(o) == \/ o.err \notin {"nil", "ssrf"}
                \/ o.err = "nil" /\ o.status \in {429, 502, 503, 504}
RetriesOnlyTransient ==
    /\ Len(trace) <= MaxRetries + 1
    /\ \A i \in 1..Len(trace) - 1 : Transient(trace[i])

\* When RoundTrip returns (other than on a GetBody error) it returns the
\* outcome of its last base.RoundTrip: that response with a nil error, or
\* that error with a nil response; never a response of an earlier attempt,
\* and never nil with nil (the http.RoundTripper contract).
ResultIsLastOutcome ==
    pc = "done" /\ result.err # "getbody" =>
        /\ trace # <<>>
        /\ LET o == trace[Len(trace)] IN
           result = IF o.err = "nil" THEN [resp |-> Len(trace), err |-> "nil"]
                                     ELSE [resp |-> 0, err |-> o.err]

\* Every response body RoundTrip obtained is closed by it, except the one it
\* returns to the caller, which is left open for the caller to read.
DiscardedBodiesClosed ==
    pc = "done" =>
        \A i \in DOMAIN trace :
            trace[i].err = "nil" => (i \in closed <=> i # result.resp)

\* OnRetry is called once per retry, numbered 1, 2, ... in order, with the
\* status that caused it (0 for a transport error), and no wait, whatever
\* Retry-After the server sends, exceeds MaxBackoff.
RetriesReportedAndCapped ==
    /\ Len(trace) - 1 <= Len(waits) /\ Len(waits) <= Len(trace)
    /\ \A i \in DOMAIN waits :
           /\ waits[i].attempt = i
           /\ waits[i].status = trace[i].status
           /\ waits[i].wait <= MaxBackoff

\* RetryTransport implements the retry behaviour of spec 4.11 (RetryPolicy):
\* its attempts, the decision to retry, the bound and the returned outcome.
AllOutcomes == {Failure(e) : e \in {"net", "ssrf", "ctx"}}
               \cup {Response(s, NoHeader) : s \in Statuses}
               \cup {Response(s, h) : s \in Statuses, h \in Headers}
Policy == INSTANCE RetryPolicy WITH
    Outcome <- AllOutcomes,
    limit <- MaxRetries + 1,
    phase <- IF pc = "loop" THEN "running" ELSE pc,
    calls <- trace
RefinesRetryPolicy == Policy!Spec

=============================================================================
