---------------------------- MODULE RetryPolicy ----------------------------
(***************************************************************************)
(* The retry behaviour spec.md 4.11 promises for RetryTransport, with no  *)
(* backoff, callbacks or bodies: a call makes attempts one after another, *)
(* makes another only after a transient outcome (a transport error other  *)
(* than an SSRF block, or 429, 502, 503, 504), makes at most `limit` of   *)
(* them, and returns the outcome of its last attempt, which is final      *)
(* unless the limit was reached.  A call may also fail before an attempt  *)
(* when its request body cannot be re-read.                               *)
(***************************************************************************)
EXTENDS Integers, Sequences

CONSTANT Outcome    \* records [status, header, err]; err "nil" for a response

VARIABLES
    limit,          \* MaxRetries + 1
    phase,          \* "idle", "running" or "done"
    calls,          \* the outcomes of the attempts of the current call
    result          \* [resp (index into calls, 0 for none), err]

Transient(o) == \/ o.err \notin {"nil", "ssrf"}
                \/ o.err = "nil" /\ o.status \in {429, 502, 503, 504}

ResultOf(cs) == IF cs[Len(cs)].err = "nil"
                THEN [resp |-> Len(cs), err |-> "nil"]
                ELSE [resp |-> 0, err |-> cs[Len(cs)].err]

MayAttempt == /\ Len(calls) < limit
              /\ calls = <<>> \/ Transient(calls[Len(calls)])

\* The call may end with its last outcome: a final one, or any at the limit.
Ends(cs) == ~Transient(cs[Len(cs)]) \/ Len(cs) = limit

Finish(cs) == /\ phase' = "done"
              /\ result' = ResultOf(cs)

Init == /\ limit \in Nat
        /\ phase = "idle"
        /\ calls = <<>>
        /\ result = [resp |-> 0, err |-> "nil"]

Start == /\ phase \in {"idle", "done"}
         /\ phase' = "running"
         /\ calls' = <<>>
         /\ result' = [resp |-> 0, err |-> "nil"]
         /\ UNCHANGED limit

\* An attempt; when its outcome ends the call it may be returned at once.
Attempt(o) == /\ phase = "running"
              /\ MayAttempt
              /\ calls' = Append(calls, o)
              /\ \/ UNCHANGED <<phase, result>>
                 \/ Ends(calls') /\ Finish(calls')
              /\ UNCHANGED limit

Return == /\ phase = "running"
          /\ calls # <<>>
          /\ Ends(calls)
          /\ Finish(calls)
          /\ UNCHANGED <<limit, calls>>

Abort == /\ phase = "running"
         /\ MayAttempt
         /\ phase' = "done"
         /\ result' = [resp |-> 0, err |-> "getbody"]
         /\ UNCHANGED <<limit, calls>>

Next == Start \/ Return \/ Abort \/ \E o \in Outcome : Attempt(o)

Spec == Init /\ [][Next]_<<limit, phase, calls, result>>
=============================================================================
