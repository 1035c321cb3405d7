----------------------------- MODULE ApiRequests -----------------------------
(***************************************************************************)
(* How a request of the configuration scripts to a service may end:        *)
(* scripts/operations/configuration/python_lib/api_requests.py.            *)
(*                                                                         *)
(* A request is repeated while the answer is 5xx, up to MaxAttempts times. *)
(* The service may have done what was asked although it answers 5xx (a     *)
(* gateway timeout), or although no answer arrives.                        *)
(***************************************************************************)
EXTENDS Naturals

\* "ok": done, and the script goes on; "lost": done, but the script ends with an
\* exception; "failed": not done, and the script ends with an exception.
Ending == {"ok", "lost", "failed"}

MaxAttempts == 6

\* The endings of make_api_request_with_retries followed by the check of the
\* status.  Repeating a request that is not idempotent (a DELETE, or a POST that
\* creates) after it was done gets a 4xx, which is not the expected status.
EndingsOf(idempotent) ==
    LET unanswered(applied) == IF applied THEN "lost" ELSE "failed"
        ends[k \in 0..MaxAttempts, applied \in BOOLEAN] ==
            IF k = 0 THEN {unanswered(applied)}
            ELSE IF applied /\ ~idempotent THEN {"lost"} \cup ends[k - 1, TRUE]
            ELSE {"ok", "lost", unanswered(applied)}
                 \cup ends[k - 1, TRUE] \cup ends[k - 1, applied]
    IN  ends[MaxAttempts, FALSE]

PutEndings    == EndingsOf(TRUE)     \* put_, patch_ and get_retry_validate
DeleteEndings == EndingsOf(FALSE)    \* delete_ and post_retry_validate
=============================================================================
