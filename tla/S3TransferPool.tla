---------------------------- MODULE S3TransferPool ----------------------------
(***************************************************************************)
(* The threads that upload or download artifacts: s3_transfer_worker and   *)
(* transfer_s3_artifacts of python_lib/ims_import_export/s3_helper.py,     *)
(* with run_command's retries (python_lib/common.py).                      *)
(*                                                                         *)
(* The queues are sets: the order of the requests is of no interest, and a *)
(* request is in one place at a time.                                      *)
(***************************************************************************)
EXTENDS Naturals, FiniteSets

CONSTANTS
    PoolRequest,    \* s3_transfer_requests
    PoolWorker,     \* num_workers threads
    PoolRetries,    \* num_retries of run_command
    PoolFaults      \* may commands fail or take too long?

ASSUME PoolAssumption ==
    /\ IsFiniteSet(PoolRequest) /\ IsFiniteSet(PoolWorker) /\ PoolWorker # {}
    /\ PoolRetries \in Nat /\ PoolFaults \in BOOLEAN

VARIABLES
    work_queue, error_queue, result_queue,
    pc, request, retries,   \* of each thread
    poolOutcome,            \* what transfer_s3_artifacts ended with
    stored                  \* what was transferred

poolVars == <<work_queue, error_queue, result_queue, pc, request, retries, poolOutcome, stored>>

PoolPlaces == {"unstarted", "check", "get", "transfer", "put", "returned"}
NoRequest == "none"     \* no request yet
Busy(w) == pc[w] \in {"transfer", "put"}

PoolTypeOK ==
    /\ work_queue \subseteq PoolRequest /\ error_queue \subseteq PoolRequest
    /\ result_queue \subseteq PoolRequest /\ stored \subseteq PoolRequest
    /\ pc \in [PoolWorker -> PoolPlaces]
    /\ request \in [PoolWorker -> PoolRequest \cup {NoRequest}]
    /\ \A w \in PoolWorker : Busy(w) => request[w] \in PoolRequest
    /\ retries \in [PoolWorker -> 0..PoolRetries]
    /\ poolOutcome \in {"running", "ok", "error"}

\* No more threads are started than there are requests.
PoolInit ==
    /\ work_queue = PoolRequest
    /\ error_queue = {} /\ result_queue = {}
    /\ \E started \in SUBSET PoolWorker :
        /\ Cardinality(started) = IF Cardinality(PoolRequest) < Cardinality(PoolWorker)
                                  THEN Cardinality(PoolRequest) ELSE Cardinality(PoolWorker)
        /\ pc = [w \in PoolWorker |-> IF w \in started THEN "check" ELSE "unstarted"]
    /\ request = [w \in PoolWorker |-> NoRequest]
    /\ retries = [w \in PoolWorker |-> 0]
    /\ poolOutcome = "running"
    /\ stored = {}

\* while error_queue.empty()
CheckErrors(w) ==
    /\ pc[w] = "check"
    /\ pc' = [pc EXCEPT ![w] = IF error_queue = {} THEN "get" ELSE "returned"]
    /\ UNCHANGED <<work_queue, error_queue, result_queue, request, retries, poolOutcome, stored>>

get_nowait(w) ==
    /\ pc[w] = "get"
    /\ \/ /\ work_queue = {}
          /\ pc' = [pc EXCEPT ![w] = "returned"]
          /\ UNCHANGED <<work_queue, request, retries>>
       \/ \E r \in work_queue :
            /\ work_queue' = work_queue \ {r}
            /\ request' = [request EXCEPT ![w] = r]
            /\ retries' = [retries EXCEPT ![w] = PoolRetries]
            /\ pc' = [pc EXCEPT ![w] = "transfer"]
    /\ UNCHANGED <<error_queue, result_queue, poolOutcome, stored>>

\* Mutant: one retry too many.
OneMoreRetry(w) ==
    /\ pc[w] = "transfer"
    /\ \/ /\ stored' = stored \cup {request[w]}
          /\ pc' = [pc EXCEPT ![w] = "put"]
          /\ UNCHANGED <<error_queue, retries>>
       \/ /\ PoolFaults
          /\ stored' \in {stored, stored \cup {request[w]}}
          /\ IF retries[w] < 0
             THEN /\ error_queue' = error_queue \cup {request[w]}
                  /\ pc' = [pc EXCEPT ![w] = "returned"]
                  /\ UNCHANGED retries
             ELSE /\ retries' = [retries EXCEPT ![w] = @ - 1]
                  /\ UNCHANGED <<error_queue, pc>>
    /\ UNCHANGED <<work_queue, result_queue, request, poolOutcome>>

\* Mutant: the retries are not counted down.
RetriesForEver(w) ==
    /\ pc[w] = "transfer"
    /\ \/ /\ stored' = stored \cup {request[w]}
          /\ pc' = [pc EXCEPT ![w] = "put"]
       \/ PoolFaults /\ stored' \in {stored, stored \cup {request[w]}} /\ UNCHANGED pc
    /\ UNCHANGED <<work_queue, error_queue, result_queue, request, retries, poolOutcome>>

\* run_command: a command that fails, or is killed for the time it takes, may have
\* done its work; it is repeated while retries remain.
do_transfer(w) ==
    /\ pc[w] = "transfer"
    /\ \/ /\ stored' = stored \cup {request[w]}
          /\ pc' = [pc EXCEPT ![w] = "put"]
          /\ UNCHANGED <<error_queue, retries>>
       \/ /\ PoolFaults
          /\ stored' \in {stored, stored \cup {request[w]}}
          /\ IF retries[w] = 0
             THEN /\ error_queue' = error_queue \cup {request[w]}
                  /\ pc' = [pc EXCEPT ![w] = "returned"]
                  /\ UNCHANGED retries
             ELSE /\ retries' = [retries EXCEPT ![w] = @ - 1]
                  /\ UNCHANGED <<error_queue, pc>>
    /\ UNCHANGED <<work_queue, result_queue, request, poolOutcome>>

put_result(w) ==
    /\ pc[w] = "put"
    /\ result_queue' = result_queue \cup {request[w]}
    /\ pc' = [pc EXCEPT ![w] = "check"]
    /\ UNCHANGED <<work_queue, error_queue, request, retries, poolOutcome, stored>>

\* Mutant: the first error is raised at once.
RaiseAtOnce ==
    /\ poolOutcome = "running"
    /\ error_queue # {} \/ \A w \in PoolWorker : pc[w] \in {"unstarted", "returned"}
    /\ poolOutcome' = IF error_queue = {} /\ Cardinality(result_queue) = Cardinality(PoolRequest)
                      THEN "ok" ELSE "error"
    /\ UNCHANGED <<work_queue, error_queue, result_queue, pc, request, retries, stored>>

\* Mutant: the caller waits for the work queue to be empty, not for the threads.
WaitForEmptyQueue ==
    /\ poolOutcome = "running"
    /\ work_queue = {} \/ \A w \in PoolWorker : pc[w] \in {"unstarted", "returned"}
    /\ poolOutcome' = IF error_queue = {} /\ Cardinality(result_queue) = Cardinality(PoolRequest)
                      THEN "ok" ELSE "error"
    /\ UNCHANGED <<work_queue, error_queue, result_queue, pc, request, retries, stored>>

\* The caller joins all threads, then looks for errors and counts the results.
join_workers ==
    /\ poolOutcome = "running"
    /\ \A w \in PoolWorker : pc[w] \in {"unstarted", "returned"}
    /\ poolOutcome' = IF error_queue = {} /\ Cardinality(result_queue) = Cardinality(PoolRequest)
                      THEN "ok" ELSE "error"
    /\ UNCHANGED <<work_queue, error_queue, result_queue, pc, request, retries, stored>>

s3_transfer_worker(w) == CheckErrors(w) \/ get_nowait(w) \/ do_transfer(w) \/ put_result(w)

PoolNext == join_workers \/ \E w \in PoolWorker : s3_transfer_worker(w)

PoolSpec == PoolInit /\ [][PoolNext]_poolVars

-----------------------------------------------------------------------------
(* Properties.                                                             *)

\* The pool is the transfer that its callers count on.
Transfer == INSTANCE S3Transfer WITH Requests <- PoolRequest, moved <- stored,
                                     outcome <- poolOutcome
ImplementsTransfer == Transfer!TransferSpec

\* transfer_s3_artifacts ends: its threads never wait for each other, and when one
\* of them can do no more the others or the caller can.  (There are no cycles.)
PoolGoesOn == poolOutcome = "running" => ENABLED PoolNext

\* How many more steps a thread may take: four for each request in the queue, should
\* it get them all, and its retries.
StepsLeft(w) ==
    (PoolRetries + 4) * Cardinality(work_queue)
      + (CASE pc[w] = "check" -> 2 [] pc[w] = "get" -> 1
           [] pc[w] = "transfer" -> 4 + retries[w] [] pc[w] = "put" -> 3 [] OTHER -> 0)
\* A step of the pool: no thread has more steps left than before, and one has fewer,
\* or the caller ends.  So transfer_s3_artifacts ends after a bounded number of steps,
\* whatever fails and in whatever order the threads run.
PoolComesToAnEnd ==
    /\ \A w \in PoolWorker : StepsLeft(w)' <= StepsLeft(w)
    /\ \/ \E w \in PoolWorker : StepsLeft(w)' < StepsLeft(w)
       \/ poolOutcome = "running" /\ poolOutcome' # "running"
PoolRunsOut == [][PoolComesToAnEnd]_poolVars

\* The callers of the pool get what they count on, and get it.
PoolDelivers == ImplementsTransfer /\ PoolRunsOut

\* An error is always one of a command that failed: when no command fails all is
\* transferred, each request by one thread.
FailsOnlyForErrors == poolOutcome = "error" => error_queue # {}
===============================================================================
