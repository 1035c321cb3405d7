-------------------------- MODULE ConfigRestoreProofs --------------------------
(***************************************************************************)
(* Proofs about the export and import of the configuration services:       *)
(* the pool of S3 transfers, the export of IMS, and the composition of     *)
(* these with the imports (MCConfigRestore), whose own proofs are in       *)
(* CfsImportProofs, BosImportProofs and ImsImportProofs.                   *)
(*                                                                         *)
(* The pool, for any number of requests, threads and retries, implements   *)
(* S3Transfer, and raises an exception only if one of its commands failed. *)
(*                                                                         *)
(* An export that ends well has the file of each artifact that its import  *)
(* wants, under the name it looks for, if no two artifacts of a kind have  *)
(* one name (NamesApart); and while S3 is as it was listed, the space that *)
(* was found to be free is enough for it.                                  *)
(***************************************************************************)
EXTENDS MCConfigRestore, CfsImportProofs, BosImportProofs, ImsImportProofs,
        FiniteSetTheorems, WellFoundedInduction, TLAPS

-----------------------------------------------------------------------------
(* Type correctness.                                                       *)

LEMMA PoolTypeInit == PoolInit => PoolTypeOK
BY PoolAssumption DEF PoolInit, PoolTypeOK, PoolPlaces, Busy

LEMMA PoolTypeNext == PoolTypeOK /\ [PoolNext]_poolVars => PoolTypeOK'
<1>. SUFFICES ASSUME PoolTypeOK, [PoolNext]_poolVars
              PROVE  PoolTypeOK'
  OBVIOUS
<1>. USE PoolAssumption DEF PoolTypeOK, PoolPlaces, Busy
<1>1. CASE join_workers
  BY <1>1 DEF join_workers
<1>2. ASSUME NEW w \in PoolWorker, CheckErrors(w)
      PROVE  PoolTypeOK'
  BY <1>2 DEF CheckErrors
<1>3. ASSUME NEW w \in PoolWorker, get_nowait(w)
      PROVE  PoolTypeOK'
  BY <1>3 DEF get_nowait
<1>4. ASSUME NEW w \in PoolWorker, do_transfer(w)
      PROVE  PoolTypeOK'
  BY <1>4 DEF do_transfer
<1>5. ASSUME NEW w \in PoolWorker, put_result(w)
      PROVE  PoolTypeOK'
  BY <1>5 DEF put_result
<1>6. CASE UNCHANGED poolVars
  BY <1>6 DEF poolVars
<1>. QED BY <1>1, <1>2, <1>3, <1>4, <1>5, <1>6 DEF PoolNext, s3_transfer_worker

\* The queues, the threads and the outcome of the pool are always well-formed.
THEOREM PoolTypeCorrect == PoolSpec => []PoolTypeOK
<1>. QED BY PoolTypeInit, PoolTypeNext, PTL DEF PoolSpec

-----------------------------------------------------------------------------
(* The inductive invariant.                                                *)

PoolEnded(w) == pc[w] \in {"unstarted", "returned"}

\* Whoever reports a result has transferred it.
ResultsAreStored == /\ result_queue \subseteq stored
                    /\ \A w \in PoolWorker : pc[w] = "put" => request[w] \in stored
\* The caller waits for the threads.
JoinedLast == poolOutcome # "running" => \A w \in PoolWorker : PoolEnded(w)
\* A request is in a queue or in the hands of a thread.
Accounted == \A r \in PoolRequest :
                \/ r \in work_queue \cup result_queue \cup error_queue
                \/ \E w \in PoolWorker : Busy(w) /\ request[w] = r
\* Without an error, threads return only when there is no more work.
ReturnsWhenDone == error_queue = {} /\ (\E w \in PoolWorker : pc[w] = "returned") => work_queue = {}
SomeStarted == PoolRequest # {} => \E w \in PoolWorker : pc[w] # "unstarted"

PoolIInv == PoolTypeOK /\ ResultsAreStored /\ JoinedLast /\ Accounted /\ ReturnsWhenDone /\ SomeStarted
            /\ FailsOnlyForErrors

LEMMA PoolIInvInit == PoolInit => PoolIInv
<1>. SUFFICES ASSUME PoolInit PROVE PoolIInv
  OBVIOUS
<1>1. PoolTypeOK
  BY PoolTypeInit
<1>2. ResultsAreStored /\ JoinedLast /\ Accounted /\ ReturnsWhenDone /\ FailsOnlyForErrors
  BY DEF PoolInit, ResultsAreStored, JoinedLast, Accounted, ReturnsWhenDone, FailsOnlyForErrors
<1>3. SomeStarted
  <2>. SUFFICES ASSUME PoolRequest # {}
                PROVE  \E w \in PoolWorker : pc[w] # "unstarted"
    BY DEF SomeStarted
  <2>1. /\ Cardinality(PoolRequest) \in Nat /\ Cardinality(PoolRequest) # 0
        /\ Cardinality(PoolWorker) \in Nat /\ Cardinality(PoolWorker) # 0
    BY PoolAssumption, FS_CardinalityType, FS_EmptySet
  <2>2. PICK started \in SUBSET PoolWorker :
            /\ Cardinality(started) # 0
            /\ pc = [w \in PoolWorker |-> IF w \in started THEN "check" ELSE "unstarted"]
    BY <2>1 DEF PoolInit
  <2>3. started # {}
    BY <2>2, FS_EmptySet
  <2>. QED BY <2>2, <2>3
<1>. QED BY <1>1, <1>2, <1>3 DEF PoolIInv

LEMMA PoolIInvNext == PoolIInv /\ [PoolNext]_poolVars => PoolIInv'
<1>. SUFFICES ASSUME PoolIInv, [PoolNext]_poolVars
              PROVE  PoolIInv'
  OBVIOUS
<1>0. PoolTypeOK'
  BY PoolTypeNext DEF PoolIInv
<1>. USE DEF PoolIInv, PoolEnded, Busy
<1>1. CASE join_workers
  <2>1. (ResultsAreStored /\ JoinedLast /\ Accounted /\ ReturnsWhenDone /\ SomeStarted)'
    BY <1>1 DEF join_workers, ResultsAreStored, JoinedLast, Accounted, ReturnsWhenDone, SomeStarted
  <2>2. ASSUME error_queue = {} PROVE Cardinality(result_queue) = Cardinality(PoolRequest)
    <3>1. result_queue = PoolRequest
      BY <1>1, <2>2 DEF join_workers, Accounted, ReturnsWhenDone, SomeStarted, PoolTypeOK
    <3>. QED BY <3>1
  <2>3. FailsOnlyForErrors'
    BY <1>1, <2>2 DEF join_workers, FailsOnlyForErrors
  <2>. QED BY <1>0, <2>1, <2>3
<1>2. ASSUME NEW w \in PoolWorker, CheckErrors(w)
      PROVE  PoolIInv'
  <2>. USE <1>2 DEF CheckErrors
  <2>1. ResultsAreStored' /\ JoinedLast' /\ ReturnsWhenDone' /\ SomeStarted' /\ FailsOnlyForErrors'
    BY DEF PoolTypeOK, ResultsAreStored, JoinedLast, ReturnsWhenDone, SomeStarted, FailsOnlyForErrors
  <2>2. Accounted'
    BY DEF PoolTypeOK, Accounted
  <2>. QED BY <1>0, <2>1, <2>2
<1>3. ASSUME NEW w \in PoolWorker, get_nowait(w)
      PROVE  PoolIInv'
  <2>. USE <1>3 DEF get_nowait
  <2>1. ResultsAreStored' /\ JoinedLast' /\ ReturnsWhenDone' /\ SomeStarted' /\ FailsOnlyForErrors'
    BY DEF PoolTypeOK, ResultsAreStored, JoinedLast, ReturnsWhenDone, SomeStarted, FailsOnlyForErrors
  <2>2. Accounted'
    BY DEF PoolTypeOK, Accounted
  <2>. QED BY <1>0, <2>1, <2>2
<1>4. ASSUME NEW w \in PoolWorker, do_transfer(w)
      PROVE  PoolIInv'
  <2>. USE <1>4 DEF do_transfer
  <2>1. ResultsAreStored' /\ JoinedLast' /\ ReturnsWhenDone' /\ SomeStarted' /\ FailsOnlyForErrors'
    BY DEF PoolTypeOK, ResultsAreStored, JoinedLast, ReturnsWhenDone, SomeStarted, FailsOnlyForErrors
  <2>2. Accounted'
    BY DEF PoolTypeOK, Accounted
  <2>. QED BY <1>0, <2>1, <2>2
<1>5. ASSUME NEW w \in PoolWorker, put_result(w)
      PROVE  PoolIInv'
  <2>. USE <1>5 DEF put_result
  <2>1. ResultsAreStored' /\ JoinedLast' /\ ReturnsWhenDone' /\ SomeStarted' /\ FailsOnlyForErrors'
    BY DEF PoolTypeOK, ResultsAreStored, JoinedLast, ReturnsWhenDone, SomeStarted, FailsOnlyForErrors
  <2>2. Accounted'
    BY DEF PoolTypeOK, Accounted
  <2>. QED BY <1>0, <2>1, <2>2
<1>6. CASE UNCHANGED poolVars
  BY <1>0, <1>6 DEF poolVars, ResultsAreStored, JoinedLast, Accounted, ReturnsWhenDone, SomeStarted,
                    FailsOnlyForErrors
<1>. QED BY <1>1, <1>2, <1>3, <1>4, <1>5, <1>6 DEF PoolNext, s3_transfer_worker

-----------------------------------------------------------------------------
(* The theorems.                                                           *)

\* transfer_s3_artifacts raises an exception only if a command failed or took too
\* long: then no result is missing, whatever the threads do when.
THEOREM FailsForErrors == PoolSpec => []FailsOnlyForErrors
<1>1. PoolIInv => FailsOnlyForErrors
  BY DEF PoolIInv
<1>. QED BY <1>1, PoolIInvInit, PoolIInvNext, PTL DEF PoolSpec

LEMMA StepSimulates == PoolIInv /\ [PoolNext]_poolVars => [Transfer!TransferNext]_(Transfer!transferVars)
<1>. SUFFICES ASSUME PoolIInv, [PoolNext]_poolVars,
                     ~UNCHANGED <<stored, poolOutcome>>
              PROVE  Transfer!TransferNext
  BY DEF Transfer!transferVars
<1>1. CASE join_workers
  <2>1. CASE poolOutcome' = "ok"
    <3>1. result_queue = PoolRequest
      BY <1>1, <2>1, PoolAssumption, FS_Subset, FS_CardinalityType DEF join_workers, PoolIInv, PoolTypeOK
    <3>2. stored = PoolRequest
      BY <3>1 DEF PoolIInv, ResultsAreStored, PoolTypeOK
    <3>. QED BY <1>1, <2>1, <3>2 DEF join_workers, Transfer!TransferNext, Transfer!Return
  <2>2. CASE poolOutcome' = "error"
    BY <1>1, <2>2 DEF join_workers, Transfer!TransferNext, Transfer!Raise
  <2>. QED BY <1>1, <2>1, <2>2 DEF join_workers
<1>2. ASSUME NEW w \in PoolWorker, s3_transfer_worker(w)
      PROVE  Transfer!TransferNext
  <2>1. do_transfer(w)
    BY <1>2 DEF s3_transfer_worker, CheckErrors, get_nowait, put_result
  <2>2. poolOutcome = "running" /\ poolOutcome' = poolOutcome
    BY <2>1 DEF PoolIInv, JoinedLast, PoolEnded, PoolTypeOK, do_transfer
  <2>3. request[w] \in PoolRequest /\ stored' = stored \cup {request[w]}
    BY <2>1 DEF PoolIInv, PoolTypeOK, Busy, do_transfer
  <2>. QED BY <2>2, <2>3 DEF Transfer!TransferNext, Transfer!Move
<1>3. CASE UNCHANGED poolVars
  BY <1>3 DEF poolVars
<1>. QED BY <1>1, <1>2, <1>3 DEF PoolNext

\* The pool is the transfer that its callers count on: it returns when everything
\* is transferred, and after it has ended no thread of it transfers anything.
THEOREM PoolImplementsTransfer == PoolSpec => ImplementsTransfer
<1>1. PoolInit => Transfer!TransferInit
  BY DEF PoolInit, Transfer!TransferInit
<1>. QED BY <1>1, PoolIInvInit, PoolIInvNext, StepSimulates, PTL
         DEF PoolSpec, ImplementsTransfer, Transfer!TransferSpec

\* A product when one factor falls by one.
LEMMA OneLess ==
    ASSUME NEW k \in Nat, NEW n \in Nat \ {0}
    PROVE  k * n \in Nat /\ k * (n - 1) = k * n - k
  OBVIOUS

\* Every step of a thread uses up one of those that it has left.
LEMMA StepUsesUp == PoolIInv /\ PoolNext => PoolComesToAnEnd
<1>. SUFFICES ASSUME PoolIInv, PoolNext PROVE PoolComesToAnEnd
  OBVIOUS
<1>. DEFINE k == PoolRetries + 4
            n == Cardinality(work_queue)
            phase(w) == CASE pc[w] = "check" -> 2 [] pc[w] = "get" -> 1
                          [] pc[w] = "transfer" -> 4 + retries[w] [] pc[w] = "put" -> 3 [] OTHER -> 0
<1>1. PoolTypeOK /\ PoolRetries \in Nat /\ k \in Nat /\ n \in Nat /\ IsFiniteSet(work_queue)
  BY PoolAssumption, FS_Subset, FS_CardinalityType DEF PoolIInv, PoolTypeOK
<1>2. \A w \in PoolWorker : phase(w) \in Nat /\ StepsLeft(w) = k * n + phase(w) /\ StepsLeft(w)' = (k * n)' + phase(w)'
  <2>. SUFFICES ASSUME NEW w \in PoolWorker PROVE phase(w) \in Nat
    BY DEF StepsLeft
  <2>. QED BY <1>1 DEF PoolTypeOK, PoolPlaces
<1>3. k * n \in Nat
  BY <1>1
<1>4. CASE join_workers
  BY <1>1, <1>2, <1>3, <1>4 DEF join_workers, PoolComesToAnEnd
<1>5. ASSUME NEW w \in PoolWorker, (k * n)' = k * n, phase(w)' < phase(w), phase(w)' \in Nat,
             \A v \in PoolWorker \ {w} : phase(v)' = phase(v)
      PROVE  PoolComesToAnEnd
  <2>. HIDE DEF k, n, phase
  <2>1. \A v \in PoolWorker : phase(v)' <= phase(v)
    BY <1>2, <1>5
  <2>2. \A v \in PoolWorker : StepsLeft(v)' <= StepsLeft(v)
    BY <1>2, <1>3, <1>5, <2>1
  <2>3. StepsLeft(w)' < StepsLeft(w)
    BY <1>2, <1>3, <1>5
  <2>. QED BY <2>2, <2>3 DEF PoolComesToAnEnd
<1>6. ASSUME NEW w \in PoolWorker, s3_transfer_worker(w) PROVE PoolComesToAnEnd
  <2>1. CASE CheckErrors(w)
    BY <1>1, <1>5, <2>1 DEF CheckErrors, PoolTypeOK
  <2>2. CASE do_transfer(w)
    BY <1>1, <1>5, <2>2 DEF do_transfer, PoolTypeOK
  <2>3. CASE put_result(w)
    BY <1>1, <1>5, <2>3 DEF put_result, PoolTypeOK
  <2>4. CASE get_nowait(w)
    <3>1. CASE UNCHANGED work_queue
      BY <1>1, <1>5, <2>4, <3>1 DEF get_nowait, PoolTypeOK
    <3>2. CASE ~UNCHANGED work_queue
      <4>1. PICK r \in work_queue : /\ work_queue' = work_queue \ {r} /\ pc[w] = "get"
                                    /\ retries' = [retries EXCEPT ![w] = PoolRetries]
                                    /\ pc' = [pc EXCEPT ![w] = "transfer"]
        BY <2>4, <3>2 DEF get_nowait
      <4>2. n \in Nat \ {0} /\ n' = n - 1
        BY <1>1, <4>1, FS_RemoveElement, FS_EmptySet, FS_CardinalityType
      <4>3. (k * n)' = k * n - k
        <5>. HIDE DEF n
        <5>. QED BY <1>1, <4>2, OneLess
      <4>4. phase(w) = 1 /\ phase(w)' = k /\ \A v \in PoolWorker \ {w} : phase(v)' = phase(v)
        BY <1>1, <4>1 DEF PoolTypeOK
      <4>. HIDE DEF n, phase
      <4>5. \A v \in PoolWorker : StepsLeft(v)' <= StepsLeft(v)
        BY <1>1, <1>2, <1>3, <4>3, <4>4
      <4>6. StepsLeft(w)' < StepsLeft(w)
        BY <1>1, <1>2, <1>3, <4>3, <4>4
      <4>. QED BY <4>5, <4>6 DEF PoolComesToAnEnd
    <3>. QED BY <3>1, <3>2
  <2>. QED BY <1>6, <2>1, <2>2, <2>3, <2>4 DEF s3_transfer_worker
<1>. QED BY <1>4, <1>6 DEF PoolNext

\* However the transfers fail, and in whatever order the threads run, the pool takes a
\* bounded number of steps: each one uses up a request, a retry or a phase of a thread
\* (s3_helper.py, transfer_s3_artifacts).  No fairness is assumed.
THEOREM TransfersEnd == PoolSpec => PoolRunsOut
<1>1. PoolIInv /\ [PoolNext]_poolVars => [PoolComesToAnEnd]_poolVars
  BY StepUsesUp
<1>. QED BY <1>1, PoolIInvInit, PoolIInvNext, PTL DEF PoolSpec, PoolRunsOut

\* What the callers of transfer_s3_artifacts count on: it is done with everything when
\* it returns, fails only for an error, and ends.
THEOREM PoolDoesDeliver == PoolSpec => PoolDelivers
  BY PoolImplementsTransfer, TransfersEnd DEF PoolDelivers

-----------------------------------------------------------------------------
(* Sums.  The number of bytes of a set of files is the number of its bytes, *)
(* counted one by one: so the facts about cardinalities apply to it.        *)

Sized(fs) == IsFiniteSet(fs) /\ \A f \in fs : f[3] \in Nat
BytesOf(fs) == UNION {{f} \X (1..f[3]) : f \in fs}

LEMMA Piece ==
    ASSUME NEW f, NEW n \in Nat
    PROVE  IsFiniteSet({f} \X (1..n)) /\ Cardinality({f} \X (1..n)) = n
<1>1. IsFiniteSet({f}) /\ Cardinality({f}) = 1
  BY FS_Singleton
<1>2. IsFiniteSet(1..n) /\ Cardinality(1..n) = n
  BY FS_Interval
<1>3. Cardinality({f} \X (1..n)) = 1 * n /\ IsFiniteSet({f} \X (1..n))
  <2>. DEFINE s == {f}
              t == 1..n
  <2>1. Cardinality(s \X t) = Cardinality(s) * Cardinality(t) /\ IsFiniteSet(s \X t)
    <3>. HIDE DEF s, t
    <3>. SUFFICES ASSUME IsFiniteSet(s), IsFiniteSet(t)
                  PROVE  Cardinality(s \X t) = Cardinality(s) * Cardinality(t) /\ IsFiniteSet(s \X t)
      BY <1>1, <1>2 DEF s, t
    <3>. QED BY FS_Product
  <2>. QED BY <1>1, <1>2, <2>1
<1>. QED BY <1>3

LEMMA BytesOfFinite ==
    ASSUME NEW fs, Sized(fs)
    PROVE  IsFiniteSet(BytesOf(fs)) /\ Cardinality(BytesOf(fs)) \in Nat
<1>. DEFINE pieces == {{f} \X (1..f[3]) : f \in fs}
<1>1. IsFiniteSet(pieces)
  <2>. DEFINE piece == [f \in fs |-> {f} \X (1..f[3])]
  <2>1. piece \in Surjection(fs, pieces)
    BY DEF Surjection
  <2>. HIDE DEF piece, pieces
  <2>. QED BY <2>1, FS_Surjection DEF Sized
<1>2. ASSUME NEW f \in fs PROVE IsFiniteSet({f} \X (1..f[3]))
  <2>1. f[3] \in Nat
    BY DEF Sized
  <2>. QED BY <2>1, Piece
<1>3. IsFiniteSet(UNION pieces)
  <2>1. \A T \in pieces : IsFiniteSet(T)
    BY <1>2
  <2>. HIDE DEF pieces
  <2>. QED BY <1>1, <2>1, FS_UNION
<1>. QED BY <1>3, FS_CardinalityType DEF BytesOf

LEMMA BytesOfEmpty == BytesOf({}) = {} /\ Cardinality(BytesOf({})) = 0
<1>1. BytesOf({}) = {}
  BY DEF BytesOf
<1>. QED BY <1>1, FS_EmptySet

LEMMA BytesOfOne ==
    ASSUME NEW f, f[3] \in Nat
    PROVE  Cardinality(BytesOf({f})) = f[3]
<1>1. BytesOf({f}) = {f} \X (1..f[3])
  BY DEF BytesOf
<1>. QED BY <1>1, Piece

\* Bytes of disjoint sets add up, and those of any sets are not more.
LEMMA BytesOfUnion ==
    ASSUME NEW fs, NEW gs, Sized(fs), Sized(gs)
    PROVE  /\ Sized(fs \cup gs)
           /\ Cardinality(BytesOf(fs \cup gs)) <= Cardinality(BytesOf(fs)) + Cardinality(BytesOf(gs))
           /\ fs \cap gs = {} =>
                Cardinality(BytesOf(fs \cup gs)) = Cardinality(BytesOf(fs)) + Cardinality(BytesOf(gs))
<1>1. Sized(fs \cup gs)
  BY FS_Union DEF Sized
<1>2. BytesOf(fs \cup gs) = BytesOf(fs) \cup BytesOf(gs)
  BY DEF BytesOf
<1>3. /\ Cardinality(BytesOf(fs)) \in Nat /\ Cardinality(BytesOf(gs)) \in Nat
      /\ Cardinality(BytesOf(fs) \cap BytesOf(gs)) \in Nat
  BY BytesOfFinite, FS_Intersection, FS_CardinalityType
<1>4. Cardinality(BytesOf(fs \cup gs)) = Cardinality(BytesOf(fs)) + Cardinality(BytesOf(gs))
                                         - Cardinality(BytesOf(fs) \cap BytesOf(gs))
  BY <1>2, BytesOfFinite, FS_Union
<1>5. fs \cap gs = {} => BytesOf(fs) \cap BytesOf(gs) = {}
  BY DEF BytesOf
<1>. QED BY <1>1, <1>3, <1>4, <1>5, FS_EmptySet

LEMMA BytesAreCounted ==
    ASSUME NEW fs, Sized(fs)
    PROVE  Bytes(fs) = Cardinality(BytesOf(fs))
<1>. DEFINE first(s) == CHOOSE x \in s : TRUE
            sums(it) == it = [s \in SUBSET fs |-> IF s = {} THEN 0 ELSE first(s)[3] + it[s \ {first(s)}]]
            count == [s \in SUBSET fs |-> Cardinality(BytesOf(s))]
<1>1. \A s \in SUBSET fs : Sized(s) /\ (s # {} => first(s) \in s)
  BY FS_Subset DEF Sized
<1>2. sums(count)
  <2>. SUFFICES ASSUME NEW s \in SUBSET fs, s # {}
                PROVE  count[s] = first(s)[3] + count[s \ {first(s)}]
    BY BytesOfEmpty
  <2>. DEFINE x == first(s)
  <2>1. x \in s
    BY <1>1
  <2>. HIDE DEF first, x
  <2>2. Sized(s \ {x}) /\ Sized({x}) /\ x[3] \in Nat
    BY <1>1, <2>1, FS_Singleton DEF Sized
  <2>3. Cardinality(BytesOf(s)) = Cardinality(BytesOf(s \ {x})) + Cardinality(BytesOf({x}))
    <3>1. s = (s \ {x}) \cup {x} /\ (s \ {x}) \cap {x} = {}
      BY <2>1
    <3>. QED BY <2>2, <3>1, BytesOfUnion
  <2>4. Cardinality(BytesOf({x})) = x[3] /\ Cardinality(BytesOf(s \ {x})) \in Nat
    BY <2>2, BytesOfOne, BytesOfFinite
  <2>5. count[s] = x[3] + count[s \ {x}]
    BY <2>2, <2>3, <2>4
  <2>. QED BY <2>5 DEF x
<1>. DEFINE it == CHOOSE g : sums(g)
<1>3. sums(it)
  BY <1>2
<1>4. Bytes(fs) = it[fs]
  BY DEF Bytes, MapThenSumSet, MapThenFoldSet
<1>. HIDE DEF it
<1>5. ASSUME it[fs] # count[fs] PROVE FALSE
  <2>. DEFINE bad == {s \in SUBSET fs : it[s] # count[s]}
  <2>1. bad # {} /\ bad \subseteq FiniteSubsetsOf(fs)
    <3>1. FiniteSubsetsOf(fs) = SUBSET fs
      BY FS_FiniteSubsetsOfFinite DEF Sized
    <3>. QED BY <1>5, <3>1
  <2>2. PICK s \in bad : \A t \in bad : <<t, s>> \notin StrictSubsetOrdering(fs)
    <3>. HIDE DEF bad
    <3>. QED BY <2>1, FS_StrictSubsetOrderingWellFounded, WFMin
  <2>3. s # {}
    BY <1>2, <1>3
  <2>. DEFINE t == s \ {first(s)}
  <2>4. t \in SUBSET fs /\ t \subseteq s /\ t # s
    BY <1>1, <2>3
  <2>5. <<t, s>> \in StrictSubsetOrdering(fs)
    <3>. HIDE DEF t
    <3>. QED BY <2>4 DEF StrictSubsetOrdering
  <2>6. it[t] = count[t]
    BY <2>2, <2>4, <2>5
  <2>7. it[s] = first(s)[3] + it[t] /\ count[s] = first(s)[3] + count[t]
    <3>. HIDE DEF count, first
    <3>. QED BY <1>2, <1>3, <2>3
  <2>. QED BY <2>2, <2>6, <2>7
<1>6. count[fs] = Cardinality(BytesOf(fs))
  OBVIOUS
<1>. QED BY <1>4, <1>5, <1>6

\* What is used of sums.
LEMMA BytesFacts ==
    ASSUME NEW fs, Sized(fs)
    PROVE  /\ Bytes(fs) \in Nat
           /\ fs = {} => Bytes(fs) = 0
           /\ \A f : f[3] \in Nat /\ f \notin fs => Bytes(fs \cup {f}) = Bytes(fs) + f[3]
           /\ \A f \in fs : Bytes(fs \ {f}) = Bytes(fs) - f[3]
           /\ \A gs : Sized(gs) => /\ Bytes(fs \cup gs) <= Bytes(fs) + Bytes(gs)
                                   /\ fs \cap gs = {} => Bytes(fs \cup gs) = Bytes(fs) + Bytes(gs)
           /\ \A gs \in SUBSET fs : Sized(gs) /\ Bytes(gs) <= Bytes(fs)
<1>1. \A gs : Sized(gs) => Bytes(gs) = Cardinality(BytesOf(gs)) /\ Bytes(gs) \in Nat
  BY BytesAreCounted, BytesOfFinite
<1>2. ASSUME NEW gs, NEW hs, Sized(gs), Sized(hs)
      PROVE  /\ Sized(gs \cup hs)
             /\ Bytes(gs \cup hs) <= Bytes(gs) + Bytes(hs)
             /\ gs \cap hs = {} => Bytes(gs \cup hs) = Bytes(gs) + Bytes(hs)
  <2>1. /\ Sized(gs \cup hs)
        /\ Cardinality(BytesOf(gs \cup hs)) <= Cardinality(BytesOf(gs)) + Cardinality(BytesOf(hs))
        /\ gs \cap hs = {} => Cardinality(BytesOf(gs \cup hs)) =
                               Cardinality(BytesOf(gs)) + Cardinality(BytesOf(hs))
    BY <1>2, BytesOfUnion
  <2>. QED BY <1>1, <1>2, <2>1
<1>3. \A f : f[3] \in Nat => Sized({f}) /\ Bytes({f}) = f[3]
  BY <1>1, BytesOfOne, FS_Singleton DEF Sized
<1>4. \A gs \in SUBSET fs : Sized(gs)
  BY FS_Subset DEF Sized
<1>5. fs = {} => Bytes(fs) = 0
  BY <1>1, BytesOfEmpty
<1>6. \A f : f[3] \in Nat /\ f \notin fs => Bytes(fs \cup {f}) = Bytes(fs) + f[3]
  BY <1>1, <1>2, <1>3
<1>7. \A f \in fs : Bytes(fs \ {f}) = Bytes(fs) - f[3]
  <2>. TAKE f \in fs
  <2>1. fs = (fs \ {f}) \cup {f} /\ (fs \ {f}) \cap {f} = {} /\ f[3] \in Nat /\ Sized(fs \ {f})
    BY <1>4 DEF Sized
  <2>2. Sized({f}) /\ Bytes({f}) = f[3] /\ Bytes(fs \ {f}) \in Nat
    BY <1>1, <1>3, <2>1
  <2>3. Bytes((fs \ {f}) \cup {f}) = Bytes(fs \ {f}) + Bytes({f})
    BY <1>2, <2>1, <2>2
  <2>4. Bytes(fs) = Bytes(fs \ {f}) + f[3]
    BY <2>1, <2>2, <2>3, Zenon
  <2>. DEFINE n == f[3]
              rest == Bytes(fs \ {f})
  <2>5. n \in Nat /\ rest \in Nat /\ Bytes(fs) = rest + n
    BY <2>1, <2>2, <2>4
  <2>. HIDE DEF n, rest
  <2>6. rest = Bytes(fs) - n
    BY <2>5
  <2>. QED BY <2>6 DEF n, rest
<1>8. \A gs \in SUBSET fs : Bytes(gs) <= Bytes(fs)
  <2>. TAKE gs \in SUBSET fs
  <2>1. fs = gs \cup (fs \ gs) /\ gs \cap (fs \ gs) = {} /\ Sized(gs) /\ Sized(fs \ gs)
    BY <1>4
  <2>. QED BY <1>1, <1>2, <2>1
<1>. QED BY <1>1, <1>2, <1>4, <1>5, <1>6, <1>7, <1>8

-----------------------------------------------------------------------------
(* The export of IMS: types.                                               *)

LinkKind == {"images", "recipes", "deletedImages", "deletedRecipes", "bos", "bss", "catalog"}
LocalName == {Basename[u] : u \in Url} \X (Url \cup {""})
RelPaths == UNION {[urls -> LocalName] : urls \in SUBSET Url}
ExportRecord == [at : ExportPlaces, artifacts : BOOLEAN, tar : BOOLEAN, links : SUBSET Url,
                 images : SUBSET Url, recipes : SUBSET Url, todo : SUBSET Url,
                 relpath : RelPaths, estimates : Nat \X Nat, edited : BOOLEAN,
                 why : {"nothing", "gone", "unlisted", "no room", "disk full", "file lost"}]
ArtifactFile == LocalName \X Url \X Nat
JsonFile == <<DataFile, "data", JsonBytes>>
Verified == {"download", "json", "tar", "done"}
ExportAt(places) == export.at \in places /\ export.artifacts

\* The variables are well-formed; files have different names; only the archive and
\* the end of an export come after the data.
ExportTyped ==
    /\ export \in ExportRecord
    /\ \A l \in LinkKind : linked[l] \subseteq Url
    /\ size \in [Url -> Nat] /\ disk \in Nat /\ urlEdits \in 0..MaxUrlEdits
    /\ files \subseteq ArtifactFile \cup {JsonFile}
    /\ archive \subseteq ArtifactFile \cup {JsonFile}
    /\ IsFiniteSet(files) /\ IsFiniteSet(archive)
    /\ \A f, g \in files : f[1] = g[1] => f = g
    /\ export.todo \subseteq DOMAIN export.relpath
    /\ export.at \in {"manifests", "estimate"} => DOMAIN export.relpath = export.images
    /\ ExportAt(Verified) =>
         export.images \cup export.recipes \subseteq DOMAIN export.relpath
    /\ export.at \notin {"tar", "done", "failed"} => files \subseteq ArtifactFile /\ archive = {}
    /\ export.at \notin {"manifests", "download", "tar", "failed"} => export.todo = {}
    /\ export.at \in {"idle", "bos", "bss", "catalog", "plan"} =>
         files = {} /\ DOMAIN export.relpath = {}
    /\ export.at \in {"bos", "bss", "catalog", "plan", "manifests", "estimate", "download"} =>
         export.artifacts

\* The names of the artifacts of a kind are different, images are described by
\* manifests, recipes are not, and no manifest names another.
NamesApart ==
    /\ \A u, v \in Url : u # v /\ Basename[u] = Basename[v] =>
         (u \in ManifestName <=> v \notin ManifestName)
    /\ \A u \in Url : ManifestLinks[u] \cap ManifestName = {}
    /\ \A sys \in LinkSystems :
         /\ sys.images \cup sys.deletedImages \subseteq ManifestName
         /\ (sys.recipes \cup sys.deletedRecipes) \cap ManifestName = {}

\* Images have the names of manifests, recipes have not.
LinksHaveSorts ==
    /\ linked.images \cup linked.deletedImages \cup export.images \subseteq ManifestName
    /\ (linked.recipes \cup linked.deletedRecipes \cup export.recipes) \cap ManifestName = {}

Collected == {"manifests", "estimate"} \cup Verified

\* The run knows all links.
LinksAreKnown ==
    /\ ExportAt(ExportPlaces \ {"idle", "failed"}) =>
         linked.images \subseteq export.images /\ linked.recipes \subseteq export.recipes
    /\ ExportAt(Collected) => export.links \subseteq export.images \cup export.recipes

\* Every artifact has a path of its own.
PathsAreApart ==
    /\ ExportAt({"manifests", "estimate"}) =>
         \A u \in export.images : export.relpath[u] = <<Basename[u], "">>
    /\ ExportAt(Verified) =>
         DOMAIN export.relpath = export.images \cup export.recipes \cup get_child_urls_from_manifests
    /\ ExportAt(Collected) =>
         \A u, v \in DOMAIN export.relpath : export.relpath[u] = export.relpath[v] => u = v

\* What is not still to download is there.
Downloaded ==
    ExportAt(Collected) =>
        \A u \in DOMAIN export.relpath :
            \/ export.at \in {"manifests", "download"} /\ u \in export.todo
            \/ \E f \in Kept : f[1] = export.relpath[u] /\ f[2] = u

\* The files as the buckets list them, and what an export needs beside them.
AsListed(urls) == {<<u, u, size[u]>> : u \in urls}
AllUrls == undownloaded_s3_urls \cup export.images
InArchive == IF export.tar THEN Max({JsonBytes} \cup {f[3] : f \in AsListed(AllUrls)}) ELSE 0
Used == Bytes(files) + Bytes(archive)

\* No image was downloaded twice.
ImagesOnce ==
    export.at \in {"manifests", "estimate"} =>
        /\ \A f \in files : f[2] \in export.images \ export.todo
        /\ \A f, g \in files : f[2] = g[2] => f = g

\* As long as S3 is as it was listed, what is still to write has its room.
Estimated == export.estimates # <<0, 0>> /\ ~export.edited

FilesAreListed ==
    \A f \in files \cup archive : f = JsonFile \/ (f[2] \in AllUrls /\ f[3] <= size[f[2]])

RoomIsLeft ==
    /\ Used <= Bytes(AsListed(AllUrls)) + JsonBytes
    /\ export.at = "download" =>
         /\ export.todo \subseteq AllUrls
         /\ Used + Bytes(AsListed(export.todo)) <= Bytes(AsListed(AllUrls))
         /\ Used + Bytes(AsListed(export.todo)) + JsonBytes + InArchive + Headroom <= disk
    /\ export.at = "json" =>
         /\ Used <= Bytes(AsListed(AllUrls))
         /\ Used + JsonBytes + InArchive + Headroom <= disk
    /\ export.at = "tar" => export.tar /\ Used + InArchive + Headroom <= disk

HasRoom ==
    Estimated => /\ export.why # "disk full"
                 /\ export.estimates = estimate_required_space
                 /\ export.at \in Verified \cup {"failed"}
                 /\ FilesAreListed /\ RoomIsLeft

Unfailed == export.at # "failed" => export.why = "nothing"
-----------------------------------------------------------------------------
(* The export of IMS: type correctness.                                    *)

\* Links and sizes are as LinkSystems has them.
LEMMA LinksTyped ==
    ASSUME NEW sys \in LinkSystems
    PROVE  /\ \A l \in LinkKind : l \in DOMAIN sys /\ l # "size" /\ sys[l] \subseteq Url
           /\ sys.size \in [Url -> Nat]
BY ExportAssumption DEF LinkKind

LEMMA ExportTypedInit == ExportInit => ExportTyped
<1>. SUFFICES ASSUME ExportInit PROVE ExportTyped
  OBVIOUS
<1>1. PICK sys \in LinkSystems : linked = [x \in DOMAIN sys \ {"size"} |-> sys[x]] /\ size = sys.size
  BY DEF ExportInit
<1>2. \A l \in LinkKind : linked[l] \subseteq Url
  BY <1>1, LinksTyped
<1>3. size \in [Url -> Nat] /\ disk \in Nat /\ urlEdits \in 0..MaxUrlEdits
  <2>1. size \in [Url -> Nat]
    BY <1>1, LinksTyped
  <2>2. disk \in FreeBytes /\ urlEdits = 0
    BY DEF ExportInit
  <2>3. disk \in Nat
    BY <2>2, ExportAssumption
  <2>4. urlEdits \in 0..MaxUrlEdits
    <3>1. MaxUrlEdits \in Nat
      BY ExportAssumption
    <3>. QED BY <2>2, <3>1
  <2>. QED BY <2>1, <2>3, <2>4
<1>4. <<>> \in RelPaths /\ DOMAIN <<>> = {}
  <2>1. <<>> \in [{} -> LocalName]
    OBVIOUS
  <2>. QED BY <2>1 DEF RelPaths
<1>5. export \in ExportRecord /\ export.todo = {} /\ export.at = "idle" /\ export.relpath = <<>>
  BY <1>4 DEF ExportInit, NewExport, ExportRecord, ExportPlaces
<1>6. files = {} /\ archive = {} /\ IsFiniteSet({})
  BY FS_EmptySet DEF ExportInit
<1>. QED BY <1>2, <1>3, <1>4, <1>5, <1>6 DEF ExportTyped, ExportAt, Verified

\* The paths of a download are typed, and those chosen before are kept.
LEMMA PathsTyped ==
    ASSUME ExportTyped, NEW next \in ExportRecord, NEW urls \in SUBSET Url
    PROVE  /\ ToDownload(next, urls) = [next EXCEPT !.todo = urls,
                                                    !.relpath = ToDownload(next, urls).relpath]
           /\ ToDownload(next, urls) \in ExportRecord
           /\ ToDownload(next, urls).todo = urls
           /\ LET paths == ToDownload(next, urls).relpath
              IN  /\ DOMAIN paths = urls \cup DOMAIN next.relpath
                  /\ \A u \in urls : paths[u] = generate_artifact_local_path(u)
                  /\ \A u \in DOMAIN next.relpath \ urls : paths[u] = next.relpath[u]
<1>. DEFINE paths == [u \in urls \cup DOMAIN next.relpath |->
                        IF u \in urls THEN generate_artifact_local_path(u) ELSE next.relpath[u]]
<1>1. PICK old \in SUBSET Url : next.relpath \in [old -> LocalName]
  BY DEF ExportRecord, RelPaths
<1>2. \A u \in Url : generate_artifact_local_path(u) \in LocalName
  <2>. TAKE u \in Url
  <2>1. <<Basename[u], u>> \in LocalName
    BY DEF LocalName
  <2>2. <<Basename[u], "">> \in LocalName
    BY DEF LocalName
  <2>. QED BY <2>1, <2>2 DEF generate_artifact_local_path
<1>3. paths \in [urls \cup old -> LocalName]
  BY <1>1, <1>2
<1>4. urls \cup old \in SUBSET Url
  BY <1>1
<1>5. paths \in RelPaths
  <2>. HIDE DEF paths
  <2>. QED BY <1>3, <1>4 DEF RelPaths
<1>6. ToDownload(next, urls) = [next EXCEPT !.todo = urls, !.relpath = paths]
  BY DEF ToDownload
<1>7. /\ DOMAIN paths = urls \cup DOMAIN next.relpath
      /\ \A u \in urls : paths[u] = generate_artifact_local_path(u)
      /\ \A u \in DOMAIN next.relpath \ urls : paths[u] = next.relpath[u]
  OBVIOUS
<1>. HIDE DEF paths
<1>8. [next EXCEPT !.todo = urls, !.relpath = paths] \in ExportRecord
  BY <1>5 DEF ExportRecord
<1>9. /\ [next EXCEPT !.todo = urls, !.relpath = paths].relpath = paths
      /\ [next EXCEPT !.todo = urls, !.relpath = paths].todo = urls
  BY DEF ExportRecord
<1>. QED BY <1>6, <1>7, <1>8, <1>9

LEMMA UrlsTyped ==
    ASSUME ExportTyped
    PROVE  /\ get_child_urls_from_manifests \subseteq Url
           /\ undownloaded_s3_urls \subseteq Url
           /\ \A u \in export.images : ManifestLinks[u] \subseteq get_child_urls_from_manifests
           /\ AllUrls \subseteq Url
           /\ AllUrls = export.images \cup export.recipes \cup get_child_urls_from_manifests
<1>1. export.images \subseteq Url /\ export.recipes \subseteq Url
  BY DEF ExportTyped, ExportRecord
<1>2. get_child_urls_from_manifests \subseteq Url
  <2>. SUFFICES ASSUME NEW u \in export.images, NEW v \in ManifestLinks[u] PROVE v \in Url
    BY DEF get_child_urls_from_manifests
  <2>1. u \in Url
    BY <1>1
  <2>. QED BY <2>1, ExportAssumption
<1>. QED BY <1>1, <1>2 DEF get_child_urls_from_manifests, undownloaded_s3_urls, AllUrls

\* A step that changes only the run keeps everything else typed.
RunStays(next) ==
    /\ next \in ExportRecord
    /\ next.todo \subseteq DOMAIN next.relpath
    /\ next.at \in {"manifests", "estimate"} => DOMAIN next.relpath = next.images
    /\ next.at \in Verified /\ next.artifacts =>
         next.images \cup next.recipes \subseteq DOMAIN next.relpath
    /\ next.at \notin {"tar", "done", "failed"} => files \subseteq ArtifactFile /\ archive = {}
    /\ next.at \notin {"manifests", "download", "tar", "failed"} => next.todo = {}
    /\ next.at \in {"idle", "bos", "bss", "catalog", "plan"} =>
         files = {} /\ DOMAIN next.relpath = {}
    /\ next.at \in {"bos", "bss", "catalog", "plan", "manifests", "estimate", "download"} =>
         next.artifacts

LEMMA RunTyped ==
    ASSUME ExportTyped, NEW next, RunStays(next), ExportOnly(next)
    PROVE  ExportTyped'
<1>1. export' = next /\ UNCHANGED <<linked, size, files, archive, disk, urlEdits>>
  BY DEF ExportOnly
<1>2. /\ export' \in ExportRecord
      /\ export'.todo \subseteq DOMAIN export'.relpath
      /\ export'.at \in {"manifests", "estimate"} => DOMAIN export'.relpath = export'.images
      /\ ExportAt(Verified)' =>
           export'.images \cup export'.recipes \subseteq DOMAIN export'.relpath
  BY <1>1 DEF RunStays, ExportAt
<1>3. /\ export'.at \notin {"tar", "done", "failed"} => files' \subseteq ArtifactFile /\ archive' = {}
      /\ export'.at \notin {"manifests", "download", "tar", "failed"} => export'.todo = {}
      /\ export'.at \in {"idle", "bos", "bss", "catalog", "plan"} =>
           files' = {} /\ DOMAIN export'.relpath = {}
      /\ export'.at \in {"bos", "bss", "catalog", "plan", "manifests", "estimate", "download"} =>
           export'.artifacts
  BY <1>1 DEF RunStays
<1>4. /\ \A l \in LinkKind : linked'[l] \subseteq Url
      /\ size' \in [Url -> Nat] /\ disk' \in Nat /\ urlEdits' \in 0..MaxUrlEdits
      /\ files' \subseteq ArtifactFile \cup {JsonFile}
      /\ archive' \subseteq ArtifactFile \cup {JsonFile}
      /\ IsFiniteSet(files') /\ IsFiniteSet(archive')
      /\ \A f, g \in files' : f[1] = g[1] => f = g
  BY <1>1 DEF ExportTyped
<1>. QED BY <1>2, <1>3, <1>4 DEF ExportTyped

LEMMA FailingStays ==
    ASSUME ExportTyped,
           NEW why \in {"nothing", "gone", "unlisted", "no room", "disk full", "file lost"}
    PROVE  RunStays(ExportFail(why))
<1>1. ExportFail(why) \in ExportRecord /\ ExportFail(why).at = "failed"
      /\ ExportFail(why).todo = export.todo /\ ExportFail(why).relpath = export.relpath
  BY DEF ExportTyped, ExportRecord, ExportFail, ExportPlaces
<1>. QED BY <1>1 DEF RunStays, ExportTyped, Verified

LEMMA StartTyped ==
    ASSUME ExportTyped, NEW artifacts \in BOOLEAN, NEW tar \in BOOLEAN, NEW deleted \in BOOLEAN,
           StartExport(artifacts, tar, deleted)
    PROVE  ExportTyped'
<1>. DEFINE images == linked.images \cup (IF deleted THEN linked.deletedImages ELSE {})
            recipes == linked.recipes \cup (IF deleted THEN linked.deletedRecipes ELSE {})
            next == [export EXCEPT
                       !.at = IF artifacts THEN "bos" ELSE "json", !.artifacts = artifacts,
                       !.tar = artifacts /\ tar, !.images = images, !.recipes = recipes]
<1>1. images \subseteq Url /\ recipes \subseteq Url
  BY DEF ExportTyped, LinkKind
<1>. HIDE DEF images, recipes
<1>2. /\ next \in ExportRecord
      /\ next.at = IF artifacts THEN "bos" ELSE "json"
      /\ next.artifacts = artifacts
      /\ next.todo = export.todo /\ next.relpath = export.relpath
  BY <1>1 DEF ExportTyped, ExportRecord, ExportPlaces
<1>3. export.at = "idle" /\ ExportOnly(next)
  BY DEF StartExport, images, recipes
<1>4. RunStays(next)
  <2>. HIDE DEF next
  <2>. QED BY <1>2, <1>3 DEF RunStays, ExportTyped, Verified
<1>. QED BY <1>3, <1>4, RunTyped

LEMMA LinksTypedStep == ExportTyped /\ get_all_s3_links => ExportTyped'
<1>. SUFFICES ASSUME ExportTyped, get_all_s3_links PROVE ExportTyped'
  OBVIOUS
<1>1. PICK excluded \in BOOLEAN :
        ExportOnly([export EXCEPT
            !.at = CASE @ = "bos" -> "bss" [] @ = "bss" -> "catalog" [] OTHER -> "plan",
            !.links = @ \cup IF excluded THEN {}
                             ELSE strip_nonexistent_artifacts(linked[export.at])])
  BY DEF get_all_s3_links
<1>. DEFINE found == IF excluded THEN {} ELSE strip_nonexistent_artifacts(linked[export.at])
            place == CASE export.at = "bos" -> "bss" [] export.at = "bss" -> "catalog"
                       [] OTHER -> "plan"
            next == [export EXCEPT !.at = place, !.links = @ \cup found]
<1>2. export.at \in {"bos", "bss", "catalog"} /\ place \in {"bss", "catalog", "plan"}
  BY DEF get_all_s3_links
<1>3. found \subseteq Url
  BY <1>2 DEF strip_nonexistent_artifacts, ExportTyped, LinkKind
<1>4. ExportOnly(next)
  BY <1>1
<1>. HIDE DEF found, place
<1>5. /\ next \in ExportRecord /\ next.at = place /\ next.artifacts = export.artifacts
      /\ next.todo = export.todo /\ next.relpath = export.relpath
  BY <1>2, <1>3 DEF ExportTyped, ExportRecord, ExportPlaces
<1>6. RunStays(next)
  <2>. HIDE DEF next
  <2>. QED BY <1>2, <1>5 DEF RunStays, ExportTyped, Verified
<1>. QED BY <1>4, <1>6, RunTyped

LEMMA PlanTyped == ExportTyped /\ plan_manifests => ExportTyped'
<1>. SUFFICES ASSUME ExportTyped, plan_manifests PROVE ExportTyped'
  OBVIOUS
<1>. DEFINE base == [get_image_recipe_s3_urls EXCEPT !.at = "manifests"]
            next == ToDownload(base, get_image_recipe_s3_urls.images)
<1>1. /\ get_image_recipe_s3_urls \in ExportRecord
      /\ get_image_recipe_s3_urls.relpath = export.relpath
      /\ get_image_recipe_s3_urls.artifacts = export.artifacts
  BY DEF get_image_recipe_s3_urls, ExportTyped, ExportRecord
<1>2. /\ base \in ExportRecord /\ base.at = "manifests" /\ base.relpath = export.relpath
      /\ base.artifacts = export.artifacts /\ base.images = get_image_recipe_s3_urls.images
  BY <1>1 DEF ExportRecord, ExportPlaces
<1>3. get_image_recipe_s3_urls.images \in SUBSET Url
  BY <1>1 DEF ExportRecord
<1>4. export.at = "plan" /\ ExportOnly(next)
  BY DEF plan_manifests
<1>. HIDE DEF base
<1>5. /\ next \in ExportRecord /\ next.todo = get_image_recipe_s3_urls.images
      /\ DOMAIN next.relpath = get_image_recipe_s3_urls.images
      /\ next.at = "manifests" /\ next.artifacts = export.artifacts
      /\ next.images = get_image_recipe_s3_urls.images
  <2>. DEFINE paths == next.relpath
  <2>1. /\ next = [base EXCEPT !.todo = get_image_recipe_s3_urls.images, !.relpath = paths]
        /\ next \in ExportRecord /\ next.todo = get_image_recipe_s3_urls.images
        /\ DOMAIN paths = get_image_recipe_s3_urls.images \cup DOMAIN base.relpath
    BY <1>2, <1>3, PathsTyped
  <2>2. DOMAIN base.relpath = {}
    BY <1>2, <1>4 DEF ExportTyped
  <2>. HIDE DEF next, paths
  <2>3. next.at = base.at /\ next.artifacts = base.artifacts /\ next.images = base.images
    BY <1>2, <2>1 DEF ExportRecord
  <2>. QED BY <1>2, <2>1, <2>2, <2>3 DEF paths
<1>6. RunStays(next)
  <2>. HIDE DEF next
  <2>. QED BY <1>2, <1>4, <1>5 DEF RunStays, ExportTyped, Verified
<1>. QED BY <1>4, <1>6, RunTyped

-----------------------------------------------------------------------------
(* The export of IMS: sizes.                                               *)

\* A finite set of numbers has a largest one.
LEMMA MaxIs ==
    ASSUME NEW ns \in SUBSET Nat, IsFiniteSet(ns), ns # {}
    PROVE  Max(ns) \in ns /\ \A n \in ns : n <= Max(ns)
<1>. DEFINE above(n) == {m \in ns : m > n}
            sets == {above(n) : n \in ns}
<1>1. sets # {} /\ sets \subseteq FiniteSubsetsOf(ns)
  <2>1. FiniteSubsetsOf(ns) = SUBSET ns
    BY FS_FiniteSubsetsOfFinite
  <2>2. \A n \in ns : above(n) \in SUBSET ns
    OBVIOUS
  <2>3. \A n \in ns : above(n) \in sets
    OBVIOUS
  <2>4. sets \subseteq SUBSET ns
    BY <2>2
  <2>. HIDE DEF sets
  <2>. QED BY <2>1, <2>3, <2>4
<1>2. PICK least \in sets : \A s \in sets : <<s, least>> \notin StrictSubsetOrdering(ns)
  <2>. HIDE DEF sets
  <2>. QED BY <1>1, FS_StrictSubsetOrderingWellFounded, WFMin
<1>3. PICK n \in ns : least = above(n)
  OBVIOUS
<1>4. ASSUME NEW m \in ns, m > n PROVE FALSE
  <2>0. m \in above(n) /\ m \notin above(m)
    BY <1>4
  <2>1. above(m) \subseteq above(n) /\ above(m) # above(n) /\ above(n) \subseteq ns
    <3>1. ASSUME NEW k \in above(m) PROVE k \in above(n)
      <4>1. k \in Nat /\ m \in Nat /\ n \in Nat /\ k \in ns /\ k > m
        OBVIOUS
      <4>2. k > n
        BY <1>4, <4>1
      <4>. QED BY <4>1, <4>2
    <3>2. above(n) \subseteq ns
      OBVIOUS
    <3>. HIDE DEF above
    <3>. QED BY <2>0, <3>1, <3>2
  <2>2. <<above(m), above(n)>> \in StrictSubsetOrdering(ns)
    <3>. HIDE DEF above
    <3>. QED BY <2>1 DEF StrictSubsetOrdering
  <2>. QED BY <1>2, <1>3, <2>2
<1>5. \A m \in ns : n >= m
  BY <1>4
<1>6. \E x \in ns : \A y \in ns : x >= y
  BY <1>5
<1>. QED BY <1>6 DEF Max

LEMMA ListedFacts ==
    ASSUME ExportTyped, NEW urls \in SUBSET Url
    PROVE  /\ Sized(AsListed(urls))
           /\ \A u \in urls : <<u, u, size[u]>> \in AsListed(urls) /\ size[u] \in Nat
           /\ \A f \in AsListed(urls) : f[2] \in urls /\ f = <<f[2], f[2], size[f[2]]>>
<1>1. \A f \in AsListed(urls) : f[2] \in urls /\ f = <<f[2], f[2], size[f[2]]>>
  BY DEF AsListed
<1>2. \A u \in urls : <<u, u, size[u]>> \in AsListed(urls) /\ size[u] \in Nat
  BY DEF AsListed, ExportTyped
<1>3. IsFiniteSet(AsListed(urls))
  <2>1. IsFiniteSet(urls)
    BY ExportAssumption, FS_Subset
  <2>. DEFINE listed == [u \in urls |-> <<u, u, size[u]>>]
  <2>2. listed \in Surjection(urls, AsListed(urls))
    BY DEF AsListed, Surjection
  <2>. HIDE DEF listed
  <2>. QED BY <2>1, <2>2, FS_Surjection
<1>4. \A f \in AsListed(urls) : f[3] \in Nat
  BY DEF AsListed, ExportTyped
<1>. QED BY <1>1, <1>2, <1>3, <1>4 DEF Sized

LEMMA InArchiveFacts ==
    ASSUME ExportTyped
    PROVE  /\ InArchive \in Nat
           /\ export.tar => JsonBytes <= InArchive /\ \A u \in AllUrls : size[u] <= InArchive
<1>. DEFINE sizes == {JsonBytes} \cup {f[3] : f \in AsListed(AllUrls)}
<1>1. Sized(AsListed(AllUrls)) /\ AllUrls \subseteq Url
  BY ListedFacts, UrlsTyped
<1>2. IsFiniteSet({f[3] : f \in AsListed(AllUrls)})
  <2>. DEFINE third == [f \in AsListed(AllUrls) |-> f[3]]
  <2>1. third \in Surjection(AsListed(AllUrls), {f[3] : f \in AsListed(AllUrls)})
    BY DEF Surjection
  <2>. HIDE DEF third
  <2>. QED BY <1>1, <2>1, FS_Surjection DEF Sized
<1>3. JsonBytes \in Nat
  BY ExportAssumption
<1>4. sizes \in SUBSET Nat /\ sizes # {} /\ JsonBytes \in sizes
  BY <1>1, <1>3 DEF Sized
<1>5. IsFiniteSet(sizes)
  <2>. DEFINE third == {f[3] : f \in AsListed(AllUrls)}
  <2>1. IsFiniteSet({JsonBytes}) /\ IsFiniteSet(third)
    BY <1>2, FS_Singleton
  <2>. HIDE DEF third
  <2>2. IsFiniteSet({JsonBytes} \cup third)
    BY <2>1, FS_Union
  <2>. QED BY <2>2 DEF third
<1>6. \A u \in AllUrls : size[u] \in sizes
  <2>. TAKE u \in AllUrls
  <2>1. <<u, u, size[u]>> \in AsListed(AllUrls)
    BY <1>1, ListedFacts
  <2>. QED BY <2>1
<1>. HIDE DEF sizes
<1>7. Max(sizes) \in sizes /\ \A n \in sizes : n <= Max(sizes)
  BY <1>4, <1>5, MaxIs
<1>8. InArchive = IF export.tar THEN Max(sizes) ELSE 0
  BY DEF InArchive, sizes
<1>. QED BY <1>4, <1>6, <1>7, <1>8

LEMMA EstimateIs ==
    estimate_required_space =
        <<JsonBytes + InArchive + Headroom + Bytes(AsListed(undownloaded_s3_urls)),
          JsonBytes + InArchive + Headroom + Bytes(AsListed(AllUrls))>>
BY DEF estimate_required_space, InArchive, AsListed, AllUrls

\* A step that writes a file.
LEMMA WriteTyped ==
    ASSUME ExportTyped, export.at \in {"manifests", "download", "json"},
           NEW file \in ArtifactFile \cup {JsonFile},
           export.at # "json" => file \in ArtifactFile,
           NEW next, RunStays(next),
           next.at \in IF export.at = "json" THEN {"tar", "done"} ELSE {export.at},
           WriteFile(file[1], file[2], file[3], next)
    PROVE  ExportTyped'
<1>. DEFINE others == {f \in files : f[1] # file[1]}
<1>1. CASE ExportOnly(ExportFail("disk full"))
  BY <1>1, FailingStays, RunTyped
<1>2. CASE /\ files' = others \cup {file} /\ export' = next
           /\ UNCHANGED <<linked, size, archive, disk, urlEdits>>
  <2>1. files' \subseteq ArtifactFile \cup {JsonFile} /\ IsFiniteSet(files')
    <3>1. IsFiniteSet(others)
      BY FS_Subset DEF ExportTyped
    <3>2. IsFiniteSet(others \cup {file})
      <4>. HIDE DEF others
      <4>. QED BY <3>1, FS_AddElement
    <3>. QED BY <1>2, <3>2 DEF ExportTyped
  <2>2. \A f, g \in files' : f[1] = g[1] => f = g
    BY <1>2 DEF ExportTyped
  <2>3. export'.at \notin {"tar", "done", "failed"} => files' \subseteq ArtifactFile /\ archive' = {}
    BY <1>2 DEF ExportTyped
  <2>4. /\ export' \in ExportRecord /\ export'.todo \subseteq DOMAIN export'.relpath
        /\ export'.at \in {"manifests", "estimate"} => DOMAIN export'.relpath = export'.images
        /\ ExportAt(Verified)' =>
             export'.images \cup export'.recipes \subseteq DOMAIN export'.relpath
        /\ export'.at \notin {"manifests", "download", "tar", "failed"} => export'.todo = {}
        /\ export'.at \notin {"idle", "bos", "bss", "catalog", "plan"}
        /\ export'.at \in {"bos", "bss", "catalog", "plan", "manifests", "estimate", "download"} =>
             export'.artifacts
    BY <1>2 DEF RunStays, ExportAt
  <2>5. /\ \A l \in LinkKind : linked'[l] \subseteq Url
        /\ size' \in [Url -> Nat] /\ disk' \in Nat /\ urlEdits' \in 0..MaxUrlEdits
        /\ archive' \subseteq ArtifactFile \cup {JsonFile} /\ IsFiniteSet(archive')
    BY <1>2 DEF ExportTyped
  <2>. QED BY <2>1, <2>2, <2>3, <2>4, <2>5 DEF ExportTyped
<1>3. file = <<file[1], file[2], file[3]>>
  BY DEF ArtifactFile, JsonFile
<1>. QED BY <1>1, <1>2, <1>3 DEF WriteFile

\* What a download writes.
LEMMA DownloadFacts ==
    ASSUME ExportTyped, export.at \in {"manifests", "download"}, NEW u \in export.todo
    PROVE  /\ u \in Url /\ u \in DOMAIN export.relpath /\ export.relpath[u] \in LocalName
           /\ <<export.relpath[u], u, size[u]>> \in ArtifactFile
           /\ RunStays([export EXCEPT !.todo = @ \ {u}])
           /\ [export EXCEPT !.todo = @ \ {u}].at = export.at
<1>1. u \in Url /\ u \in DOMAIN export.relpath
  BY DEF ExportTyped, ExportRecord
<1>2. PICK old \in SUBSET Url : export.relpath \in [old -> LocalName]
  BY DEF ExportTyped, ExportRecord, RelPaths
<1>3. export.relpath[u] \in LocalName
  BY <1>1, <1>2
<1>4. <<export.relpath[u], u, size[u]>> \in ArtifactFile
  BY <1>1, <1>3 DEF ArtifactFile, ExportTyped
<1>. DEFINE next == [export EXCEPT !.todo = @ \ {u}]
<1>5. /\ next \in ExportRecord /\ next.at = export.at /\ next.artifacts = export.artifacts
      /\ next.todo = export.todo \ {u} /\ next.relpath = export.relpath
      /\ next.images = export.images /\ next.recipes = export.recipes
  BY DEF ExportTyped, ExportRecord
<1>6. RunStays(next)
  <2>. HIDE DEF next
  <2>. QED BY <1>5 DEF RunStays, ExportTyped, ExportAt, Verified
<1>. QED BY <1>1, <1>3, <1>4, <1>5, <1>6

LEMMA DownloadTyped == ExportTyped /\ download => ExportTyped'
<1>. SUFFICES ASSUME ExportTyped, download PROVE ExportTyped'
  OBVIOUS
<1>0. export.at \in {"manifests", "download"} /\ export.artifacts
  BY DEF download, ExportTyped
<1>1. CASE /\ export.todo = {}
           /\ ExportOnly(ExportGo(IF export.at = "manifests" THEN "estimate" ELSE "json"))
  <2>. DEFINE next == ExportGo(IF export.at = "manifests" THEN "estimate" ELSE "json")
  <2>1. /\ next \in ExportRecord /\ next.artifacts = export.artifacts /\ next.todo = export.todo
        /\ next.at = (IF export.at = "manifests" THEN "estimate" ELSE "json")
        /\ next.relpath = export.relpath /\ next.images = export.images
        /\ next.recipes = export.recipes
    BY <1>0 DEF ExportGo, ExportTyped, ExportRecord, ExportPlaces
  <2>2. export.at = "download" => export.images \cup export.recipes \subseteq DOMAIN export.relpath
    BY <1>0 DEF ExportTyped, ExportAt, Verified
  <2>3. RunStays(next)
    <3>. HIDE DEF next
    <3>. QED BY <1>0, <1>1, <2>1, <2>2 DEF RunStays, ExportTyped, ExportAt, Verified
  <2>. QED BY <1>1, <2>3, RunTyped
<1>2. ASSUME NEW u \in export.todo, size[u] = 0, ExportOnly(ExportFail("gone"))
      PROVE  ExportTyped'
  BY <1>2, FailingStays, RunTyped
<1>3. ASSUME NEW u \in export.todo,
             WriteFile(export.relpath[u], u, size[u], [export EXCEPT !.todo = @ \ {u}])
      PROVE  ExportTyped'
  <2>. DEFINE file == <<export.relpath[u], u, size[u]>>
              next == [export EXCEPT !.todo = @ \ {u}]
  <2>1. file \in ArtifactFile /\ RunStays(next) /\ next.at = export.at
    BY <1>0, DownloadFacts
  <2>2. WriteFile(file[1], file[2], file[3], next)
    BY <1>3
  <2>. HIDE DEF file, next
  <2>. QED BY <1>0, <2>1, <2>2, WriteTyped
<1>. QED BY <1>1, <1>2, <1>3 DEF download

LEMMA EstimatesTyped ==
    ASSUME ExportTyped
    PROVE  estimate_required_space \in Nat \X Nat
<1>1. \A urls \in SUBSET Url : Sized(AsListed(urls))
  BY ListedFacts
<1>2. \A urls \in SUBSET Url : Bytes(AsListed(urls)) \in Nat
  BY <1>1, BytesFacts
<1>3. InArchive \in Nat
  BY InArchiveFacts
<1>4. /\ Bytes(AsListed(undownloaded_s3_urls)) \in Nat /\ Bytes(AsListed(AllUrls)) \in Nat
      /\ JsonBytes \in Nat /\ Headroom \in Nat
  BY <1>2, UrlsTyped, ExportAssumption
<1>. QED BY <1>3, <1>4, EstimateIs

LEMMA VerifyTyped == ExportTyped /\ verify_free_space => ExportTyped'
<1>. SUFFICES ASSUME ExportTyped, verify_free_space PROVE ExportTyped'
  OBVIOUS
<1>. DEFINE base == [ExportGo("download") EXCEPT !.estimates = estimate_required_space,
                                                 !.edited = Outgrown]
            next == ToDownload(base, undownloaded_s3_urls)
<1>1. export.at = "estimate"
  BY DEF verify_free_space
<1>2. CASE ExportOnly(ExportFail("unlisted")) \/ ExportOnly(ExportFail("no room"))
  BY <1>2, FailingStays, RunTyped
<1>3. CASE ExportOnly(next)
  <2>1. Outgrown \in BOOLEAN
    BY DEF Outgrown
  <2>2. /\ base \in ExportRecord /\ base.at = "download" /\ base.artifacts = export.artifacts
        /\ base.relpath = export.relpath /\ base.images = export.images
        /\ base.recipes = export.recipes
    BY <2>1, EstimatesTyped DEF ExportGo, ExportTyped, ExportRecord, ExportPlaces
  <2>. HIDE DEF base
  <2>. DEFINE paths == next.relpath
  <2>3. /\ next = [base EXCEPT !.todo = undownloaded_s3_urls, !.relpath = paths]
        /\ next \in ExportRecord /\ next.todo = undownloaded_s3_urls
        /\ DOMAIN paths = undownloaded_s3_urls \cup DOMAIN base.relpath
    <3>1. base \in ExportRecord /\ undownloaded_s3_urls \in SUBSET Url
      BY <2>2, UrlsTyped
    <3>. QED BY <3>1, PathsTyped
  <2>4. next.relpath = paths
    OBVIOUS
  <2>. HIDE DEF next, paths
  <2>5. /\ next.at = base.at /\ next.artifacts = base.artifacts
        /\ next.images = base.images /\ next.recipes = base.recipes
    BY <2>2, <2>3 DEF ExportRecord
  <2>6. export.images = DOMAIN export.relpath
    BY <1>1 DEF ExportTyped
  <2>7. next.images \cup next.recipes \subseteq DOMAIN next.relpath
    BY <2>2, <2>3, <2>4, <2>5, <2>6 DEF undownloaded_s3_urls
  <2>8. files \subseteq ArtifactFile /\ archive = {}
    BY <1>1 DEF ExportTyped
  <2>9. RunStays(next)
    BY <1>1, <2>2, <2>3, <2>4, <2>5, <2>7, <2>8 DEF RunStays, ExportTyped
  <2>. QED BY <1>3, <2>9, RunTyped
<1>. QED BY <1>2, <1>3 DEF verify_free_space

LEMMA WriteDataTyped == ExportTyped /\ write_exported_data => ExportTyped'
<1>. SUFFICES ASSUME ExportTyped, write_exported_data PROVE ExportTyped'
  OBVIOUS
<1>. DEFINE next == IF export.tar THEN [ExportGo("tar") EXCEPT !.todo = DOMAIN export.relpath]
                    ELSE ExportGo("done")
<1>1. export.at = "json" /\ WriteFile(JsonFile[1], JsonFile[2], JsonFile[3], next)
  BY DEF write_exported_data, JsonFile
<1>2. DOMAIN export.relpath \subseteq Url
  <2>1. PICK old \in SUBSET Url : export.relpath \in [old -> LocalName]
    BY DEF ExportTyped, ExportRecord, RelPaths
  <2>. QED BY <2>1
<1>3. /\ next \in ExportRecord /\ next.at = IF export.tar THEN "tar" ELSE "done"
      /\ next.todo = IF export.tar THEN DOMAIN export.relpath ELSE export.todo
      /\ next.relpath = export.relpath /\ next.artifacts = export.artifacts
      /\ next.images = export.images /\ next.recipes = export.recipes
  BY <1>2 DEF ExportGo, ExportTyped, ExportRecord, ExportPlaces
<1>4. RunStays(next)
  <2>. HIDE DEF next
  <2>. QED BY <1>1, <1>3 DEF RunStays, ExportTyped, ExportAt, Verified
<1>. HIDE DEF next
<1>. QED BY <1>1, <1>3, <1>4, WriteTyped

\* A step that moves a file into the archive.
LEMMA ArchivedTyped ==
    ASSUME ExportTyped, export.at = "tar", NEW name, NEW next, RunStays(next),
           next.at \in {"tar", "done"}, Archived(name, next)
    PROVE  ExportTyped'
<1>1. CASE ExportOnly(ExportFail("file lost")) \/ ExportOnly(ExportFail("disk full"))
  BY <1>1, FailingStays, RunTyped
<1>2. ASSUME NEW f \in files,
             archive' = archive \cup {f}, files' = files \ {f}, export' = next,
             UNCHANGED <<linked, size, disk, urlEdits>>
      PROVE  ExportTyped'
  <2>1. IsFiniteSet(files') /\ IsFiniteSet(archive')
    BY <1>2, FS_AddElement, FS_RemoveElement DEF ExportTyped
  <2>2. /\ files' \subseteq ArtifactFile \cup {JsonFile}
        /\ archive' \subseteq ArtifactFile \cup {JsonFile}
        /\ \A g, h \in files' : g[1] = h[1] => g = h
    BY <1>2 DEF ExportTyped
  <2>3. /\ export' \in ExportRecord /\ export'.todo \subseteq DOMAIN export'.relpath
        /\ export'.at \in {"manifests", "estimate"} => DOMAIN export'.relpath = export'.images
        /\ ExportAt(Verified)' =>
             export'.images \cup export'.recipes \subseteq DOMAIN export'.relpath
        /\ export'.at \in {"tar", "done"}
        /\ export'.at \notin {"manifests", "download", "tar", "failed"} => export'.todo = {}
    BY <1>2 DEF RunStays, ExportAt
  <2>4. /\ \A l \in LinkKind : linked'[l] \subseteq Url
        /\ size' \in [Url -> Nat] /\ disk' \in Nat /\ urlEdits' \in 0..MaxUrlEdits
    BY <1>2 DEF ExportTyped
  <2>. QED BY <2>1, <2>2, <2>3, <2>4 DEF ExportTyped
<1>. QED BY <1>1, <1>2 DEF Archived

\* What the steps of the archive do to the run.
LEMMA ArchiveRuns ==
    ASSUME ExportTyped, export.at = "tar"
    PROVE  /\ export.todo = {} => RunStays(ExportGo("done")) /\ ExportGo("done").at = "done"
           /\ \A u \in export.todo : /\ RunStays([export EXCEPT !.todo = @ \ {u}])
                                     /\ [export EXCEPT !.todo = @ \ {u}].at = "tar"
<1>1. ASSUME export.todo = {}
      PROVE  RunStays(ExportGo("done")) /\ ExportGo("done").at = "done"
  <2>1. /\ ExportGo("done") \in ExportRecord /\ ExportGo("done").at = "done"
        /\ ExportGo("done").todo = export.todo /\ ExportGo("done").relpath = export.relpath
        /\ ExportGo("done").artifacts = export.artifacts
        /\ ExportGo("done").images = export.images /\ ExportGo("done").recipes = export.recipes
    BY DEF ExportGo, ExportTyped, ExportRecord, ExportPlaces
  <2>. QED BY <1>1, <2>1 DEF RunStays, ExportTyped, ExportAt, Verified
<1>2. ASSUME NEW u \in export.todo
      PROVE  /\ RunStays([export EXCEPT !.todo = @ \ {u}])
             /\ [export EXCEPT !.todo = @ \ {u}].at = "tar"
  <2>. DEFINE next == [export EXCEPT !.todo = @ \ {u}]
  <2>1. /\ next \in ExportRecord /\ next.at = "tar" /\ next.todo = export.todo \ {u}
        /\ next.relpath = export.relpath /\ next.artifacts = export.artifacts
        /\ next.images = export.images /\ next.recipes = export.recipes
    BY DEF ExportTyped, ExportRecord
  <2>. HIDE DEF next
  <2>2. RunStays(next)
    BY <2>1 DEF RunStays, ExportTyped, ExportAt, Verified
  <2>. QED BY <2>1, <2>2 DEF next
<1>. QED BY <1>1, <1>2

LEMMA WriteTarTyped == ExportTyped /\ write_tarfile => ExportTyped'
<1>. SUFFICES ASSUME ExportTyped, write_tarfile PROVE ExportTyped'
  OBVIOUS
<1>1. export.at = "tar"
  BY DEF write_tarfile
<1>2. CASE export.todo = {} /\ Archived(DataFile, ExportGo("done"))
  BY <1>1, <1>2, ArchiveRuns, ArchivedTyped
<1>3. ASSUME NEW u \in export.todo,
             Archived(export.relpath[u], [export EXCEPT !.todo = @ \ {u}])
      PROVE  ExportTyped'
  <2>. DEFINE next == [export EXCEPT !.todo = @ \ {u}]
  <2>1. RunStays(next) /\ next.at = "tar" /\ Archived(export.relpath[u], next)
    BY <1>1, <1>3, ArchiveRuns
  <2>. HIDE DEF next
  <2>. QED BY <1>1, <2>1, ArchivedTyped
<1>. QED BY <1>2, <1>3 DEF write_tarfile

LEMMA UrlEditedTyped ==
    ASSUME ExportTyped, NEW u \in Url, UrlEdited(u)
    PROVE  ExportTyped'
<1>1. size' \in [Url -> Nat]
  BY DEF UrlEdited, ExportTyped
<1>2. urlEdits' \in 0..MaxUrlEdits
  <2>1. MaxUrlEdits \in Nat
    BY ExportAssumption
  <2>. QED BY <2>1 DEF UrlEdited, ExportTyped
<1>3. UNCHANGED <<linked, files, archive, disk>>
  BY DEF UrlEdited
<1>4. /\ export' \in ExportRecord /\ export'.at = export.at /\ export'.todo = export.todo
      /\ export'.relpath = export.relpath /\ export'.artifacts = export.artifacts
      /\ export'.images = export.images /\ export'.recipes = export.recipes
  BY DEF UrlEdited, ExportTyped, ExportRecord
<1>5. ExportAt(Verified)' => export'.images \cup export'.recipes \subseteq DOMAIN export'.relpath
  BY <1>4 DEF ExportTyped, ExportAt
<1>6. /\ export'.todo \subseteq DOMAIN export'.relpath
      /\ export'.at \in {"manifests", "estimate"} => DOMAIN export'.relpath = export'.images
      /\ export'.at \notin {"tar", "done", "failed"} => files' \subseteq ArtifactFile /\ archive' = {}
      /\ export'.at \notin {"manifests", "download", "tar", "failed"} => export'.todo = {}
      /\ export'.at \in {"idle", "bos", "bss", "catalog", "plan"} =>
           files' = {} /\ DOMAIN export'.relpath = {}
      /\ export'.at \in {"bos", "bss", "catalog", "plan", "manifests", "estimate", "download"} =>
           export'.artifacts
  BY <1>3, <1>4 DEF ExportTyped
<1>7. /\ \A l \in LinkKind : linked'[l] \subseteq Url
      /\ disk' \in Nat
      /\ files' \subseteq ArtifactFile \cup {JsonFile}
      /\ archive' \subseteq ArtifactFile \cup {JsonFile}
      /\ IsFiniteSet(files') /\ IsFiniteSet(archive')
      /\ \A f, g \in files' : f[1] = g[1] => f = g
  BY <1>3 DEF ExportTyped
<1>. QED BY <1>1, <1>2, <1>4, <1>5, <1>6, <1>7 DEF ExportTyped

LEMMA ExportTypedNext == ExportTyped /\ [ExportNext]_exportVars => ExportTyped'
<1>. SUFFICES ASSUME ExportTyped, [ExportNext]_exportVars PROVE ExportTyped'
  OBVIOUS
<1>1. CASE do_export
  BY <1>1, LinksTypedStep, PlanTyped, DownloadTyped, VerifyTyped, WriteDataTyped, WriteTarTyped
     DEF do_export
<1>2. CASE UNCHANGED exportVars
  BY <1>2 DEF exportVars, ExportTyped, ExportAt
<1>. QED BY <1>1, <1>2, StartTyped, UrlEditedTyped DEF ExportNext

\* The export keeps its state well-formed: it has a path for every artifact of images
\* and recipes when it writes the data, and no two files have one name.
THEOREM ExportTypeCorrect == ExportSpec => []ExportTypeOK
<1>1. ExportTyped => ExportTypeOK
  <2>. SUFFICES ASSUME ExportTyped PROVE ExportTypeOK
    OBVIOUS
  <2>1. /\ export.at \in ExportPlaces
        /\ export.images \cup export.recipes \cup export.links \subseteq Url
        /\ export.why \in {"nothing", "gone", "unlisted", "no room", "disk full", "file lost"}
    BY DEF ExportTyped, ExportRecord
  <2>2. \A f \in files \cup archive : f[2] \in Url \cup {"data"} /\ f[3] \in Nat
    <3>1. JsonBytes \in Nat
      BY ExportAssumption
    <3>2. \A f \in ArtifactFile \cup {JsonFile} : f[2] \in Url \cup {"data"} /\ f[3] \in Nat
      BY <3>1 DEF ArtifactFile, JsonFile
    <3>. QED BY <3>2 DEF ExportTyped
  <2>3. /\ export.todo \subseteq DOMAIN export.relpath
        /\ export.at \in {"json", "tar", "done"} /\ export.artifacts =>
             export.images \cup export.recipes \subseteq DOMAIN export.relpath
        /\ \A f, g \in files : f[1] = g[1] => f = g
        /\ urlEdits \in 0..MaxUrlEdits
    BY DEF ExportTyped, ExportAt, Verified
  <2>. QED BY <2>1, <2>2, <2>3 DEF ExportTypeOK
<1>. QED BY <1>1, ExportTypedInit, ExportTypedNext, PTL DEF ExportSpec

-----------------------------------------------------------------------------
(* The export of IMS: what is exported can be imported.                    *)

Importable == LinksHaveSorts /\ LinksAreKnown /\ PathsAreApart /\ Downloaded

LEMMA ImportableInit == NamesApart /\ ExportInit => Importable
<1>. SUFFICES ASSUME NamesApart, ExportInit PROVE Importable
  OBVIOUS
<1>1. PICK sys \in LinkSystems : linked = [x \in DOMAIN sys \ {"size"} |-> sys[x]]
  BY DEF ExportInit
<1>2. \A l \in LinkKind : linked[l] = sys[l]
  BY <1>1, LinksTyped
<1>3. export = NewExport
  BY DEF ExportInit
<1>4. LinksHaveSorts
  BY <1>2, <1>3 DEF LinksHaveSorts, NamesApart, LinkKind, NewExport
<1>. QED BY <1>3, <1>4 DEF Importable, LinksAreKnown, PathsAreApart, Downloaded, NewExport, ExportAt,
                           Collected, Verified

\* Nothing is promised of an export that has failed.
LEMMA FailedIsImportable ==
    ASSUME Importable, ExportTyped, NEW why, ExportOnly(ExportFail(why))
    PROVE  Importable'
<1>1. /\ export'.at = "failed" /\ export'.images = export.images /\ export'.recipes = export.recipes
      /\ UNCHANGED linked
  BY DEF ExportOnly, ExportFail, ExportTyped, ExportRecord
<1>. QED BY <1>1 DEF Importable, LinksHaveSorts, LinksAreKnown, PathsAreApart, Downloaded, ExportAt,
                     Collected, Verified

\* Neither is anything lost when the run goes on with the links, paths and files
\* that it has.
LEMMA KeptIsImportable ==
    ASSUME Importable, NEW todo,
           export'.at \in Collected, export.at \in Collected,
           export'.at \in {"manifests", "estimate"} => export.at \in {"manifests", "estimate"},
           export'.at \in Verified => export.at \in Verified,
           export'.artifacts = export.artifacts, export'.images = export.images,
           export'.recipes = export.recipes, export'.links = export.links,
           export'.relpath = export.relpath, linked' = linked,
           ExportAt(Collected) =>
             \A u \in DOMAIN export.relpath :
                 \/ export'.at \in {"manifests", "download"} /\ u \in export'.todo
                 \/ \E f \in Kept' : f[1] = export.relpath[u] /\ f[2] = u
    PROVE  Importable'
<1>1. LinksHaveSorts'
  BY DEF Importable, LinksHaveSorts
<1>2. LinksAreKnown'
  <2>1. export.at \in ExportPlaces \ {"idle", "failed"}
    BY DEF ExportPlaces, Collected, Verified
  <2>. QED BY <2>1 DEF Importable, LinksAreKnown, ExportAt
<1>4. PathsAreApart'
  <2>1. get_child_urls_from_manifests' = get_child_urls_from_manifests
    BY DEF get_child_urls_from_manifests
  <2>2. ASSUME export'.at \in {"manifests", "estimate"}, export'.artifacts,
               NEW u \in export'.images
        PROVE  export'.relpath[u] = <<Basename[u], "">>
    BY <2>2 DEF Importable, PathsAreApart, ExportAt
  <2>4. ASSUME export'.at \in Collected, export'.artifacts, NEW u \in DOMAIN export'.relpath,
               NEW v \in DOMAIN export'.relpath, export'.relpath[u] = export'.relpath[v]
        PROVE  u = v
    <3>1. /\ export.at \in Collected /\ export.artifacts
          /\ u \in DOMAIN export.relpath /\ v \in DOMAIN export.relpath
          /\ export.relpath[u] = export.relpath[v]
      BY <2>4
    <3>. QED BY <3>1 DEF Importable, PathsAreApart, ExportAt
  <2>3. export'.at \in Verified /\ export'.artifacts =>
          DOMAIN export'.relpath = export'.images \cup export'.recipes
                                   \cup get_child_urls_from_manifests'
    BY <2>1 DEF Importable, PathsAreApart, ExportAt
  <2>. QED BY <2>2, <2>3, <2>4 DEF PathsAreApart, ExportAt
<1>3. Downloaded'
  BY DEF Downloaded, ExportAt
<1>. QED BY <1>1, <1>2, <1>3, <1>4 DEF Importable

LEMMA StartImportable ==
    ASSUME Importable, ExportTyped,
           NEW artifacts \in BOOLEAN, NEW tar \in BOOLEAN, NEW deleted \in BOOLEAN,
           StartExport(artifacts, tar, deleted)
    PROVE  Importable'
<1>1. /\ export'.at = (IF artifacts THEN "bos" ELSE "json") /\ export'.artifacts = artifacts
      /\ export'.images = linked.images \cup (IF deleted THEN linked.deletedImages ELSE {})
      /\ export'.recipes = linked.recipes \cup (IF deleted THEN linked.deletedRecipes ELSE {})
      /\ UNCHANGED linked
  BY DEF StartExport, ExportOnly, ExportTyped, ExportRecord
<1>2. LinksHaveSorts'
  BY <1>1 DEF Importable, LinksHaveSorts
<1>3. LinksAreKnown' /\ PathsAreApart' /\ Downloaded'
  BY <1>1 DEF LinksAreKnown, PathsAreApart, Downloaded, ExportAt, Collected, Verified
<1>. QED BY <1>2, <1>3 DEF Importable

LEMMA LinksImportable == Importable /\ ExportTyped /\ get_all_s3_links => Importable'
<1>. SUFFICES ASSUME Importable, ExportTyped, get_all_s3_links PROVE Importable'
  OBVIOUS
<1>1. /\ export'.at \in {"bss", "catalog", "plan"} /\ export'.artifacts = export.artifacts
      /\ export'.images = export.images /\ export'.recipes = export.recipes
      /\ UNCHANGED linked
  BY DEF get_all_s3_links, ExportOnly, ExportTyped, ExportRecord
<1>2. export.at \in ExportPlaces \ {"idle", "failed"}
  BY DEF get_all_s3_links, ExportPlaces
<1>. QED BY <1>1, <1>2 DEF Importable, LinksHaveSorts, LinksAreKnown, PathsAreApart, Downloaded,
                           ExportAt, Collected, Verified

\* The names of images are those of their keys, for there are no files yet, and the
\* names of manifests are different.
LEMMA PlanImportable == NamesApart /\ Importable /\ ExportTyped /\ plan_manifests => Importable'
<1>. SUFFICES ASSUME NamesApart, Importable, ExportTyped, plan_manifests PROVE Importable'
  OBVIOUS
<1>. DEFINE images == export.images \cup (export.links \cap ManifestName)
            base == [get_image_recipe_s3_urls EXCEPT !.at = "manifests"]
<1>1. /\ get_image_recipe_s3_urls \in ExportRecord
      /\ get_image_recipe_s3_urls.images = images
      /\ get_image_recipe_s3_urls.relpath = export.relpath
  BY DEF get_image_recipe_s3_urls, ExportTyped, ExportRecord
<1>2. /\ base \in ExportRecord /\ base.at = "manifests" /\ base.relpath = export.relpath
      /\ base.artifacts = export.artifacts /\ base.images = images /\ base.links = export.links
      /\ base.recipes = export.recipes \cup (export.links \ ManifestName)
  BY DEF get_image_recipe_s3_urls, ExportTyped, ExportRecord, ExportPlaces
<1>3. images \in SUBSET Url
  BY DEF ExportTyped, ExportRecord
<1>4. export.at = "plan" /\ ExportOnly(ToDownload(base, images))
  BY <1>1 DEF plan_manifests
<1>. HIDE DEF base, images
<1>5. /\ export' = [base EXCEPT !.todo = images, !.relpath = export'.relpath]
      /\ export'.todo = images
      /\ DOMAIN export'.relpath = images \cup DOMAIN base.relpath
      /\ \A u \in images : export'.relpath[u] = generate_artifact_local_path(u)
      /\ UNCHANGED linked
  <2>1. export' = ToDownload(base, images) /\ UNCHANGED linked
    BY <1>4 DEF ExportOnly
  <2>. DEFINE next == ToDownload(base, images)
              paths == next.relpath
  <2>2. /\ next = [base EXCEPT !.todo = images, !.relpath = paths] /\ next.todo = images
        /\ DOMAIN paths = images \cup DOMAIN base.relpath
        /\ \A u \in images : paths[u] = generate_artifact_local_path(u)
    BY <1>2, <1>3, PathsTyped
  <2>. HIDE DEF next
  <2>. QED BY <2>1, <2>2 DEF next
<1>6. DOMAIN export'.relpath = images /\ files = {}
  BY <1>2, <1>4, <1>5 DEF ExportTyped
<1>7. \A u \in images : export'.relpath[u] = <<Basename[u], "">>
  BY <1>5, <1>6 DEF generate_artifact_local_path
<1>8. /\ export'.at = "manifests" /\ export'.artifacts = export.artifacts
      /\ export'.images = images /\ export'.links = export.links
      /\ export'.recipes = export.recipes \cup (export.links \ ManifestName)
  BY <1>2, <1>5 DEF ExportRecord
<1>9. images \subseteq ManifestName /\ export.images \subseteq images
      /\ export.links \cap ManifestName \subseteq images
  BY DEF images, Importable, LinksHaveSorts
<1>10. LinksHaveSorts'
  BY <1>5, <1>8, <1>9 DEF Importable, LinksHaveSorts
<1>11. LinksAreKnown'
  <2>1. ExportAt(ExportPlaces \ {"idle", "failed"})' => ExportAt(ExportPlaces \ {"idle", "failed"})
    BY <1>4, <1>8 DEF ExportAt, ExportPlaces
  <2>2. export'.links \subseteq export'.images \cup export'.recipes
    BY <1>8, <1>9
  <2>. QED BY <1>5, <1>8, <1>9, <2>1, <2>2 DEF Importable, LinksAreKnown
<1>12. PathsAreApart'
  <2>1. \A u, v \in images : export'.relpath[u] = export'.relpath[v] => u = v
    <3>. TAKE u, v \in images
    <3>1. u \in Url /\ v \in Url /\ u \in ManifestName /\ v \in ManifestName
      BY <1>3, <1>9
    <3>2. export'.relpath[u] = export'.relpath[v] => Basename[u] = Basename[v]
      <4>1. export'.relpath[u] = <<Basename[u], "">>
        BY <1>7
      <4>2. export'.relpath[v] = <<Basename[v], "">>
        BY <1>7
      <4>3. <<Basename[u], "">> = <<Basename[v], "">> => Basename[u] = Basename[v]
        OBVIOUS
      <4>. QED BY <4>1, <4>2, <4>3
    <3>. QED BY <3>1, <3>2 DEF NamesApart
  <2>. QED BY <1>6, <1>7, <1>8, <2>1 DEF PathsAreApart, ExportAt, Verified
<1>13. Downloaded'
  BY <1>5, <1>6, <1>8 DEF Downloaded
<1>. QED BY <1>10, <1>11, <1>12, <1>13 DEF Importable

\* Paths of artifacts differ from each other, and from that of the data.
LEMMA PathsDiffer ==
    ASSUME Importable, ExportTyped, ExportAt(Collected), NEW u \in DOMAIN export.relpath
    PROVE  /\ DataFile # export.relpath[u]
           /\ \A v \in DOMAIN export.relpath : export.relpath[u] = export.relpath[v] => u = v
<1>1. PICK old \in SUBSET Url : export.relpath \in [old -> LocalName]
  BY DEF ExportTyped, ExportRecord, RelPaths
<1>2. export.relpath[u] \in LocalName
  BY <1>1
<1>3. DataFile \notin LocalName
  <2>1. "exported-data.json" \notin {Basename[v] : v \in Url}
    BY ExportAssumption
  <2>. QED BY <2>1 DEF DataFile, LocalName
<1>. QED BY <1>2, <1>3 DEF Importable, PathsAreApart

\* A written file replaces only what has its name, which is no other artifact's.
LEMMA WriteImportable ==
    ASSUME Importable, ExportTyped, export.at \in {"manifests", "download", "json"},
           NEW file, file = <<file[1], file[2], file[3]>>,
           \/ file[1] = DataFile /\ export.todo = {}
           \/ file[2] \in DOMAIN export.relpath /\ file[1] = export.relpath[file[2]],
           NEW next,
           next.at \in Collected,
           next.at \in {"manifests", "estimate"} => export.at \in {"manifests", "estimate"},
           next.at \in Verified => export.at \in Verified,
           next.artifacts = export.artifacts, next.images = export.images,
           next.recipes = export.recipes, next.links = export.links,
           next.relpath = export.relpath,
           next.at \notin {"manifests", "download"} => export.at \notin {"manifests", "download"},
           export.todo \subseteq next.todo \cup {file[2]},
           WriteFile(file[1], file[2], file[3], next)
    PROVE  Importable'
<1>1. CASE ExportOnly(ExportFail("disk full"))
  BY <1>1, FailedIsImportable
<1>2. CASE /\ files' = {f \in files : f[1] # file[1]} \cup {file} /\ export' = next
           /\ UNCHANGED <<linked, size, archive, disk, urlEdits>>
  <2>1. ASSUME ExportAt(Collected), NEW u \in DOMAIN export.relpath
        PROVE  \/ export'.at \in {"manifests", "download"} /\ u \in export'.todo
               \/ \E f \in Kept' : f[1] = export.relpath[u] /\ f[2] = u
    <3>1. CASE file[1] = export.relpath[u] /\ file[2] = u
      BY <1>2, <3>1 DEF Kept
    <3>2. CASE /\ export.at \in {"manifests", "download"} /\ u \in export.todo
               /\ ~(file[1] = export.relpath[u] /\ file[2] = u)
      <4>1. u # file[2]
        <5>1. DataFile # export.relpath[u]
          BY <2>1, PathsDiffer
        <5>. QED BY <3>2, <5>1
      <4>. QED BY <1>2, <3>2, <4>1
    <3>3. ASSUME NEW f \in Kept, f[1] = export.relpath[u], f[2] = u,
                 ~(file[1] = export.relpath[u] /\ file[2] = u)
          PROVE  \E g \in Kept' : g[1] = export.relpath[u] /\ g[2] = u
      <4>1. f[1] # file[1]
        <5>1. DataFile # export.relpath[u]
          BY <2>1, PathsDiffer
        <5>2. ASSUME file[2] \in DOMAIN export.relpath, file[1] = export.relpath[file[2]],
                     f[1] = file[1]
              PROVE  FALSE
          <6>1. export.relpath[file[2]] = export.relpath[u]
            BY <3>3, <5>2
          <6>2. file[2] = u
            BY <2>1, <5>2, <6>1, PathsDiffer
          <6>. QED BY <3>3, <5>2, <6>2
        <5>. QED BY <3>3, <5>1, <5>2
      <4>. QED BY <1>2, <3>3, <4>1 DEF Kept
    <3>. QED BY <2>1, <3>1, <3>2, <3>3 DEF Importable, Downloaded, ExportAt
  <2>2. export.at \in Collected
    BY DEF Collected, Verified
  <2>. QED BY <1>2, <2>1, <2>2, KeptIsImportable
<1>. QED BY <1>1, <1>2 DEF WriteFile

LEMMA DownloadImportable == Importable /\ ExportTyped /\ download => Importable'
<1>. SUFFICES ASSUME Importable, ExportTyped, download PROVE Importable'
  OBVIOUS
<1>0. export.at \in {"manifests", "download"} /\ export.artifacts
  BY DEF download, ExportTyped
<1>1. CASE /\ export.todo = {}
           /\ ExportOnly(ExportGo(IF export.at = "manifests" THEN "estimate" ELSE "json"))
  <2>1. /\ export'.at = (IF export.at = "manifests" THEN "estimate" ELSE "json")
        /\ export'.artifacts = export.artifacts /\ export'.images = export.images
        /\ export'.recipes = export.recipes /\ export'.links = export.links
        /\ export'.relpath = export.relpath
        /\ UNCHANGED <<linked, files, archive>>
    BY <1>1 DEF ExportOnly, ExportGo, ExportTyped, ExportRecord
  <2>2. export.at \in Collected /\ export'.at \in Collected
    BY <1>0, <2>1 DEF Collected, Verified
  <2>3. ExportAt(Collected) =>
          \A u \in DOMAIN export.relpath : \E f \in Kept' : f[1] = export.relpath[u] /\ f[2] = u
    BY <1>1, <2>1 DEF Importable, Downloaded, Kept
  <2>. QED BY <1>0, <2>1, <2>2, <2>3, KeptIsImportable DEF Verified
<1>2. ASSUME NEW u \in export.todo, ExportOnly(ExportFail("gone"))
      PROVE  Importable'
  BY <1>2, FailedIsImportable
<1>3. ASSUME NEW u \in export.todo,
             WriteFile(export.relpath[u], u, size[u], [export EXCEPT !.todo = @ \ {u}])
      PROVE  Importable'
  <2>. DEFINE file == <<export.relpath[u], u, size[u]>>
              next == [export EXCEPT !.todo = @ \ {u}]
  <2>1. u \in DOMAIN export.relpath
    BY <1>0, DownloadFacts
  <2>2. /\ next.at = export.at /\ next.artifacts = export.artifacts /\ next.images = export.images
        /\ next.recipes = export.recipes /\ next.links = export.links
        /\ next.relpath = export.relpath /\ next.todo = export.todo \ {u}
    BY DEF ExportTyped, ExportRecord
  <2>3. /\ file = <<file[1], file[2], file[3]>> /\ file[2] = u
        /\ file[1] = export.relpath[file[2]]
        /\ WriteFile(file[1], file[2], file[3], next)
    BY <1>3
  <2>4. export.at \in Collected
    BY <1>0 DEF Collected, Verified
  <2>. HIDE DEF file, next
  <2>. QED BY <1>0, <2>1, <2>2, <2>3, <2>4, WriteImportable
<1>. QED BY <1>1, <1>2, <1>3 DEF download

LEMMA WriteDataImportable == Importable /\ ExportTyped /\ write_exported_data => Importable'
<1>. SUFFICES ASSUME Importable, ExportTyped, write_exported_data PROVE Importable'
  OBVIOUS
<1>. DEFINE next == IF export.tar THEN [ExportGo("tar") EXCEPT !.todo = DOMAIN export.relpath]
                    ELSE ExportGo("done")
            file == JsonFile
<1>1. export.at = "json" /\ WriteFile(file[1], file[2], file[3], next)
  BY DEF write_exported_data, JsonFile
<1>2. /\ next.at \in {"tar", "done"} /\ next.artifacts = export.artifacts
      /\ next.images = export.images /\ next.recipes = export.recipes
      /\ next.links = export.links /\ next.relpath = export.relpath
  BY DEF ExportGo, ExportTyped, ExportRecord
<1>3. file = <<file[1], file[2], file[3]>> /\ file[1] = DataFile
  BY DEF JsonFile
<1>4. export.todo = {}
  BY <1>1 DEF ExportTyped
<1>5. export.at \in Verified /\ next.at \in Collected
  BY <1>1, <1>2 DEF Verified, Collected
<1>. HIDE DEF next, file
<1>. QED BY <1>1, <1>2, <1>3, <1>4, <1>5, WriteImportable

LEMMA ArchivedImportable ==
    ASSUME Importable, ExportTyped, export.at = "tar", NEW name, NEW next,
           next.at \in {"tar", "done"}, next.artifacts = export.artifacts,
           next.images = export.images, next.recipes = export.recipes,
           next.links = export.links, next.relpath = export.relpath,
           Archived(name, next)
    PROVE  Importable'
<1>1. CASE ExportOnly(ExportFail("file lost")) \/ ExportOnly(ExportFail("disk full"))
  BY <1>1, FailedIsImportable
<1>2. ASSUME NEW f \in files,
             archive' = archive \cup {f}, files' = files \ {f}, export' = next,
             UNCHANGED <<linked, size, disk, urlEdits>>
      PROVE  Importable'
  <2>1. Kept' = Kept
    BY <1>2 DEF Kept
  <2>2. export.at \in Collected /\ export'.at \in Collected /\ export.at \in Verified
    BY <1>2 DEF Collected, Verified
  <2>3. ExportAt(Collected) =>
          \A u \in DOMAIN export.relpath : \E g \in Kept' : g[1] = export.relpath[u] /\ g[2] = u
    BY <2>1 DEF Importable, Downloaded
  <2>. QED BY <1>2, <2>2, <2>3, KeptIsImportable
<1>. QED BY <1>1, <1>2 DEF Archived

LEMMA WriteTarImportable == Importable /\ ExportTyped /\ write_tarfile => Importable'
<1>. SUFFICES ASSUME Importable, ExportTyped, write_tarfile PROVE Importable'
  OBVIOUS
<1>1. export.at = "tar"
  BY DEF write_tarfile
<1>2. CASE Archived(DataFile, ExportGo("done"))
  <2>. DEFINE next == ExportGo("done")
  <2>1. /\ next.at = "done" /\ next.artifacts = export.artifacts
        /\ next.images = export.images /\ next.recipes = export.recipes
        /\ next.links = export.links /\ next.relpath = export.relpath
    BY DEF ExportGo, ExportTyped, ExportRecord
  <2>. HIDE DEF next
  <2>2. Archived(DataFile, next)
    BY <1>2 DEF next
  <2>. QED BY <1>1, <2>1, <2>2, ArchivedImportable
<1>3. ASSUME NEW u \in export.todo,
             Archived(export.relpath[u], [export EXCEPT !.todo = @ \ {u}])
      PROVE  Importable'
  <2>. DEFINE next == [export EXCEPT !.todo = @ \ {u}]
  <2>1. /\ next.at = export.at /\ next.artifacts = export.artifacts
        /\ next.images = export.images /\ next.recipes = export.recipes
        /\ next.links = export.links /\ next.relpath = export.relpath
    BY DEF ExportTyped, ExportRecord
  <2>. HIDE DEF next
  <2>2. Archived(export.relpath[u], next)
    BY <1>3 DEF next
  <2>. QED BY <1>1, <2>1, <2>2, ArchivedImportable
<1>. QED BY <1>2, <1>3 DEF write_tarfile

LEMMA UrlEditedImportable ==
    ASSUME Importable, ExportTyped, NEW u \in Url, UrlEdited(u)
    PROVE  Importable'
<1>1. /\ export'.at = export.at /\ export'.todo = export.todo /\ export'.relpath = export.relpath
      /\ export'.artifacts = export.artifacts /\ export'.images = export.images
      /\ export'.recipes = export.recipes /\ export'.links = export.links
      /\ UNCHANGED <<linked, files, archive>>
  BY DEF UrlEdited, ExportTyped, ExportRecord
<1>2. LinksHaveSorts' /\ LinksAreKnown'
  BY <1>1 DEF Importable, LinksHaveSorts, LinksAreKnown, ExportAt
<1>3. PathsAreApart'
  BY <1>1 DEF Importable, PathsAreApart, ExportAt, get_child_urls_from_manifests
<1>4. Downloaded'
  BY <1>1 DEF Importable, Downloaded, ExportAt, Kept
<1>. QED BY <1>2, <1>3, <1>4 DEF Importable


\* Recipes and what manifests name get paths beside those of the images: another
\* one where an image has the file of that name.
LEMMA VerifyImportable == NamesApart /\ Importable /\ ExportTyped /\ verify_free_space => Importable'
<1>. SUFFICES ASSUME NamesApart, Importable, ExportTyped, verify_free_space PROVE Importable'
  OBVIOUS
<1>. DEFINE base == [ExportGo("download") EXCEPT !.estimates = estimate_required_space,
                                                 !.edited = Outgrown]
            urls == undownloaded_s3_urls
<1>1. export.at = "estimate" /\ export.artifacts /\ DOMAIN export.relpath = export.images
      /\ archive = {}
  BY DEF verify_free_space, ExportTyped
<1>2. CASE ExportOnly(ExportFail("unlisted")) \/ ExportOnly(ExportFail("no room"))
  BY <1>2, FailedIsImportable
<1>3. CASE ExportOnly(ToDownload(base, urls))
  <2>1. estimate_required_space \in Nat \X Nat /\ Outgrown \in BOOLEAN
    BY EstimatesTyped DEF Outgrown
  <2>2. /\ base \in ExportRecord /\ base.at = "download" /\ base.artifacts = export.artifacts
        /\ base.relpath = export.relpath /\ base.images = export.images
        /\ base.recipes = export.recipes /\ base.links = export.links
    BY <2>1 DEF ExportGo, ExportTyped, ExportRecord, ExportPlaces
  <2>3. urls \in SUBSET Url
    BY UrlsTyped
  <2>. HIDE DEF base, urls
  <2>4. /\ export'.at = "download" /\ export'.artifacts /\ export'.todo = urls
        /\ export'.images = export.images /\ export'.recipes = export.recipes
        /\ export'.links = export.links
        /\ DOMAIN export'.relpath = urls \cup export.images
        /\ \A u \in urls : export'.relpath[u] = generate_artifact_local_path(u)
        /\ \A u \in export.images \ urls : export'.relpath[u] = export.relpath[u]
        /\ UNCHANGED <<linked, files, archive>>
    <3>. DEFINE next == ToDownload(base, urls)
                paths == next.relpath
    <3>1. export' = next /\ UNCHANGED <<linked, files, archive>>
      BY <1>3 DEF ExportOnly
    <3>2. /\ next = [base EXCEPT !.todo = urls, !.relpath = paths] /\ next.todo = urls
          /\ DOMAIN paths = urls \cup DOMAIN base.relpath
          /\ \A u \in urls : paths[u] = generate_artifact_local_path(u)
          /\ \A u \in DOMAIN base.relpath \ urls : paths[u] = base.relpath[u]
      BY <2>2, <2>3, PathsTyped
    <3>. HIDE DEF next
    <3>3. /\ next.at = base.at /\ next.artifacts = base.artifacts /\ next.images = base.images
          /\ next.recipes = base.recipes /\ next.links = base.links
      BY <2>2, <3>2 DEF ExportRecord
    <3>. QED BY <1>1, <2>2, <3>1, <3>2, <3>3
  <2>5. urls = (export.recipes \cup get_child_urls_from_manifests) \ export.images
    BY DEF urls, undownloaded_s3_urls
  <2>6. LinksHaveSorts' /\ LinksAreKnown'
    <3>1. ExportAt(ExportPlaces \ {"idle", "failed"}) /\ ExportAt(Collected)
      BY <1>1 DEF ExportAt, ExportPlaces, Collected
    <3>2. LinksHaveSorts'
      BY <2>4 DEF Importable, LinksHaveSorts
    <3>. QED BY <2>4, <3>1, <3>2 DEF Importable, LinksAreKnown
  <2>7. \A u \in urls : u \notin ManifestName
    <3>. TAKE u \in urls
    <3>1. CASE u \in export.recipes
      BY <3>1 DEF Importable, LinksHaveSorts
    <3>2. CASE u \in get_child_urls_from_manifests
      <4>1. PICK i \in export.images : u \in ManifestLinks[i]
        BY <3>2 DEF get_child_urls_from_manifests
      <4>2. i \in Url
        BY DEF ExportTyped, ExportRecord
      <4>. QED BY <4>1, <4>2 DEF NamesApart
    <3>. QED BY <2>5, <3>1, <3>2
  <2>8. \A u \in export.images :
            /\ export.relpath[u] = <<Basename[u], "">>
            /\ \E f \in files : f[1] = <<Basename[u], "">> /\ f[2] = u
    <3>. TAKE u \in export.images
    <3>1. export.relpath[u] = <<Basename[u], "">>
      BY <1>1 DEF Importable, PathsAreApart, ExportAt
    <3>2. ExportAt(Collected) /\ u \in DOMAIN export.relpath
      BY <1>1 DEF ExportAt, Collected
    <3>. QED BY <1>1, <3>1, <3>2 DEF Importable, Downloaded, Kept
  <2>9. ASSUME NEW u \in urls, NEW v \in export.images
        PROVE  export'.relpath[u] # export'.relpath[v]
    <3>1. v \notin urls
      BY <2>5
    <3>2. export'.relpath[v] = <<Basename[v], "">>
      BY <2>4, <2>8, <3>1
    <3>3. u \in Url /\ u # ""
      BY <2>3, ExportAssumption
    <3>4. CASE \E f \in files : f[1] = <<Basename[u], "">>
      <4>1. export'.relpath[u] = <<Basename[u], u>>
        BY <2>4, <3>4 DEF generate_artifact_local_path
      <4>2. <<Basename[u], u>> = <<Basename[v], "">> => u = ""
        OBVIOUS
      <4>. QED BY <3>2, <3>3, <4>1, <4>2
    <3>5. CASE ~ \E f \in files : f[1] = <<Basename[u], "">>
      <4>1. export'.relpath[u] = <<Basename[u], "">>
        BY <2>4, <3>5 DEF generate_artifact_local_path
      <4>2. \E f \in files : f[1] = <<Basename[v], "">>
        BY <2>8
      <4>3. <<Basename[u], "">> = <<Basename[v], "">> => Basename[u] = Basename[v]
        OBVIOUS
      <4>. QED BY <3>2, <3>5, <4>1, <4>2, <4>3
    <3>. QED BY <3>4, <3>5
  <2>10. ASSUME NEW u \in urls, NEW v \in urls, export'.relpath[u] = export'.relpath[v]
         PROVE  u = v
    <3>1. u \in Url /\ v \in Url
      BY <2>3
    <3>2. generate_artifact_local_path(u) = generate_artifact_local_path(v)
      <4>1. export'.relpath[u] = generate_artifact_local_path(u)
        BY <2>4
      <4>2. export'.relpath[v] = generate_artifact_local_path(v)
        BY <2>4
      <4>. QED BY <2>10, <4>1, <4>2, Zenon
    <3>. DEFINE second(x) == IF \E f \in files : f[1] = <<Basename[x], "">> THEN x ELSE ""
    <3>4. <<Basename[u], second(u)>> = <<Basename[v], second(v)>>
      BY <3>2 DEF generate_artifact_local_path
    <3>. HIDE DEF second
    <3>3. Basename[u] = Basename[v]
      BY <3>4
    <3>. QED BY <2>7, <3>1, <3>3 DEF NamesApart
  <2>11. ASSUME NEW u \in export.images, NEW v \in export.images,
                export'.relpath[u] = export'.relpath[v]
         PROVE  u = v
    <3>1. u \notin urls /\ v \notin urls
      BY <2>5
    <3>2. export.relpath[u] = export.relpath[v]
      BY <2>4, <2>11, <3>1
    <3>3. ExportAt(Collected)
      BY <1>1 DEF ExportAt, Collected
    <3>. QED BY <1>1, <3>2, <3>3, PathsDiffer
  <2>12. PathsAreApart'
    <3>1. get_child_urls_from_manifests' = get_child_urls_from_manifests
      BY <2>4 DEF get_child_urls_from_manifests
    <3>2. DOMAIN export'.relpath = export'.images \cup export'.recipes
                                   \cup get_child_urls_from_manifests'
      BY <2>4, <2>5, <3>1
    <3>3. \A u, v \in DOMAIN export'.relpath : export'.relpath[u] = export'.relpath[v] => u = v
      BY <2>4, <2>9, <2>10, <2>11
    <3>. QED BY <2>4, <3>2, <3>3 DEF PathsAreApart, ExportAt
  <2>13. Downloaded'
    <3>1. ASSUME NEW u \in export.images
          PROVE  \E f \in Kept' : f[1] = export'.relpath[u] /\ f[2] = u
      <4>1. u \notin urls
        BY <2>5
      <4>2. export'.relpath[u] = <<Basename[u], "">>
        BY <2>4, <2>8, <4>1
      <4>3. PICK f \in files : f[1] = <<Basename[u], "">> /\ f[2] = u
        BY <2>8
      <4>4. f \in Kept'
        BY <2>4 DEF Kept
      <4>. QED BY <4>2, <4>3, <4>4
    <3>. QED BY <2>4, <3>1 DEF Downloaded
  <2>. QED BY <2>6, <2>12, <2>13 DEF Importable
<1>. QED BY <1>2, <1>3 DEF verify_free_space

LEMMA ImportableNext ==
    ASSUME NamesApart, Importable, ExportTyped, [ExportNext]_exportVars
    PROVE  Importable'
<1>1. CASE UNCHANGED exportVars
  <2>1. UNCHANGED <<linked, size, export, files, archive>>
    BY <1>1 DEF exportVars
  <2>2. LinksHaveSorts' /\ LinksAreKnown'
    BY <2>1 DEF Importable, LinksHaveSorts, LinksAreKnown, ExportAt
  <2>3. PathsAreApart'
    BY <2>1 DEF Importable, PathsAreApart, ExportAt, get_child_urls_from_manifests
  <2>4. Downloaded'
    BY <2>1 DEF Importable, Downloaded, ExportAt, Kept
  <2>. QED BY <2>2, <2>3, <2>4 DEF Importable
<1>2. ASSUME NEW artifacts \in BOOLEAN, NEW tar \in BOOLEAN, NEW deleted \in BOOLEAN,
             StartExport(artifacts, tar, deleted)
      PROVE  Importable'
  BY <1>2, StartImportable
<1>3. CASE do_export
  BY <1>3, LinksImportable, PlanImportable, DownloadImportable, VerifyImportable,
     WriteDataImportable, WriteTarImportable
  DEF do_export
<1>4. ASSUME NEW u \in Url, UrlEdited(u) PROVE Importable'
  BY <1>4, UrlEditedImportable
<1>. QED BY <1>1, <1>2, <1>3, <1>4 DEF ExportNext

\* If all artifacts have names of their own, an export that says it succeeded has, under
\* the name that the import looks for, the file of each artifact the import wants.
THEOREM ExportsCanBeImported == NamesApart => (ExportSpec => []ExportCanBeImported)
<1>1. ExportTyped /\ Importable => ExportCanBeImported
  <2>. SUFFICES ASSUME ExportTyped, Importable, export.at = "done", export.artifacts,
                       NEW u \in WantedByImport
                PROVE  /\ u \in DOMAIN export.relpath
                       /\ \E f \in Kept : f[1] = export.relpath[u] /\ f[2] = u
    BY DEF ExportCanBeImported
  <2>1. ExportAt(Collected) /\ ExportAt(Verified) /\ ExportAt(ExportPlaces \ {"idle", "failed"})
    BY DEF ExportAt, Collected, Verified, ExportPlaces
  <2>2. /\ linked.images \subseteq export.images /\ linked.recipes \subseteq export.recipes
        /\ export.links \subseteq export.images \cup export.recipes
        /\ DOMAIN export.relpath = export.images \cup export.recipes
                                   \cup get_child_urls_from_manifests
    BY <2>1 DEF Importable, LinksAreKnown, PathsAreApart
  <2>3. u \in DOMAIN export.relpath
    BY <2>2, UrlsTyped DEF WantedByImport
  <2>. QED BY <2>1, <2>3 DEF Importable, Downloaded
<1>2. NamesApart /\ ExportTyped /\ Importable /\ [ExportNext]_exportVars
        => ExportTyped' /\ Importable'
  BY ExportTypedNext, ImportableNext
<1>3. NamesApart /\ ExportInit => ExportTyped /\ Importable
  BY ExportTypedInit, ImportableInit
<1>4. ASSUME NamesApart PROVE ExportSpec => []ExportCanBeImported
  <2>1. ExportInit => ExportTyped /\ Importable
    BY <1>3, <1>4
  <2>2. ExportTyped /\ Importable /\ [ExportNext]_exportVars => ExportTyped' /\ Importable'
    BY <1>2, <1>4
  <2>. QED BY <1>1, <2>1, <2>2, PTL DEF ExportSpec
<1>. QED BY <1>4

-----------------------------------------------------------------------------
(* The export of IMS: the space is enough.                                 *)

\* Files with different contents, none larger than it is listed, are not more bytes
\* than the listed ones.
LEMMA BytesAsListed ==
    ASSUME ExportTyped, NEW fs, Sized(fs), NEW urls \in SUBSET Url,
           \A f \in fs : f[2] \in urls /\ f[3] <= size[f[2]],
           \A f, g \in fs : f[2] = g[2] => f = g
    PROVE  Bytes(fs) <= Bytes(AsListed(urls))
<1>. DEFINE listed == AsListed(urls)
            entry(f) == <<f[2], f[2], size[f[2]]>>
            map == [b \in BytesOf(fs) |-> <<entry(b[1]), b[2]>>]
<1>1. Sized(listed)
  BY ListedFacts
<1>2. \A b \in BytesOf(fs) : b[1] \in fs /\ b[2] \in 1..b[1][3] /\ b = <<b[1], b[2]>>
  BY DEF BytesOf
<1>3. ASSUME NEW b \in BytesOf(fs) PROVE map[b] \in BytesOf(listed)
  <2>1. entry(b[1]) \in listed
    BY <1>2 DEF AsListed
  <2>2. b[1][3] \in Nat /\ size[b[1][2]] \in Nat /\ b[1][3] <= size[b[1][2]]
    BY <1>2 DEF Sized, ExportTyped
  <2>3. b[2] \in 1..size[b[1][2]]
    BY <1>2, <2>2
  <2>4. b[2] \in 1..(entry(b[1])[3])
    BY <2>3
  <2>. HIDE DEF entry, listed
  <2>5. \A f \in listed : \A n \in 1..f[3] : <<f, n>> \in BytesOf(listed)
    BY DEF BytesOf
  <2>. QED BY <2>1, <2>4, <2>5
<1>4. ASSUME NEW a \in BytesOf(fs), NEW b \in BytesOf(fs), map[a] = map[b]
      PROVE  a = b
  <2>1. <<entry(a[1]), a[2]>> = <<entry(b[1]), b[2]>>
    BY <1>4
  <2>2. entry(a[1]) = entry(b[1]) /\ a[2] = b[2]
    <3>. HIDE DEF entry
    <3>. QED BY <2>1
  <2>3. a[1][2] = b[1][2]
    BY <2>2
  <2>4. a[1] = b[1]
    BY <1>2, <2>3
  <2>. QED BY <1>2, <2>2, <2>4
<1>5. map \in Injection(BytesOf(fs), BytesOf(listed))
  <2>1. map \in [BytesOf(fs) -> BytesOf(listed)]
    <3>1. \A b \in BytesOf(fs) : <<entry(b[1]), b[2]>> \in BytesOf(listed)
      BY <1>3
    <3>. HIDE DEF entry, listed
    <3>. QED BY <3>1
  <2>2. DOMAIN map = BytesOf(fs)
    OBVIOUS
  <2>. HIDE DEF map
  <2>. QED BY <1>4, <2>1, <2>2 DEF Injection, IsInjective
<1>6. IsFiniteSet(BytesOf(listed))
  BY <1>1, BytesOfFinite
<1>7. Cardinality(BytesOf(fs)) <= Cardinality(BytesOf(listed))
  <2>. HIDE DEF map, listed
  <2>. QED BY <1>5, <1>6, FS_Injection
<1>. QED BY <1>1, <1>7, BytesAreCounted

\* The numbers of the estimate are natural ones.
LEMMA RoomNumbers ==
    ASSUME ExportTyped
    PROVE  /\ Sized(files) /\ Sized(archive)
           /\ Bytes(files) \in Nat /\ Bytes(archive) \in Nat /\ Used \in Nat /\ disk \in Nat
           /\ Bytes(AsListed(AllUrls)) \in Nat /\ Bytes(AsListed(export.todo)) \in Nat
           /\ JsonBytes \in Nat /\ InArchive \in Nat /\ Headroom \in Nat
<1>1. \A f \in ArtifactFile \cup {JsonFile} : f[3] \in Nat
  <2>1. \A f \in ArtifactFile : f[3] \in Nat
    BY DEF ArtifactFile
  <2>2. JsonFile[3] \in Nat
    BY ExportAssumption DEF JsonFile
  <2>. QED BY <2>1, <2>2
<1>2. Sized(files) /\ Sized(archive)
  BY <1>1 DEF Sized, ExportTyped
<1>3. Bytes(files) \in Nat /\ Bytes(archive) \in Nat
  BY <1>2, BytesFacts
<1>4. Used \in Nat
  <2>. DEFINE f == Bytes(files)
              a == Bytes(archive)
  <2>1. f \in Nat /\ a \in Nat /\ Used = f + a
    BY <1>3 DEF Used
  <2>. HIDE DEF f, a
  <2>. QED BY <2>1
<1>5. AllUrls \in SUBSET Url /\ export.todo \in SUBSET Url
  BY UrlsTyped DEF ExportTyped, ExportRecord
<1>6. Sized(AsListed(AllUrls)) /\ Sized(AsListed(export.todo))
  BY <1>5, ListedFacts
<1>7. Bytes(AsListed(AllUrls)) \in Nat /\ Bytes(AsListed(export.todo)) \in Nat
  BY <1>6, BytesFacts
<1>8. disk \in Nat
  BY DEF ExportTyped
<1>. QED BY <1>2, <1>3, <1>4, <1>7, <1>8, InArchiveFacts, ExportAssumption

\* The estimate depends on the links and sizes only.
LEMMA ListingStays ==
    ASSUME export'.images = export.images, export'.recipes = export.recipes,
           export'.tar = export.tar, size' = size
    PROVE  /\ AllUrls' = AllUrls /\ InArchive' = InArchive
           /\ AsListed(AllUrls)' = AsListed(AllUrls)
           /\ AsListed(export.todo)' = AsListed(export'.todo)
           /\ estimate_required_space' = estimate_required_space
<1>1. undownloaded_s3_urls' = undownloaded_s3_urls
  BY DEF undownloaded_s3_urls, get_child_urls_from_manifests
<1>2. AllUrls' = AllUrls
  BY <1>1 DEF AllUrls
<1>3. /\ AsListed(AllUrls)' = AsListed(AllUrls)
      /\ AsListed(undownloaded_s3_urls)' = AsListed(undownloaded_s3_urls)
      /\ AsListed(export.todo)' = AsListed(export'.todo)
  BY <1>1, <1>2 DEF AsListed
<1>4. InArchive' = InArchive
  BY <1>3 DEF InArchive
<1>5. estimate_required_space' = estimate_required_space
  BY <1>1 DEF estimate_required_space
<1>. QED BY <1>2, <1>3, <1>4, <1>5

\* Before the estimate, nothing is promised; nor when it was not made, or is no
\* longer true.
LEMMA UnestimatedHasRoom ==
    ASSUME ~Estimated, export'.estimates = export.estimates, export'.edited = export.edited
    PROVE  HasRoom'
BY DEF HasRoom, Estimated

LEMMA FailedHasRoom ==
    ASSUME ExportTyped, HasRoom, NEW why, why # "disk full", ExportOnly(ExportFail(why))
    PROVE  HasRoom'
<1>1. /\ export'.at = "failed" /\ export'.why = why
      /\ export'.images = export.images /\ export'.recipes = export.recipes
      /\ export'.tar = export.tar /\ export'.estimates = export.estimates
      /\ export'.edited = export.edited /\ size' = size /\ disk' = disk
      /\ files' = files /\ archive' = archive
  BY DEF ExportOnly, ExportFail, ExportTyped, ExportRecord
<1>2. CASE ~Estimated
  BY <1>1, <1>2, UnestimatedHasRoom
<1>3. CASE Estimated
  <2>1. FilesAreListed'
    BY <1>1, <1>3, ListingStays DEF HasRoom, FilesAreListed
  <2>2. Used' = Used
    BY <1>1 DEF Used
  <2>3. RoomIsLeft'
    BY <1>1, <1>3, <2>2, ListingStays DEF HasRoom, RoomIsLeft
  <2>. QED BY <1>1, <1>3, <2>1, <2>3, ListingStays DEF HasRoom
<1>. QED BY <1>2, <1>3

\* A step that writes a file that fits: not more is used than its bytes.
LEMMA FileFits ==
    ASSUME ExportTyped, NEW name, NEW contents, NEW bytes \in Nat, NEW next,
           WriteFile(name, contents, bytes, next), Used + bytes <= disk
    PROVE  /\ export' = next /\ UNCHANGED <<linked, size, archive, disk, urlEdits>>
           /\ files' \subseteq files \cup {<<name, contents, bytes>>}
           /\ Used' \in Nat /\ Used' <= Used + bytes
<1>. DEFINE others == {f \in files : f[1] # name}
            file == <<name, contents, bytes>>
<1>1. Sized(files) /\ Bytes(files) \in Nat /\ Bytes(archive) \in Nat /\ Used \in Nat /\ disk \in Nat
      /\ Used = Bytes(files) + Bytes(archive)
  BY RoomNumbers DEF Used
<1>2. others \in SUBSET files
  OBVIOUS
<1>3. Sized(others) /\ Bytes(others) <= Bytes(files)
  <2>. HIDE DEF others
  <2>. QED BY <1>1, <1>2, BytesFacts
<1>4. Bytes(others) \in Nat
  BY <1>3, BytesFacts
<1>5. Bytes(others \cup {file}) = Bytes(others) + bytes
  <2>1. file \notin others /\ file[3] = bytes
    OBVIOUS
  <2>. HIDE DEF others, file
  <2>. QED BY <1>3, <2>1, BytesFacts
<1>. DEFINE o == Bytes(others)
            f == Bytes(files)
            a == Bytes(archive)
<1>6. ~(o + a + bytes > disk)
  <2>1. o \in Nat /\ f \in Nat /\ a \in Nat /\ o <= f /\ f + a + bytes <= disk /\ disk \in Nat
    BY <1>1, <1>3, <1>4
  <2>. HIDE DEF o, f, a
  <2>. QED BY <2>1
<1>7. /\ files' = others \cup {file} /\ export' = next
      /\ UNCHANGED <<linked, size, archive, disk, urlEdits>>
  BY <1>6 DEF WriteFile
<1>8. Used' = o + bytes + a
  BY <1>5, <1>7 DEF Used
<1>9. Used' \in Nat /\ Used' <= Used + bytes
  <2>1. o \in Nat /\ f \in Nat /\ a \in Nat /\ o <= f /\ Used = f + a
    BY <1>1, <1>3, <1>4
  <2>. HIDE DEF o, f, a
  <2>. QED BY <1>8, <2>1
<1>. QED BY <1>2, <1>7, <1>9

LEMMA StartHasRoom ==
    ASSUME ExportTyped, HasRoom,
           NEW artifacts \in BOOLEAN, NEW tar \in BOOLEAN, NEW deleted \in BOOLEAN,
           StartExport(artifacts, tar, deleted)
    PROVE  HasRoom'
<1>1. ~Estimated
  BY DEF StartExport, HasRoom, Verified
<1>2. export'.estimates = export.estimates /\ export'.edited = export.edited
  BY DEF StartExport, ExportOnly, ExportTyped, ExportRecord
<1>. QED BY <1>1, <1>2, UnestimatedHasRoom

LEMMA LinksHaveRoom == ExportTyped /\ HasRoom /\ get_all_s3_links => HasRoom'
<1>. SUFFICES ASSUME ExportTyped, HasRoom, get_all_s3_links PROVE HasRoom'
  OBVIOUS
<1>1. ~Estimated
  BY DEF get_all_s3_links, HasRoom, Verified
<1>2. export'.estimates = export.estimates /\ export'.edited = export.edited
  BY DEF get_all_s3_links, ExportOnly, ExportTyped, ExportRecord
<1>. QED BY <1>1, <1>2, UnestimatedHasRoom

LEMMA PlanHasRoom == ExportTyped /\ HasRoom /\ plan_manifests => HasRoom'
<1>. SUFFICES ASSUME ExportTyped, HasRoom, plan_manifests PROVE HasRoom'
  OBVIOUS
<1>1. ~Estimated
  BY DEF plan_manifests, HasRoom, Verified
<1>2. export'.estimates = export.estimates /\ export'.edited = export.edited
  BY DEF plan_manifests, ToDownload, get_image_recipe_s3_urls, ExportOnly, ExportTyped, ExportRecord
<1>. QED BY <1>1, <1>2, UnestimatedHasRoom

LEMMA DownloadHasRoom == ExportTyped /\ HasRoom /\ download => HasRoom'
<1>. SUFFICES ASSUME ExportTyped, HasRoom, download PROVE HasRoom'
  OBVIOUS
<1>0. export.at \in {"manifests", "download"}
  BY DEF download
<1>1. export'.estimates = export.estimates /\ export'.edited = export.edited
  BY DEF download, WriteFile, ExportOnly, ExportGo, ExportFail, ExportTyped, ExportRecord
<1>2. CASE ~Estimated
  BY <1>1, <1>2, UnestimatedHasRoom
<1>3. CASE Estimated
  <2>0. export.at = "download" /\ FilesAreListed /\ RoomIsLeft /\ export.why # "disk full"
        /\ export.estimates = estimate_required_space
    BY <1>0, <1>3 DEF HasRoom, Verified
  <2>1. CASE export.todo = {} /\ ExportOnly(ExportGo("json"))
    <3>1. /\ export'.at = "json" /\ export'.why = export.why
          /\ export'.images = export.images /\ export'.recipes = export.recipes
          /\ export'.tar = export.tar /\ UNCHANGED <<size, files, archive, disk>>
      BY <2>1 DEF ExportOnly, ExportGo, ExportTyped, ExportRecord
    <3>2. Used' = Used
      BY <3>1 DEF Used
    <3>3. FilesAreListed'
      BY <2>0, <3>1, ListingStays DEF FilesAreListed
    <3>4. Bytes(AsListed(export.todo)) = 0
      <4>1. AsListed({}) = {} /\ Sized({})
        BY FS_EmptySet DEF AsListed, Sized
      <4>. QED BY <2>1, <4>1, BytesFacts
    <3>5. /\ Used <= Bytes(AsListed(AllUrls))
          /\ Used + JsonBytes + InArchive + Headroom <= disk
          /\ Used <= Bytes(AsListed(AllUrls)) + JsonBytes
      <4>. DEFINE all == Bytes(AsListed(AllUrls))
                  b == Bytes(AsListed(export.todo))
                  used == Used
      <4>1. /\ used \in Nat /\ all \in Nat /\ disk \in Nat /\ b = 0
            /\ JsonBytes \in Nat /\ InArchive \in Nat /\ Headroom \in Nat
            /\ used + b <= all /\ used + b + JsonBytes + InArchive + Headroom <= disk
        BY <2>0, <3>4, RoomNumbers DEF RoomIsLeft
      <4>. HIDE DEF all, b, used
      <4>2. used <= all /\ used + JsonBytes + InArchive + Headroom <= disk /\ used <= all + JsonBytes
        BY <4>1
      <4>. QED BY <4>2 DEF all, used
    <3>6. RoomIsLeft'
      BY <3>1, <3>2, <3>5, ListingStays DEF RoomIsLeft
    <3>. QED BY <1>1, <2>0, <3>1, <3>3, <3>6, ListingStays DEF HasRoom, Verified
  <2>2. ASSUME NEW u \in export.todo, ExportOnly(ExportFail("gone"))
        PROVE  HasRoom'
    BY <2>2, FailedHasRoom
  <2>3. ASSUME NEW u \in export.todo,
               WriteFile(export.relpath[u], u, size[u], [export EXCEPT !.todo = @ \ {u}])
        PROVE  HasRoom'
    <3>. DEFINE next == [export EXCEPT !.todo = @ \ {u}]
                left == AsListed(export.todo)
                later == AsListed(export.todo \ {u})
    <3>1. /\ next.at = export.at /\ next.images = export.images /\ next.recipes = export.recipes
          /\ next.tar = export.tar /\ next.todo = export.todo \ {u} /\ next.why = export.why
      BY DEF ExportTyped, ExportRecord
    <3>2. u \in Url /\ export.todo \in SUBSET Url /\ size[u] \in Nat
      BY DEF ExportTyped, ExportRecord
    <3>3. Bytes(later) = Bytes(left) - size[u] /\ Bytes(later) \in Nat /\ Bytes(left) \in Nat
      <4>1. Sized(left) /\ Sized(later) /\ <<u, u, size[u]>> \in left
        BY <3>2, ListedFacts
      <4>2. later = left \ {<<u, u, size[u]>>}
        BY DEF AsListed
      <4>. HIDE DEF left, later
      <4>3. Bytes(left \ {<<u, u, size[u]>>}) = Bytes(left) - size[u]
        BY <4>1, BytesFacts
      <4>. QED BY <4>1, <4>2, <4>3, BytesFacts
    <3>. DEFINE b == Bytes(left)
                c == Bytes(later)
                n == size[u]
                all == Bytes(AsListed(AllUrls))
    <3>4. /\ b \in Nat /\ c \in Nat /\ n \in Nat /\ c = b - n /\ Used \in Nat /\ disk \in Nat
          /\ all \in Nat /\ JsonBytes \in Nat /\ InArchive \in Nat /\ Headroom \in Nat
          /\ Used + b <= all /\ Used + b + JsonBytes + InArchive + Headroom <= disk
      BY <2>0, <3>2, <3>3, RoomNumbers DEF RoomIsLeft
    <3>. HIDE DEF next, left, later, b, c, n, all
    <3>5. Used + n <= disk
      BY <3>4
    <3>6. /\ export' = next /\ UNCHANGED <<linked, size, archive, disk, urlEdits>>
          /\ files' \subseteq files \cup {<<export.relpath[u], u, size[u]>>}
          /\ Used' \in Nat /\ Used' <= Used + n
      BY <2>3, <3>2, <3>5, FileFits DEF next, n
    <3>7. /\ AllUrls' = AllUrls /\ InArchive' = InArchive
          /\ AsListed(AllUrls)' = AsListed(AllUrls)
          /\ AsListed(export.todo)' = AsListed(export'.todo)
          /\ estimate_required_space' = estimate_required_space
      BY <3>1, <3>6, ListingStays
    <3>8. FilesAreListed'
      <4>1. ASSUME NEW f \in (files \cup archive)'
            PROVE  f = JsonFile \/ (f[2] \in AllUrls' /\ f[3] <= size'[f[2]])
        <5>1. f \in files \cup archive \/ f = <<export.relpath[u], u, n>>
          BY <3>6 DEF n
        <5>2. CASE f \in files \cup archive
          BY <2>0, <3>6, <3>7, <5>2 DEF FilesAreListed
        <5>3. CASE f = <<export.relpath[u], u, n>>
          <6>1. f[2] = u /\ f[3] = n /\ n <= n
            BY <3>4, <5>3
          <6>. QED BY <2>0, <3>6, <3>7, <6>1 DEF RoomIsLeft, n
        <5>. QED BY <5>1, <5>2, <5>3
      <4>2. \A f \in (files \cup archive)' :
                f = JsonFile \/ (f[2] \in AllUrls' /\ f[3] <= size'[f[2]])
        BY <4>1
      <4>. QED BY <4>2 DEF FilesAreListed
    <3>9. Used' <= all + JsonBytes /\ Used' + c <= all
          /\ Used' + c + JsonBytes + InArchive + Headroom <= disk
      <4>. DEFINE now == Used
                  soon == Used'
      <4>1. /\ now \in Nat /\ soon \in Nat /\ soon <= now + n /\ now + b <= all
            /\ now + b + JsonBytes + InArchive + Headroom <= disk
        BY <3>4, <3>6
      <4>. HIDE DEF now, soon
      <4>2. /\ soon <= all + JsonBytes /\ soon + c <= all
            /\ soon + c + JsonBytes + InArchive + Headroom <= disk
        BY <3>4, <4>1
      <4>. QED BY <4>2 DEF soon
    <3>10. AsListed(export.todo)' = later
      BY <3>1, <3>6, <3>7 DEF later
    <3>11. RoomIsLeft'
      BY <2>0, <3>1, <3>6, <3>7, <3>9, <3>10 DEF RoomIsLeft, all, c
    <3>. QED BY <1>1, <2>0, <3>1, <3>6, <3>7, <3>8, <3>11 DEF HasRoom, Verified
  <2>. QED BY <2>0, <2>1, <2>2, <2>3 DEF download
<1>. QED BY <1>2, <1>3

LEMMA FailKeepsEstimate ==
    ASSUME ExportTyped, NEW why, ExportOnly(ExportFail(why))
    PROVE  export'.estimates = export.estimates /\ export'.edited = export.edited
BY DEF ExportOnly, ExportFail, ExportTyped, ExportRecord

\* The estimate: the artifacts that are there are the images, each once, and what is
\* free is enough for the others.
LEMMA VerifyHasRoom ==
    ExportTyped /\ HasRoom /\ ImagesOnce /\ Unfailed /\ verify_free_space => HasRoom'
<1>. SUFFICES ASSUME ExportTyped, HasRoom, ImagesOnce, Unfailed, verify_free_space PROVE HasRoom'
  OBVIOUS
<1>. DEFINE base == [ExportGo("download") EXCEPT !.estimates = estimate_required_space,
                                                 !.edited = Outgrown]
            urls == undownloaded_s3_urls
            next == ToDownload(base, urls)
<1>1. export.at = "estimate" /\ export.why = "nothing" /\ archive = {} /\ files \subseteq ArtifactFile
  BY DEF verify_free_space, ExportTyped, Unfailed
<1>2. CASE ExportOnly(ExportFail("unlisted")) \/ ExportOnly(ExportFail("no room"))
  BY <1>2, FailedHasRoom
<1>3. CASE ~(Free < estimate_required_space[1]) /\ ExportOnly(next)
  <2>1. estimate_required_space \in Nat \X Nat /\ Outgrown \in BOOLEAN
    BY EstimatesTyped DEF Outgrown
  <2>2. /\ base \in ExportRecord /\ base.at = "download" /\ base.tar = export.tar
        /\ base.images = export.images /\ base.recipes = export.recipes
        /\ base.estimates = estimate_required_space /\ base.edited = Outgrown
        /\ base.why = "nothing"
    BY <1>1, <2>1 DEF ExportGo, ExportTyped, ExportRecord, ExportPlaces
  <2>3. urls \in SUBSET Url
    BY UrlsTyped
  <2>. HIDE DEF base, urls
  <2>4. /\ next.at = "download" /\ next.tar = export.tar /\ next.todo = urls
        /\ next.images = export.images /\ next.recipes = export.recipes
        /\ next.estimates = estimate_required_space /\ next.edited = Outgrown
        /\ next.why = "nothing"
    <3>. DEFINE paths == next.relpath
    <3>1. next = [base EXCEPT !.todo = urls, !.relpath = paths] /\ next.todo = urls
      BY <2>2, <2>3, PathsTyped
    <3>. HIDE DEF next
    <3>. QED BY <2>2, <3>1 DEF ExportRecord
  <2>. HIDE DEF next
  <2>5. export' = next /\ UNCHANGED <<size, files, archive, disk>>
    BY <1>3 DEF ExportOnly
  <2>6. CASE Outgrown
    BY <2>4, <2>5, <2>6 DEF HasRoom, Estimated
  <2>7. CASE ~Outgrown
    <3>1. \A f \in files : f[2] \in export.images /\ f[2] \in Url /\ f[3] \in Nat
      BY <1>1 DEF ImagesOnce, ArtifactFile
    <3>2. \A f \in files : f[3] <= size[f[2]]
      BY <2>7, <3>1 DEF Outgrown, ExportTyped
    <3>3. export.images \in SUBSET Url /\ AllUrls = urls \cup export.images
          /\ urls \cap export.images = {}
      BY DEF ExportTyped, ExportRecord, AllUrls, urls, undownloaded_s3_urls
    <3>4. Bytes(files) <= Bytes(AsListed(export.images))
      BY <1>1, <3>1, <3>2, <3>3, RoomNumbers, BytesAsListed DEF ImagesOnce
    <3>. DEFINE j == Bytes(AsListed(urls))
                i == Bytes(AsListed(export.images))
                all == Bytes(AsListed(AllUrls))
                f == Bytes(files)
    <3>5. all = j + i
      <4>1. Sized(AsListed(urls)) /\ Sized(AsListed(export.images))
        BY <2>3, <3>3, ListedFacts
      <4>2. AsListed(AllUrls) = AsListed(urls) \cup AsListed(export.images)
        BY <3>3 DEF AsListed
      <4>3. AsListed(urls) \cap AsListed(export.images) = {}
        BY <3>3 DEF AsListed
      <4>. QED BY <4>1, <4>2, <4>3, BytesFacts
    <3>6. i \in Nat /\ j \in Nat
      BY <2>3, <3>3, ListedFacts, BytesFacts
    <3>7. Bytes(archive) = 0
      BY <1>1, BytesFacts, FS_EmptySet DEF Sized
    <3>8. /\ Used = f /\ f \in Nat /\ all \in Nat /\ disk \in Nat
          /\ JsonBytes \in Nat /\ InArchive \in Nat /\ Headroom \in Nat
      BY <3>7, RoomNumbers DEF Used
    <3>9. ~(disk - f < JsonBytes + InArchive + Headroom + j)
      BY <1>3, <3>7, <3>8, EstimateIs DEF Free, urls
    <3>10. f <= i
      BY <3>4
    <3>. HIDE DEF j, i, all, f
    <3>11. f + j <= all /\ f <= all + JsonBytes
           /\ f + j + JsonBytes + InArchive + Headroom <= disk
      BY <3>5, <3>6, <3>8, <3>9, <3>10
    <3>12. /\ AllUrls' = AllUrls /\ InArchive' = InArchive
           /\ AsListed(AllUrls)' = AsListed(AllUrls)
           /\ AsListed(export.todo)' = AsListed(urls)
           /\ estimate_required_space' = estimate_required_space
      BY <2>4, <2>5, ListingStays
    <3>13. Used' = f
      BY <2>5, <3>8 DEF Used, f
    <3>14. FilesAreListed'
      BY <1>1, <2>5, <3>1, <3>2, <3>3, <3>12 DEF FilesAreListed
    <3>15. RoomIsLeft'
      BY <2>4, <2>5, <3>3, <3>11, <3>12, <3>13 DEF RoomIsLeft, all, j
    <3>. QED BY <2>4, <2>5, <3>12, <3>14, <3>15 DEF HasRoom, Verified
  <2>. QED BY <2>6, <2>7
<1>. QED BY <1>2, <1>3 DEF verify_free_space

LEMMA WriteDataHasRoom == ExportTyped /\ HasRoom /\ Unfailed /\ write_exported_data => HasRoom'
<1>. SUFFICES ASSUME ExportTyped, HasRoom, Unfailed, write_exported_data PROVE HasRoom'
  OBVIOUS
<1>. DEFINE next == IF export.tar THEN [ExportGo("tar") EXCEPT !.todo = DOMAIN export.relpath]
                    ELSE ExportGo("done")
<1>1. export.at = "json" /\ WriteFile(DataFile, "data", JsonBytes, next)
  BY DEF write_exported_data
<1>2. export'.estimates = export.estimates /\ export'.edited = export.edited
  <2>1. next.estimates = export.estimates /\ next.edited = export.edited
    BY DEF ExportGo, ExportTyped, ExportRecord
  <2>2. export' = next \/ ExportOnly(ExportFail("disk full"))
    <3>. HIDE DEF next
    <3>. QED BY <1>1 DEF WriteFile
  <2>. HIDE DEF next
  <2>. QED BY <2>1, <2>2, FailKeepsEstimate
<1>3. CASE ~Estimated
  BY <1>2, <1>3, UnestimatedHasRoom
<1>4. CASE Estimated
  <2>0. /\ FilesAreListed /\ RoomIsLeft /\ export.why = "nothing"
        /\ export.estimates = estimate_required_space
    BY <1>1, <1>4 DEF HasRoom, Unfailed
  <2>1. /\ next.at = (IF export.tar THEN "tar" ELSE "done") /\ next.images = export.images
        /\ next.recipes = export.recipes /\ next.tar = export.tar /\ next.why = export.why
    BY DEF ExportGo, ExportTyped, ExportRecord
  <2>. DEFINE all == Bytes(AsListed(AllUrls))
              now == Used
              soon == Used'
  <2>2. /\ now \in Nat /\ disk \in Nat /\ all \in Nat
        /\ JsonBytes \in Nat /\ InArchive \in Nat /\ Headroom \in Nat
        /\ now <= all /\ now + JsonBytes + InArchive + Headroom <= disk
    BY <1>1, <2>0, RoomNumbers DEF RoomIsLeft
  <2>. HIDE DEF next, all, now, soon
  <2>3. now + JsonBytes <= disk
    BY <2>2
  <2>4. /\ export' = next /\ UNCHANGED <<linked, size, archive, disk, urlEdits>>
        /\ files' \subseteq files \cup {JsonFile}
        /\ soon \in Nat /\ soon <= now + JsonBytes
    BY <1>1, <2>2, <2>3, FileFits DEF JsonFile, now, soon
  <2>5. soon <= all + JsonBytes /\ soon + InArchive + Headroom <= disk
    BY <2>2, <2>4
  <2>6. /\ AllUrls' = AllUrls /\ InArchive' = InArchive
        /\ AsListed(AllUrls)' = AsListed(AllUrls)
        /\ estimate_required_space' = estimate_required_space
    BY <2>1, <2>4, ListingStays
  <2>7. FilesAreListed'
    BY <2>0, <2>4, <2>6 DEF FilesAreListed
  <2>8. RoomIsLeft'
    BY <2>1, <2>4, <2>5, <2>6 DEF RoomIsLeft, all, soon
  <2>. QED BY <1>2, <2>0, <2>1, <2>4, <2>6, <2>7, <2>8 DEF HasRoom, Verified
<1>. QED BY <1>3, <1>4

\* A file moves to the archive: for a moment it takes its room again, and what is
\* free was estimated for the largest one.
LEMMA ArchivedHasRoom ==
    ASSUME ExportTyped, HasRoom, Unfailed, export.at = "tar", NEW name, NEW next,
           next.at \in {"tar", "done"}, next.images = export.images,
           next.recipes = export.recipes, next.tar = export.tar, next.why = export.why,
           next.estimates = export.estimates, next.edited = export.edited,
           Archived(name, next)
    PROVE  HasRoom'
<1>1. CASE ExportOnly(ExportFail("file lost"))
  BY <1>1, FailedHasRoom
<1>2. ASSUME NEW f \in files, IF Free < f[3] THEN ExportOnly(ExportFail("disk full"))
                              ELSE /\ archive' = archive \cup {f} /\ files' = files \ {f}
                                   /\ export' = next
                                   /\ UNCHANGED <<linked, size, disk, urlEdits>>
      PROVE  HasRoom'
  <2>1. export'.estimates = export.estimates /\ export'.edited = export.edited
    <3>1. export' = next \/ ExportOnly(ExportFail("disk full"))
      BY <1>2
    <3>. QED BY <3>1, FailKeepsEstimate
  <2>2. CASE ~Estimated
    BY <2>1, <2>2, UnestimatedHasRoom
  <2>3. CASE Estimated
    <3>0. /\ FilesAreListed /\ RoomIsLeft /\ export.why = "nothing" /\ export.tar
          /\ export.estimates = estimate_required_space
      BY <2>3 DEF HasRoom, Unfailed, RoomIsLeft
    <3>1. Sized(files) /\ Sized(archive) /\ f[3] \in Nat /\ AllUrls \subseteq Url
      BY RoomNumbers, UrlsTyped DEF Sized
    <3>. DEFINE n == f[3]
                r == Bytes(files)
                a == Bytes(archive)
                all == Bytes(AsListed(AllUrls))
                soon == Used'
    <3>2. n <= InArchive
      <4>1. CASE f = JsonFile
        BY <3>0, <4>1, InArchiveFacts DEF JsonFile
      <4>2. CASE f[2] \in AllUrls /\ f[3] <= size[f[2]]
        <5>1. size[f[2]] \in Nat /\ size[f[2]] <= InArchive
          BY <3>0, <3>1, <4>2, InArchiveFacts DEF ExportTyped
        <5>. QED BY <3>1, <4>2, <5>1, InArchiveFacts
      <4>. QED BY <3>0, <4>1, <4>2 DEF FilesAreListed
    <3>3. /\ n \in Nat /\ r \in Nat /\ a \in Nat /\ disk \in Nat /\ all \in Nat
          /\ JsonBytes \in Nat /\ InArchive \in Nat /\ Headroom \in Nat
          /\ r + a <= all + JsonBytes /\ r + a + InArchive + Headroom <= disk
      BY <3>0, <3>1, RoomNumbers DEF RoomIsLeft, Used
    <3>4. Bytes(files \ {f}) = r - n /\ Bytes(files \ {f}) \in Nat
      BY <3>1, BytesFacts
    <3>5. Bytes(archive \cup {f}) <= a + n /\ Bytes(archive \cup {f}) \in Nat
      <4>1. CASE f \in archive
        <5>1. archive \cup {f} = archive
          BY <4>1
        <5>2. a <= a + n
          <6>. HIDE DEF a, n
          <6>. QED BY <3>3
        <5>. QED BY <3>3, <5>1, <5>2
      <4>2. CASE f \notin archive
        <5>1. Bytes(archive \cup {f}) = a + n
          BY <3>1, <4>2, BytesFacts
        <5>2. a + n \in Nat /\ a + n <= a + n
          <6>. HIDE DEF a, n
          <6>. QED BY <3>3
        <5>. QED BY <5>1, <5>2
      <4>. QED BY <4>1, <4>2
    <3>6. ~(disk - (r + a) < n)
      <4>. HIDE DEF r, a, n
      <4>. QED BY <3>2, <3>3
    <3>7. /\ archive' = archive \cup {f} /\ files' = files \ {f} /\ export' = next
          /\ UNCHANGED <<linked, size, disk, urlEdits>>
      BY <1>2, <3>6 DEF Free
    <3>8. soon <= r + a /\ soon \in Nat
      <4>. DEFINE r1 == Bytes(files \ {f})
                  a1 == Bytes(archive \cup {f})
      <4>1. soon = r1 + a1
        BY <3>7 DEF Used
      <4>2. r1 = r - n /\ r1 \in Nat /\ a1 \in Nat /\ a1 <= a + n
        BY <3>4, <3>5
      <4>. HIDE DEF r1, a1, soon, r, a, n
      <4>. QED BY <3>3, <4>1, <4>2
    <3>. HIDE DEF n, r, a, all, soon
    <3>9. soon <= all + JsonBytes /\ soon + InArchive + Headroom <= disk
      BY <3>3, <3>8
    <3>10. /\ AllUrls' = AllUrls /\ InArchive' = InArchive
           /\ AsListed(AllUrls)' = AsListed(AllUrls)
           /\ estimate_required_space' = estimate_required_space
      BY <3>7, ListingStays
    <3>11. FilesAreListed'
      BY <3>0, <3>7, <3>10 DEF FilesAreListed
    <3>12. RoomIsLeft'
      BY <3>0, <3>7, <3>9, <3>10 DEF RoomIsLeft, all, soon
    <3>. QED BY <3>0, <3>7, <3>10, <3>11, <3>12 DEF HasRoom, Verified
  <2>. QED BY <2>2, <2>3
<1>. QED BY <1>1, <1>2 DEF Archived

LEMMA WriteTarHasRoom == ExportTyped /\ HasRoom /\ Unfailed /\ write_tarfile => HasRoom'
<1>. SUFFICES ASSUME ExportTyped, HasRoom, Unfailed, write_tarfile PROVE HasRoom'
  OBVIOUS
<1>1. export.at = "tar"
  BY DEF write_tarfile
<1>2. CASE Archived(DataFile, ExportGo("done"))
  <2>. DEFINE next == ExportGo("done")
  <2>1. /\ next.at = "done" /\ next.images = export.images /\ next.recipes = export.recipes
        /\ next.tar = export.tar /\ next.why = export.why
        /\ next.estimates = export.estimates /\ next.edited = export.edited
    BY DEF ExportGo, ExportTyped, ExportRecord
  <2>2. Archived(DataFile, next)
    BY <1>2
  <2>. HIDE DEF next
  <2>. QED BY <1>1, <2>1, <2>2, ArchivedHasRoom
<1>3. ASSUME NEW u \in export.todo,
             Archived(export.relpath[u], [export EXCEPT !.todo = @ \ {u}])
      PROVE  HasRoom'
  <2>. DEFINE next == [export EXCEPT !.todo = @ \ {u}]
  <2>1. /\ next.at = "tar" /\ next.images = export.images /\ next.recipes = export.recipes
        /\ next.tar = export.tar /\ next.why = export.why
        /\ next.estimates = export.estimates /\ next.edited = export.edited
    BY <1>1 DEF ExportTyped, ExportRecord
  <2>2. Archived(export.relpath[u], next)
    BY <1>3
  <2>. HIDE DEF next
  <2>. QED BY <1>1, <2>1, <2>2, ArchivedHasRoom
<1>. QED BY <1>2, <1>3 DEF write_tarfile

LEMMA UrlEditedHasRoom ==
    ASSUME ExportTyped, NEW u \in Url, UrlEdited(u)
    PROVE  HasRoom'
<1>1. export'.edited
  BY DEF UrlEdited, ExportTyped, ExportRecord
<1>. QED BY <1>1 DEF HasRoom, Estimated

\* An image is downloaded once: it is then no longer to be downloaded.
LEMMA ImagesOnceStays ==
    ASSUME ExportTyped, ImagesOnce, export'.at \in {"manifests", "estimate"} =>
               /\ export.at \in {"manifests", "estimate"}
               /\ export'.images = export.images /\ export'.todo = export.todo /\ files' = files
    PROVE  ImagesOnce'
BY DEF ImagesOnce

LEMMA ImagesOnceNext == ExportTyped /\ ImagesOnce /\ [ExportNext]_exportVars => ImagesOnce'
<1>. SUFFICES ASSUME ExportTyped, ImagesOnce, [ExportNext]_exportVars PROVE ImagesOnce'
  OBVIOUS
<1>1. CASE UNCHANGED exportVars
  BY <1>1, ImagesOnceStays DEF exportVars
<1>2. ASSUME NEW artifacts \in BOOLEAN, NEW tar \in BOOLEAN, NEW deleted \in BOOLEAN,
             StartExport(artifacts, tar, deleted)
      PROVE  ImagesOnce'
  <2>1. export'.at \in {"bos", "json"}
    BY <1>2 DEF StartExport, ExportOnly, ExportTyped, ExportRecord
  <2>. QED BY <2>1, ImagesOnceStays
<1>3. CASE get_all_s3_links
  <2>1. export'.at \in {"bss", "catalog", "plan"}
    BY <1>3 DEF get_all_s3_links, ExportOnly, ExportTyped, ExportRecord
  <2>. QED BY <2>1, ImagesOnceStays
<1>4. CASE plan_manifests
  <2>1. files' = {}
    BY <1>4 DEF plan_manifests, ExportOnly, ExportTyped
  <2>. QED BY <2>1 DEF ImagesOnce
<1>5. CASE download
  <2>0. export.at \in {"manifests", "download"}
    BY <1>5 DEF download
  <2>1. CASE export.at = "download"
    <3>1. export'.at \in {"download", "json", "failed"}
      BY <1>5, <2>1 DEF download, WriteFile, ExportOnly, ExportGo, ExportFail, ExportTyped, ExportRecord
    <3>. QED BY <3>1, ImagesOnceStays
  <2>2. CASE export.at = "manifests"
    <3>1. CASE export.todo = {} /\ ExportOnly(ExportGo("estimate"))
      <4>1. /\ export'.images = export.images /\ export'.todo = export.todo /\ files' = files
        BY <3>1 DEF ExportOnly, ExportGo, ExportTyped, ExportRecord
      <4>. QED BY <2>2, <4>1, ImagesOnceStays
    <3>2. ASSUME NEW why, ExportOnly(ExportFail(why)) PROVE ImagesOnce'
      <4>1. export'.at = "failed"
        BY <3>2 DEF ExportOnly, ExportFail, ExportTyped, ExportRecord
      <4>. QED BY <4>1, ImagesOnceStays
    <3>3. ASSUME NEW u \in export.todo, export' = [export EXCEPT !.todo = @ \ {u}],
                 files' = {f \in files : f[1] # export.relpath[u]}
                          \cup {<<export.relpath[u], u, size[u]>>}
          PROVE  ImagesOnce'
      <4>1. /\ export'.images = export.images /\ export'.todo = export.todo \ {u}
            /\ u \in export.images
        BY <2>2, <3>3 DEF ExportTyped, ExportRecord
      <4>2. \A f \in files' : f = <<export.relpath[u], u, size[u]>> \/ (f \in files /\ f[2] # u)
        BY <2>2, <3>3 DEF ImagesOnce
      <4>3. \A f \in files : f[2] \in export.images \ export.todo
        BY <2>2 DEF ImagesOnce
      <4>4. \A f \in files' : f[2] \in export'.images \ export'.todo
        BY <4>1, <4>2, <4>3
      <4>5. \A f, g \in files' : f[2] = g[2] => f = g
        <5>. TAKE f, g \in files'
        <5>1. CASE f[2] = u \/ g[2] = u
          BY <4>2, <5>1
        <5>2. CASE f[2] # u /\ g[2] # u
          <6>1. f \in files /\ g \in files
            BY <4>2, <5>2
          <6>. QED BY <2>2, <6>1 DEF ImagesOnce
        <5>. QED BY <5>1, <5>2
      <4>. QED BY <4>4, <4>5 DEF ImagesOnce
    <3>. QED BY <1>5, <2>2, <3>1, <3>2, <3>3 DEF download, WriteFile
  <2>. QED BY <2>0, <2>1, <2>2
<1>6. CASE verify_free_space
  <2>. DEFINE base == [ExportGo("download") EXCEPT !.estimates = estimate_required_space,
                                                   !.edited = Outgrown]
              paths == ToDownload(base, undownloaded_s3_urls).relpath
  <2>1. export'.at \in {"download", "failed"}
    BY <1>6 DEF verify_free_space, ExportOnly, ExportGo, ExportFail, ExportTyped, ExportRecord, ToDownload
  <2>. QED BY <2>1, ImagesOnceStays
<1>7. CASE write_exported_data \/ write_tarfile
  <2>1. export'.at \in {"tar", "done", "failed"}
    BY <1>7 DEF write_exported_data, write_tarfile, WriteFile, Archived, ExportOnly, ExportGo,
                ExportFail, ExportTyped, ExportRecord
  <2>. QED BY <2>1, ImagesOnceStays
<1>8. ASSUME NEW u \in Url, UrlEdited(u) PROVE ImagesOnce'
  <2>1. /\ export'.at = export.at /\ export'.images = export.images
        /\ export'.todo = export.todo /\ files' = files
    BY <1>8 DEF UrlEdited, ExportTyped, ExportRecord
  <2>. QED BY <2>1, ImagesOnceStays
<1>. QED BY <1>1, <1>2, <1>3, <1>4, <1>5, <1>6, <1>7, <1>8 DEF ExportNext, do_export

LEMMA UnfailedNext == ExportTyped /\ Unfailed /\ [ExportNext]_exportVars => Unfailed'
<1>. SUFFICES ASSUME ExportTyped, Unfailed, [ExportNext]_exportVars PROVE Unfailed'
  OBVIOUS
<1>1. CASE UNCHANGED exportVars
  BY <1>1 DEF exportVars, Unfailed
<1>2. ASSUME export.at # "failed", export'.why = export.why PROVE Unfailed'
  BY <1>2 DEF Unfailed
<1>3. ASSUME NEW why, ExportOnly(ExportFail(why)) PROVE Unfailed'
  BY <1>3 DEF ExportOnly, ExportFail, ExportTyped, ExportRecord, Unfailed
<1>4. ASSUME NEW artifacts \in BOOLEAN, NEW tar \in BOOLEAN, NEW deleted \in BOOLEAN,
             StartExport(artifacts, tar, deleted)
      PROVE  Unfailed'
  BY <1>2, <1>4 DEF StartExport, ExportOnly, ExportTyped, ExportRecord
<1>5. CASE get_all_s3_links
  BY <1>2, <1>5 DEF get_all_s3_links, ExportOnly, ExportTyped, ExportRecord
<1>6. CASE plan_manifests
  BY <1>2, <1>6 DEF plan_manifests, ToDownload, get_image_recipe_s3_urls, ExportOnly, ExportTyped,
                    ExportRecord
<1>7. CASE download
  <2>1. export.at # "failed"
    BY <1>7 DEF download
  <2>2. \/ export'.why = export.why
        \/ ExportOnly(ExportFail("gone")) \/ ExportOnly(ExportFail("disk full"))
    BY <1>7 DEF download, WriteFile, ExportOnly, ExportGo, ExportTyped, ExportRecord
  <2>. QED BY <1>2, <1>3, <2>1, <2>2
<1>8. CASE verify_free_space
  <2>1. export.at # "failed"
    BY <1>8 DEF verify_free_space
  <2>2. \/ export'.why = export.why
        \/ ExportOnly(ExportFail("unlisted")) \/ ExportOnly(ExportFail("no room"))
    BY <1>8 DEF verify_free_space, ToDownload, ExportOnly, ExportGo, ExportTyped, ExportRecord
  <2>. QED BY <1>2, <1>3, <2>1, <2>2
<1>9. CASE write_exported_data
  <2>1. export.at # "failed"
    BY <1>9 DEF write_exported_data
  <2>2. export'.why = export.why \/ ExportOnly(ExportFail("disk full"))
    BY <1>9 DEF write_exported_data, WriteFile, ExportGo, ExportTyped, ExportRecord
  <2>. QED BY <1>2, <1>3, <2>1, <2>2
<1>10. CASE write_tarfile
  <2>1. export.at # "failed"
    BY <1>10 DEF write_tarfile
  <2>2. \/ export'.why = export.why
        \/ ExportOnly(ExportFail("file lost")) \/ ExportOnly(ExportFail("disk full"))
    BY <1>10 DEF write_tarfile, Archived, ExportGo, ExportTyped, ExportRecord
  <2>. QED BY <1>2, <1>3, <2>1, <2>2
<1>11. ASSUME NEW u \in Url, UrlEdited(u) PROVE Unfailed'
  BY <1>2, <1>11 DEF UrlEdited, ExportTyped, ExportRecord
<1>. QED BY <1>1, <1>4, <1>5, <1>6, <1>7, <1>8, <1>9, <1>10, <1>11 DEF ExportNext, do_export

Roomy == HasRoom /\ ImagesOnce /\ Unfailed

LEMMA RoomyInit == ExportInit => Roomy
BY DEF ExportInit, NewExport, Roomy, HasRoom, Estimated, ImagesOnce, Unfailed

LEMMA RoomyNext == ExportTyped /\ Roomy /\ [ExportNext]_exportVars => Roomy'
<1>. SUFFICES ASSUME ExportTyped, HasRoom, ImagesOnce, Unfailed, [ExportNext]_exportVars
              PROVE  HasRoom'
  BY ImagesOnceNext, UnfailedNext DEF Roomy
<1>1. CASE UNCHANGED exportVars
  <2>1. UNCHANGED <<export, size, files, archive, disk>>
    BY <1>1 DEF exportVars
  <2>2. CASE ~Estimated
    BY <2>1, <2>2, UnestimatedHasRoom
  <2>3. CASE Estimated
    <3>1. FilesAreListed' /\ Used' = Used
      BY <2>1, <2>3, ListingStays DEF HasRoom, FilesAreListed, Used
    <3>2. RoomIsLeft'
      BY <2>1, <2>3, <3>1, ListingStays DEF HasRoom, RoomIsLeft
    <3>. QED BY <2>1, <2>3, <3>1, <3>2, ListingStays DEF HasRoom
  <2>. QED BY <2>2, <2>3
<1>2. ASSUME NEW artifacts \in BOOLEAN, NEW tar \in BOOLEAN, NEW deleted \in BOOLEAN,
             StartExport(artifacts, tar, deleted)
      PROVE  HasRoom'
  BY <1>2, StartHasRoom
<1>3. CASE do_export
  BY <1>3, LinksHaveRoom, PlanHasRoom, DownloadHasRoom, VerifyHasRoom, WriteDataHasRoom,
     WriteTarHasRoom
  DEF do_export
<1>4. ASSUME NEW u \in Url, UrlEdited(u) PROVE HasRoom'
  BY <1>4, UrlEditedHasRoom
<1>. QED BY <1>1, <1>2, <1>3, <1>4 DEF ExportNext

\* While S3 is as it was listed, an export that found enough free space never fills the
\* file system, and never has more bytes than the total that it estimated.
THEOREM SpaceIsEnough == ExportSpec => []SpaceSuffices
<1>1. ExportTyped /\ Roomy => SpaceSuffices
  <2>. SUFFICES ASSUME ExportTyped, HasRoom, Estimated
                PROVE  export.why # "disk full" /\ Bytes(Kept) <= export.estimates[2]
    BY DEF Roomy, SpaceSuffices, Estimated
  <2>1. export.estimates[2] = JsonBytes + InArchive + Headroom + Bytes(AsListed(AllUrls))
    <3>1. export.estimates = estimate_required_space
      BY DEF HasRoom
    <3>2. \A x, y : <<x, y>>[2] = y
      OBVIOUS
    <3>. QED BY <3>1, <3>2, EstimateIs, Zenon
  <2>. DEFINE f == Bytes(files)
              a == Bytes(archive)
              k == Bytes(files \cup archive)
              all == Bytes(AsListed(AllUrls))
  <2>2. /\ f \in Nat /\ a \in Nat /\ all \in Nat /\ f + a <= all + JsonBytes
        /\ JsonBytes \in Nat /\ InArchive \in Nat /\ Headroom \in Nat
    BY RoomNumbers DEF HasRoom, RoomIsLeft, Used
  <2>3. k <= f + a /\ k \in Nat
    <3>1. Sized(files) /\ Sized(archive)
      BY RoomNumbers
    <3>2. Sized(files \cup archive)
      BY <3>1, BytesOfUnion
    <3>. QED BY <3>1, <3>2, BytesFacts
  <2>4. k <= JsonBytes + InArchive + Headroom + all
    <3>. HIDE DEF f, a, k, all
    <3>. QED BY <2>2, <2>3
  <2>. QED BY <2>1, <2>4 DEF HasRoom, Kept
<1>. QED BY <1>1, ExportTypedInit, ExportTypedNext, RoomyInit, RoomyNext, PTL DEF ExportSpec

-----------------------------------------------------------------------------
(* The composition: one of the programs runs, the state of the others stays *)
(* as it is at rest.                                                        *)

\* A behaviour is one of the import of CFS, or leaves its variables at rest.
LEMMA CfsAlone == Spec => CfsSpec \/ ([]CfsAtRest /\ [][FALSE]_cfsVars)
<1>1. Init => (At("CFS") => CfsInit) /\ (~At("CFS") => CfsAtRest)
  BY DEF Init
<1>2. [Next]_vars => (At("CFS") <=> At("CFS")')
  BY DEF Next, vars, At
<1>3. At("CFS") /\ [Next]_vars => [CfsNext]_cfsVars
  BY DEF Next, vars, At
<1>4. ~At("CFS") /\ [Next]_vars => UNCHANGED cfsVars
  BY DEF Next, vars, At
<1>5. CfsAtRest /\ UNCHANGED cfsVars => CfsAtRest'
  BY DEF CfsAtRest, cfsVars
<1>. QED BY <1>1, <1>2, <1>3, <1>4, <1>5, PTL DEF Spec, CfsSpec

\* The same for the import of BOS.
LEMMA BosAlone == Spec => BosSpec \/ ([]BosAtRest /\ [][FALSE]_bosVars)
<1>1. Init => (At("BOS") => BosInit) /\ (~At("BOS") => BosAtRest)
  BY DEF Init
<1>2. [Next]_vars => (At("BOS") <=> At("BOS")')
  BY DEF Next, vars, At
<1>3. At("BOS") /\ [Next]_vars => [BosNext]_bosVars
  BY DEF Next, vars, At
<1>4. ~At("BOS") /\ [Next]_vars => UNCHANGED bosVars
  BY DEF Next, vars, At
<1>5. BosAtRest /\ UNCHANGED bosVars => BosAtRest'
  BY DEF BosAtRest, bosVars
<1>. QED BY <1>1, <1>2, <1>3, <1>4, <1>5, PTL DEF Spec, BosSpec

\* The same for the import of IMS.
LEMMA ImsAlone == Spec => ImsSpec \/ ([]ImsAtRest /\ [][FALSE]_imsVars)
<1>1. Init => (At("IMS") => ImsInit) /\ (~At("IMS") => ImsAtRest)
  BY DEF Init
<1>2. [Next]_vars => (At("IMS") <=> At("IMS")')
  BY DEF Next, vars, At
<1>3. At("IMS") /\ [Next]_vars => [ImsNext]_imsVars
  BY DEF Next, vars, At
<1>4. ~At("IMS") /\ [Next]_vars => UNCHANGED imsVars
  BY DEF Next, vars, At
<1>5. ImsAtRest /\ UNCHANGED imsVars => ImsAtRest'
  BY DEF ImsAtRest, imsVars
<1>. QED BY <1>1, <1>2, <1>3, <1>4, <1>5, PTL DEF Spec, ImsSpec

\* The same for the export of IMS.
LEMMA ExportAlone == Spec => ExportSpec \/ ([]ExportAtRest /\ [][FALSE]_exportVars)
<1>1. Init => (At("IMS export") => ExportInit) /\ (~At("IMS export") => ExportAtRest)
  BY DEF Init
<1>2. [Next]_vars => (At("IMS export") <=> At("IMS export")')
  BY DEF Next, vars, At
<1>3. At("IMS export") /\ [Next]_vars => [ExportNext]_exportVars
  BY DEF Next, vars, At
<1>4. ~At("IMS export") /\ [Next]_vars => UNCHANGED exportVars
  BY DEF Next, vars, At
<1>5. ExportAtRest /\ UNCHANGED exportVars => ExportAtRest'
  BY DEF ExportAtRest, exportVars
<1>. QED BY <1>1, <1>2, <1>3, <1>4, <1>5, PTL DEF Spec, ExportSpec

\* The pool starts, and takes its steps when it is the one that runs.
LEMMA PoolAlone == Spec => PoolInit /\ [][PoolNext]_poolVars
<1>1. Init => PoolInit
  BY DEF Init
<1>2. [Next]_vars => [PoolNext]_poolVars
  BY DEF Next, vars
<1>. QED BY <1>1, <1>2, PTL DEF Spec

\* Whichever service is restored, an import that says it succeeded has brought in all
\* of its export, whatever failing requests, earlier runs and users did meanwhile.
THEOREM AllImportsAreComplete == Spec => []ImportsAreComplete
<1>1. CfsAtRest => ImportIsComplete
  BY DEF CfsAtRest, CfsNewRun, ImportIsComplete
<1>2. BosAtRest => BosImportIsComplete
  BY DEF BosAtRest, NewRun, BosImportIsComplete
<1>3. ImsAtRest => ImsImportIsComplete
  BY DEF ImsAtRest, ImsNewRun, ImsImportIsComplete
<1>. QED BY <1>1, <1>2, <1>3, CfsAlone, BosAlone, ImsAlone, ImportsAreWhole, NothingIsMissing,
            ImsImportsAreComplete, PTL DEF ImportsAreComplete

\* Whichever service is restored, nothing that was not exported before is deleted or
\* replaced, unless users changed it after the export.
THEOREM NothingIsLost == Spec => NothingUnexportedIsLost
<1>. QED BY CfsAlone, BosAlone, ImsAlone, RemovedWasExported, BosRemovedWasExported,
            DeletedWasBackedUp, PTL
         DEF NothingUnexportedIsLost, RemovedIsExported, BosRemovedIsExported, DeletedIsBackedUp

\* Whichever service is restored, a run without the option to clear or to overwrite
\* changes nothing of what was there when it read the service.
THEOREM WhatExistsStays == Spec => ExistingStays
<1>. QED BY CfsAlone, BosAlone, ImsAlone, ExistingDoesStay, BosExistingDoesStay, OthersDoStay, PTL
         DEF ExistingStays, ExistingIsKept, BosExistingIsKept, OthersAreKept

\* The state of all programs is always well-formed, if the version of CFS that stands
\* at rest for any is one of the versions.
THEOREM AllTypesCorrect == <<1, 18, 10>> \in CfsVersions => (Spec => []ConfigTypeOK)
<1>1. ASSUME <<1, 18, 10>> \in CfsVersions PROVE CfsAtRest => CfsTypeOK
  <2>1. CfsNewRun.at = "idle" /\ CfsNewRun.read = 0 /\ CfsNewRun.clear = FALSE
        /\ CfsNewRun.ignore = FALSE /\ CfsNewRun.trouble = FALSE /\ CfsNewRun.plan = NoPlan
    BY DEF CfsNewRun
  <2>2. CfsAtRest => cfs \in CfsContents /\ cfsData \in CfsContents /\ cfsLocal \in CfsContents
                     /\ cfsSnap \in CfsContents
    BY UnreadTyped DEF CfsAtRest
  <2>3. /\ NoPlan.options = {} /\ NoPlan.sources = {} /\ NoPlan.configs = {}
        /\ NoPlan.components = {}
    BY DEF NoPlan
  <2>4. CfsAtRest => /\ cfsRun.plan.options \subseteq CfsOption /\ cfsRun.plan.sources \subseteq CfsSource
                     /\ cfsRun.plan.configs \subseteq CfsConfig
                     /\ cfsRun.plan.components \subseteq CfsComponent \ {EmptyId}
    BY <2>1, <2>3 DEF CfsAtRest
  <2>5. ASSUME CfsAtRest
        PROVE  /\ cfsVersion \in CfsVersions /\ cfsSession \in BOOLEAN /\ cfsRun.at \in Places
               /\ cfsRun.clear \in BOOLEAN /\ cfsRun.ignore \in BOOLEAN
               /\ cfsRun.trouble \in BOOLEAN /\ cfsAsked \subseteq CfsComponent
    <3>1. "idle" \in Places
      BY DEF Places
    <3>. QED BY <1>1, <2>1, <2>5, <3>1 DEF CfsAtRest
  <2>6. ASSUME CfsAtRest
        PROVE  /\ cfsRun.read \in 0..3 /\ cfsEdits \in 0..MaxCfsEdits /\ cfsRuns \in 0..MaxCfsRuns
    <3>1. 0 \in 0..3 /\ 0 \in 0..MaxCfsEdits /\ 0 \in 0..MaxCfsRuns
      BY CfsAssumption
    <3>. QED BY <2>1, <2>6, <3>1 DEF CfsAtRest
  <2>. QED BY <2>2, <2>4, <2>5, <2>6 DEF CfsTypeOK
<1>2. BosAtRest => BosTypeOK
  BY BosAssumption DEF BosAtRest, BosTypeOK, NewRun, NothingRead, BosContents, BosPlaces
<1>3. ImsAtRest => ImsTypeOK
  <2>1. NoTable \in Table
    BY DEF NoTable, Table
  <2>2. NothingLoaded.live = NoTable /\ NothingLoaded.deleted = NoTable /\ NothingLoaded.jobs = {}
    BY DEF NothingLoaded
  <2>3. ImsNewRun.at = "idle" /\ ImsNewRun.type = "add" /\ ImsNewRun.read = 1
        /\ ImsNewRun.kind = 1 /\ ImsNewRun.live = NoTable /\ ImsNewRun.why = "nothing"
    BY DEF ImsNewRun
  <2>. QED BY <2>1, <2>2, <2>3, ImsAssumption DEF ImsAtRest, ImsTypeOK, ImsPlaces, ImportTypes
<1>4. ExportAtRest => ExportTypeOK
  <2>1. /\ NewExport.at = "idle" /\ NewExport.images = {} /\ NewExport.recipes = {}
        /\ NewExport.links = {} /\ NewExport.todo = {} /\ NewExport.why = "nothing"
    BY DEF NewExport
  <2>2. "idle" \in ExportPlaces
    BY DEF ExportPlaces
  <2>4. 0 \in 0..MaxUrlEdits
    <3>1. MaxUrlEdits \in Nat
      BY ExportAssumption
    <3>. QED BY <3>1
  <2>3. ASSUME ExportAtRest PROVE export = NewExport /\ files = {} /\ archive = {} /\ urlEdits = 0
    BY <2>3 DEF ExportAtRest
  <2>. QED BY <2>1, <2>2, <2>3, <2>4 DEF ExportTypeOK
<1>5. ASSUME <<1, 18, 10>> \in CfsVersions PROVE Spec => []ConfigTypeOK
  <2>1. CfsAtRest => CfsTypeOK
    BY <1>1, <1>5
  <2>2. CfsTypeOK /\ BosTypeOK /\ ImsTypeOK /\ ExportTypeOK /\ PoolTypeOK => ConfigTypeOK
    BY DEF ConfigTypeOK
  <2>. QED BY <2>1, <2>2, <1>2, <1>3, <1>4, CfsAlone, BosAlone, ImsAlone, ExportAlone, PoolAlone,
              CfsTypeCorrect, BosTypeCorrect, ImsTypeCorrect, ExportTypeCorrect, PoolTypeCorrect,
              PTL DEF PoolSpec
<1>. QED BY <1>5

\* If all artifacts of a kind have names of their own, an export of IMS that says it
\* succeeded can be imported; and while S3 is as it was listed, the space is enough.
THEOREM ExportsAreWhole == NamesApart => (Spec => []ExportIsWhole)
<1>1. ExportAtRest => ExportIsWhole
  BY DEF ExportAtRest, NewExport, ExportIsWhole, ExportCanBeImported, SpaceSuffices
<1>2. ASSUME NamesApart PROVE Spec => []ExportIsWhole
  <2>1. ExportSpec => []ExportCanBeImported
    BY <1>2, ExportsCanBeImported
  <2>2. ExportCanBeImported /\ SpaceSuffices => ExportIsWhole
    BY DEF ExportIsWhole
  <2>. QED BY <1>1, <2>1, <2>2, SpaceIsEnough, ExportAlone, PTL
<1>. QED BY <1>2

=============================================================================
