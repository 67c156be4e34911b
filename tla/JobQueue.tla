------------------------------ MODULE JobQueue ------------------------------
(***************************************************************************)
(* The durable job queue of internal/storage/jobs*.go: the jobs table, the  *)
(* leases it hands to API workers and Runners, the accepted results, the    *)
(* parent batches and the daily download budget.                            *)
(*                                                                          *)
(* Every action is one committed PostgreSQL transaction.  Each of them      *)
(* locks the job rows it changes (FOR UPDATE, or the row lock of an UPDATE), *)
(* so two of them never interleave on one job; a transaction that returns   *)
(* an error rolls back and is a stuttering step.  Workers are not trusted   *)
(* to be alive, unique or punctual: whoever was ever given a lease may use  *)
(* its identity at any later time, any number of times.                     *)
(*                                                                          *)
(* Time is abstracted to what the SQL asks of it: a lease is live           *)
(* (lease_until > clock_timestamp()) until LeaseRunsOut, and the budget      *)
(* bucket in use is the one of the current UTC day.                         *)
(***************************************************************************)
EXTENDS Integers, FiniteSets, FiniteSetsExt

CONSTANTS
    Job,          \* job ids; their order is the queue order (created_at, id)
    Type,         \* [Job -> Types]: the job's type column
    TestJob,      \* jobs with a test_jobs row, the only ones revocation reaches
    Batches,      \* disjoint sets of jobs inserted under one job_batches row
    Bytes,        \* [Job -> bytes]: the frozen Limits.MaxBytes of a network job
    ApiWorkers, Runners, NoWorker,
    Slots,        \* [Runners -> [connectivity, throughput]]: registered slots
    Quotas,       \* the quota settings an administrator may store
    MaxDay        \* bound: number of UTC days a behaviour spans

Network == {"connectivity", "download_throughput"}
RunnerTypes == {"config_validate"} \cup Network
ApiTypes == {"import_parse", "source_refresh", "compile"}
Terminal == {"succeeded", "failed", "canceled", "timed_out"}
Held == {"leased", "running"}
States == {"none", "queued"} \cup Held \cup Terminal
Phases == {"none", "queued", "leased", "progress", "canceling", "completed"}
MaxAttempts == 2
Days == 1..MaxDay
Workers == ApiWorkers \cup Runners

ASSUME JobAssumption ==
    /\ Job \subseteq Nat
    /\ IsFiniteSet(Job)
    /\ Type \in [Job -> ApiTypes \cup RunnerTypes]
    /\ TestJob \subseteq {j \in Job : Type[j] \in RunnerTypes}
    /\ Bytes \in [Job -> Nat \ {0}]
ASSUME BatchAssumption ==
    /\ Batches \subseteq SUBSET Job
    /\ \A a, b \in Batches : a # b => a \cap b = {}
ASSUME WorkerAssumption ==
    /\ ApiWorkers \cap Runners = {}
    /\ NoWorker \notin Workers
    /\ Slots \in [Runners -> [connectivity : Nat, throughput : Nat]]
ASSUME QuotaAssumption ==
    /\ Quotas # {}
    /\ Quotas \subseteq [daily : Nat \ {0}, maxTest : Nat \ {0},
                         connectivity : Nat \ {0}, throughput : Nat \ {0}]
    /\ MaxDay \in Nat \ {0}

VARIABLES
    job,         \* the jobs table, one row per id
    batch,       \* [Batches -> BOOLEAN]: job_batches.cancel_requested_at is set
    leases,      \* lease identities ever handed out (in workers' hands)
    accepted,    \* the job_results table
    committed,   \* [Job -> Nat]: business callbacks committed for the job
    res,         \* quota_reservations by job and attempt
    bucket,      \* quota_buckets by UTC day
    today, quota, revoked

quotaVars == <<res, bucket>>
envVars == <<today, quota, revoked>>
vars == <<job, batch, leases, accepted, committed, res, bucket, envVars>>

Row == [state : States, attempt : 0..MaxAttempts, leaseSeq : Nat, revision : Nat,
        worker : Workers \cup {NoWorker}, live : BOOLEAN, cancel : BOOLEAN,
        phase : Phases]
NoRow == [state |-> "none", attempt |-> 0, leaseSeq |-> 0, revision |-> 0,
          worker |-> NoWorker, live |-> FALSE, cancel |-> FALSE, phase |-> "none"]
LeaseIdentity == [job : Job, worker : Workers, attempt : 1..MaxAttempts, leaseSeq : Nat]
Result == [lease : LeaseIdentity, state : Terminal, commit : BOOLEAN]

\* A reservation row; day = 0 stands for "no such row".
Reservation == [day : 0..MaxDay, open : BOOLEAN, used : Nat]
NoReservation == [day |-> 0, open |-> FALSE, used |-> 0]

IsNetwork(j) == Type[j] \in Network
Exists(j) == job[j].state # "none"
LiveLease(j) == job[j].state \in Held /\ job[j].live
Lone(j) == \A b \in Batches : j \notin b

Init ==
    /\ job = [j \in Job |-> NoRow]
    /\ batch = [b \in Batches |-> FALSE]
    /\ leases = {} /\ accepted = {}
    /\ committed = [j \in Job |-> 0]
    /\ res = [j \in Job |-> [n \in 1..MaxAttempts |-> NoReservation]]
    /\ bucket = [d \in Days |-> [reserved |-> 0, settled |-> 0]]
    /\ today = 1 /\ quota \in Quotas /\ revoked = {}

-----------------------------------------------------------------------------
(* Budget: reserveAttempt, settleAttempt (jobs_quota.go).                   *)

SumBytes(S) == MapThenSumSet(LAMBDA j : Bytes[j], S)

\* Variant: only what is already settled counts against the daily limit.
FitsIgnoringReserved(b, bytes) == b[today].settled + bytes <= quota.daily

\* reserveAttempt's UPDATE predicate: the bytes fit today's bucket.
Fits(b, bytes) == b[today].settled + b[today].reserved + bytes <= quota.daily

OpenReservation == [day |-> today, open |-> TRUE, used |-> 0]
Closed(r, used) == [r EXCEPT !.open = FALSE, !.used = used]

\* reserveAttempt for one more attempt of j against the buckets b: a row that
\* exists is reused, otherwise the size and the daily limits are checked.
CanReserve(b, j, n) ==
    \/ res[j][n].day # 0
    \/ Bytes[j] <= quota.maxTest /\ Fits(b, Bytes[j])

Reserve(b, j, n) ==
    IF res[j][n].day # 0 THEN b
    ELSE [b EXCEPT ![today].reserved = @ + Bytes[j]]

\* Variant: the sign of the settled bytes is wrong.
SettleSubtracting(b, j, n, used) ==
    IF ~res[j][n].open THEN b
    ELSE [b EXCEPT ![res[j][n].day] =
            [reserved |-> @.reserved - Bytes[j], settled |-> @.settled - used]]

\* Variant: the whole reservation is settled whatever was used.
SettleWhole(b, j, n, used) ==
    IF ~res[j][n].open THEN b
    ELSE [b EXCEPT ![res[j][n].day] =
            [reserved |-> @.reserved - Bytes[j], settled |-> @.settled + Bytes[j]]]

\* settleAttempt: the reservation leaves the bucket of its own day; a settled
\* one is left as it is.
Settle(b, j, n, used) ==
    IF ~res[j][n].open THEN b
    ELSE [b EXCEPT ![res[j][n].day] =
            [reserved |-> @.reserved - Bytes[j], settled |-> @.settled + used]]

-----------------------------------------------------------------------------
(* Admission: EnqueueTx and CreateBatchTx.                                  *)

QueuedRow == [NoRow EXCEPT !.state = "queued", !.revision = 1, !.phase = "queued"]

\* Insert the rows of S with the reservation of their first attempt, all in
\* one transaction: the first child over budget rolls every insert back.
Insert(S) ==
    LET net == {j \in S : IsNetwork(j)} IN
    /\ \A j \in S : ~Exists(j)
    /\ \A j \in net : Bytes[j] <= quota.maxTest
    /\ net # {} => Fits(bucket, SumBytes(net))
    /\ job' = [j \in Job |-> IF j \in S THEN QueuedRow ELSE job[j]]
    /\ res' = [j \in Job |-> IF j \in net THEN [res[j] EXCEPT ![1] = OpenReservation]
                             ELSE res[j]]
    /\ bucket' = [bucket EXCEPT ![today].reserved = @ + SumBytes(net)]
    /\ UNCHANGED <<batch, leases, accepted, committed, envVars>>

Enqueue(j) == Lone(j) /\ Insert({j})

CreateBatch(b) == Insert(b)

-----------------------------------------------------------------------------
(* Cancellation: cancelChild, Cancel.                                       *)

Cancelable(j) == /\ job[j].state \in {"queued"} \cup Held
                 /\ ~job[j].cancel

\* Variant: a queued job that is canceled gets the event of a running one.
CancelRowNoCompletion(r) ==
    [r EXCEPT !.cancel = TRUE, !.revision = @ + 1,
              !.state = IF @ = "queued" THEN "canceled" ELSE @,
              !.phase = "canceling"]

CancelRow(r) ==
    [r EXCEPT !.cancel = TRUE, !.revision = @ + 1,
              !.state = IF @ = "queued" THEN "canceled" ELSE @,
              !.phase = IF r.state = "queued" THEN "completed" ELSE "canceling"]

\* The reservation a queued network job holds is for the attempt it has not
\* started: cancelChild settles it at zero bytes.
Unstarted(S) == {j \in S : job[j].state = "queued" /\ IsNetwork(j)}

Released(S) ==
    [d \in Days |->
        LET back == {j \in Unstarted(S) : /\ res[j][job[j].attempt + 1].open
                                          /\ res[j][job[j].attempt + 1].day = d}
        IN [bucket[d] EXCEPT !.reserved = @ - SumBytes(back)]]

\* Variant: the reservation of the last attempt is settled, not of the next.
ReleasedResLast(S) ==
    [j \in Job |->
        IF j \in Unstarted(S)
        THEN [n \in 1..MaxAttempts |->
                IF n = job[j].attempt /\ res[j][n].open
                THEN Closed(res[j][n], 0) ELSE res[j][n]]
        ELSE res[j]]

ReleasedRes(S) ==
    [j \in Job |->
        IF j \in Unstarted(S)
        THEN [n \in 1..MaxAttempts |->
                IF n = job[j].attempt + 1 /\ res[j][n].open
                THEN Closed(res[j][n], 0) ELSE res[j][n]]
        ELSE res[j]]

\* Cancel on a job id with the revision the caller read (a stale revision is
\* ErrRevisionConflict, a cancel of a finished or canceling job changes nothing).
Cancel(j) ==
    /\ Cancelable(j)
    /\ job' = [job EXCEPT ![j] = CancelRow(@)]
    /\ bucket' = Released({j})
    /\ res' = ReleasedRes({j})
    /\ UNCHANGED <<batch, leases, accepted, committed, envVars>>

\* Cancel on a batch id: the batch row, then every child.
CancelBatch(b) ==
    LET children == {j \in b : Cancelable(j)} IN
    /\ \A j \in b : Exists(j)
    /\ \E j \in b : job[j].state \notin Terminal
    /\ ~batch[b]
    /\ batch' = [batch EXCEPT ![b] = TRUE]
    /\ job' = [j \in Job |-> IF j \in children THEN CancelRow(job[j]) ELSE job[j]]
    /\ bucket' = Released(children)
    /\ res' = ReleasedRes(children)
    /\ UNCHANGED <<leases, accepted, committed, envVars>>

-----------------------------------------------------------------------------
(* Claiming: claimCandidate and Claim.                                      *)

Claimable(j) == job[j].state = "queued" /\ ~job[j].cancel

LeaseOf(j) == [job |-> j, worker |-> job[j].worker, attempt |-> job[j].attempt,
               leaseSeq |-> job[j].leaseSeq]

LeaseRow(r, w) ==
    [r EXCEPT !.state = "leased", !.attempt = @ + 1, !.leaseSeq = @ + 1,
              !.revision = @ + 1, !.worker = w, !.live = TRUE, !.phase = "leased"]

NewLease(j, w) == [job |-> j, worker |-> w, attempt |-> job[j].attempt + 1,
                   leaseSeq |-> job[j].leaseSeq + 1]

\* An API worker takes the oldest row that no other transaction has locked,
\* hence (SKIP LOCKED) possibly any of them.
ClaimApi(w, j) ==
    /\ Type[j] \in ApiTypes
    /\ Claimable(j)
    /\ job' = [job EXCEPT ![j] = LeaseRow(@, w)]
    /\ leases' = leases \cup {NewLease(j, w)}
    /\ UNCHANGED <<batch, accepted, committed, quotaVars, envVars>>

LiveOf(k) == {j \in Job : Type[j] = k /\ LiveLease(j)}
OnWorker(S, w) == {j \in S : job[j].worker = w}
Least(a, b) == IF a <= b THEN a ELSE b

ConcurrencyOf(q, k) == IF k = "connectivity" THEN q.connectivity ELSE q.throughput

\* Variant: the offline/online exclusion is forgotten.
AdmissibleShared(w, j) ==
    LET k == Type[j] IN
    IF k = "config_validate" THEN OnWorker(LiveOf(k), w) = {}
    ELSE /\ Cardinality(LiveOf(k)) < ConcurrencyOf(quota, k)
         /\ Cardinality(OnWorker(LiveOf(k), w)) < ConcurrencyOf(quota, k)

\* The offline/online exclusion and the local and global concurrency limits,
\* counted over live leases.
Admissible(w, j) ==
    LET k == Type[j]
        mine(S) == OnWorker(S, w)
    IN IF k = "config_validate"
       THEN /\ \A n \in Network : mine(LiveOf(n)) = {}
            /\ mine(LiveOf(k)) = {}
       ELSE LET limit == ConcurrencyOf(quota, k)
                local == Least(limit, IF k = "connectivity" THEN Slots[w].connectivity
                                      ELSE Slots[w].throughput)
            IN /\ mine(LiveOf("config_validate")) = {}
               /\ Cardinality(LiveOf(k)) < limit
               /\ Cardinality(mine(LiveOf(k))) < local

\* heads: the head of the queue of each type the Runner asked for (one per
\* type; a locked row is skipped).  In queue order a revoked head is canceled
\* and the first admissible one is leased; what comes after it is untouched.
ClaimRunner(w, heads) ==
    LET good == {j \in heads \ revoked : Admissible(w, j)}
        chosen == {j \in good : \A i \in good : j <= i}
        dropped == {j \in heads \cap revoked : \A i \in chosen : j < i}
    IN /\ heads # {}
       /\ \A j \in heads : Type[j] \in RunnerTypes /\ Claimable(j)
       /\ \A i, j \in heads : Type[i] = Type[j] => i = j
       /\ \A j \in chosen : IsNetwork(j) => res[j][job[j].attempt + 1].open
       /\ job' = [j \in Job |-> IF j \in chosen THEN LeaseRow(job[j], w)
                                ELSE IF j \in dropped THEN CancelRow(job[j])
                                ELSE job[j]]
       /\ leases' = leases \cup {NewLease(j, w) : j \in chosen}
       /\ bucket' = Released(dropped)
       /\ res' = ReleasedRes(dropped)
       /\ UNCHANGED <<batch, accepted, committed, envVars>>

-----------------------------------------------------------------------------
(* The holder of a lease: Heartbeat, Event, CompleteTx.                     *)

\* Variant: only the worker is compared, not the attempt or the lease.
LocksByWorker(l) == job[l.job].worker = l.worker

\* lockLease: the identity is the one in the row.
Locks(l) == LeaseOf(l.job) = l

\* Variant: the clock is not asked whether the lease is still live.
ValidLeaseNoClock(l) == Locks(l) /\ job[l.job].state \in Held

\* Variant: the state of the job is not asked.
ValidLeaseAnyState(l) == Locks(l)

\* validLease
ValidLease(l) == Locks(l) /\ LiveLease(l.job)

RenewedRow(r, stop) ==
    [r EXCEPT !.live = TRUE, !.cancel = r.cancel \/ stop,
              !.revision = IF stop THEN r.revision + 1 ELSE r.revision]

\* Extends the lease; a revoked test is told to stop in the same UPDATE.
Heartbeat(l) ==
    /\ ValidLease(l)
    /\ job' = [job EXCEPT ![l.job] =
                 RenewedRow(@, l.job \in revoked /\ ~job[l.job].cancel)]
    /\ UNCHANGED <<batch, leases, accepted, committed, quotaVars, envVars>>

\* Variant: the step from leased to running keeps the revision.
RunningRowSilent(r) == [r EXCEPT !.state = "running", !.phase = "progress"]

RunningRow(r) ==
    [r EXCEPT !.state = "running", !.phase = "progress",
              !.revision = IF r.state = "leased" THEN r.revision + 1 ELSE r.revision]

\* A progress event, of a phase that the workers of this repository report
\* (validating, fetching, probing...; none of them reports "leased" or
\* "completed", which Event would accept); a repeated event id changes nothing.
Event(l) ==
    /\ ValidLease(l)
    /\ job' = [job EXCEPT ![l.job] = RunningRow(@)]
    /\ UNCHANGED <<batch, leases, accepted, committed, quotaVars, envVars>>

\* What a worker may report: the terminal state, whether the error is one of
\* the infrastructure codes, the bytes used (an unknown usage is the whole
\* reservation) and whether a business callback comes with it (API jobs only).
Outcomes(j) ==
    [state : Terminal, infra : BOOLEAN,
     used : IF IsNetwork(j) THEN 0..Bytes[j] ELSE {0},
     commit : IF Type[j] \in ApiTypes THEN BOOLEAN ELSE {FALSE}]

\* Variant: a failed download is retried like any other job.
RetryDownloads(j, o) ==
    /\ job[j].attempt < MaxAttempts
    /\ o.state = "failed" /\ o.infra
    /\ ~job[j].cancel

InfrastructureRetry(j, o) ==
    /\ Type[j] # "download_throughput"
    /\ job[j].attempt < MaxAttempts
    /\ o.state = "failed" /\ o.infra
    /\ ~job[j].cancel

\* The attempt of j ends and its reservation is settled.
Settled(j, used) ==
    IF IsNetwork(j) THEN Settle(bucket, j, job[j].attempt, used) ELSE bucket

\* reserveRetry: a network job that should be queued again must reserve its
\* next attempt first, or it fails with BUDGET_EXCEEDED.
Afford(j, used, wanted) ==
    IF /\ wanted = "queued" /\ IsNetwork(j)
       /\ ~CanReserve(Settled(j, used), j, job[j].attempt + 1)
    THEN "failed" ELSE wanted

EndedRow(r, final) ==
    [r EXCEPT !.state = final, !.revision = @ + 1, !.live = FALSE,
              !.phase = IF final = "queued" THEN "queued" ELSE "completed"]

EndedRes(j, used, final) ==
    [n \in 1..MaxAttempts |->
        IF n = job[j].attempt /\ IsNetwork(j) /\ res[j][n].open
        THEN Closed(res[j][n], used)
        ELSE IF /\ n = job[j].attempt + 1 /\ IsNetwork(j)
                /\ final = "queued" /\ res[j][n].day = 0
             THEN OpenReservation ELSE res[j][n]]

EndAttempt(j, used, wanted) ==
    LET final == Afford(j, used, wanted) IN
    /\ job' = [job EXCEPT ![j] = EndedRow(@, final)]
    /\ res' = [res EXCEPT ![j] = EndedRes(j, used, final)]
    /\ bucket' = IF final = "queued" /\ IsNetwork(j)
                 THEN Reserve(Settled(j, used), j, job[j].attempt + 1)
                 ELSE Settled(j, used)

\* Variant: the cancel flag is not looked at.
CompleteCanceled(l, o) ==
    LET j == l.job IN
    /\ Locks(l)
    /\ \A a \in accepted : a.lease # l
    /\ ValidLease(l)
    /\ EndAttempt(j, o.used, IF InfrastructureRetry(j, o) THEN "queued" ELSE o.state)
    /\ accepted' = accepted \cup {[lease |-> l, state |-> o.state, commit |-> o.commit]}
    /\ committed' = [committed EXCEPT ![j] = IF o.commit THEN @ + 1 ELSE @]
    /\ UNCHANGED <<batch, leases, envVars>>

\* Variant: the callback runs before the replay is recognised.
CompleteReplays(l, o) ==
    LET j == l.job
        replay == \E a \in accepted : a.lease = l
    IN /\ Locks(l)
       /\ ~replay => ValidLease(l) /\ (job[j].cancel => o.state = "canceled" /\ ~o.commit)
       /\ IF replay THEN UNCHANGED <<job, quotaVars, accepted>>
          ELSE /\ EndAttempt(j, o.used, IF InfrastructureRetry(j, o) THEN "queued" ELSE o.state)
               /\ accepted' = accepted \cup
                     {[lease |-> l, state |-> o.state, commit |-> o.commit]}
       /\ committed' = [committed EXCEPT ![j] = IF o.commit THEN @ + 1 ELSE @]
       /\ UNCHANGED <<batch, leases, envVars>>

\* CompleteTx accepting a result.  A replay of an accepted result and a
\* conflicting one return before anything is written.
Complete(l, o) ==
    LET j == l.job IN
    /\ Locks(l)
    /\ \A a \in accepted : a.lease # l
    /\ ValidLease(l)
    /\ job[j].cancel => o.state = "canceled" /\ ~o.commit
    /\ EndAttempt(j, o.used, IF InfrastructureRetry(j, o) THEN "queued" ELSE o.state)
    /\ accepted' = accepted \cup {[lease |-> l, state |-> o.state, commit |-> o.commit]}
    /\ committed' = [committed EXCEPT ![j] = IF o.commit THEN @ + 1 ELSE @]
    /\ UNCHANGED <<batch, leases, envVars>>

\* Variant: the attempts are looked at before the cancellation.
ReapAttemptsFirst(j) ==
    /\ job[j].state \in Held
    /\ ~job[j].live
    /\ EndAttempt(j, Bytes[j],
         IF job[j].attempt >= MaxAttempts \/ Type[j] = "download_throughput" THEN "failed"
         ELSE IF job[j].cancel THEN "canceled" ELSE "queued")
    /\ UNCHANGED <<batch, leases, accepted, committed, envVars>>

\* Variant: a lost job is queued again although it was canceled.
ReapResurrects(j) ==
    /\ job[j].state \in Held
    /\ ~job[j].live
    /\ EndAttempt(j, Bytes[j],
         IF job[j].attempt >= MaxAttempts \/ Type[j] = "download_throughput" THEN "failed"
         ELSE "queued")
    /\ UNCHANGED <<batch, leases, accepted, committed, envVars>>

\* Variant: only rows still in state leased are recovered.
ReapLeasedOnly(j) ==
    /\ job[j].state = "leased"
    /\ ~job[j].live
    /\ EndAttempt(j, Bytes[j],
         IF job[j].cancel THEN "canceled"
         ELSE IF job[j].attempt >= MaxAttempts \/ Type[j] = "download_throughput"
              THEN "failed" ELSE "queued")
    /\ UNCHANGED <<batch, leases, accepted, committed, envVars>>

\* ReapExpired for one expired row.
Reap(j) ==
    /\ job[j].state \in Held
    /\ ~job[j].live
    /\ EndAttempt(j, Bytes[j],
         IF job[j].cancel THEN "canceled"
         ELSE IF job[j].attempt >= MaxAttempts \/ Type[j] = "download_throughput"
              THEN "failed" ELSE "queued")
    /\ UNCHANGED <<batch, leases, accepted, committed, envVars>>

-----------------------------------------------------------------------------
(* The environment: clock, settings, revocation of what a test depends on.  *)

LeaseRunsOut(j) ==
    /\ LiveLease(j)
    /\ job' = [job EXCEPT ![j].live = FALSE]
    /\ UNCHANGED <<batch, leases, accepted, committed, quotaVars, envVars>>

NextDay ==
    /\ today < MaxDay
    /\ today' = today + 1
    /\ UNCHANGED <<job, batch, leases, accepted, committed, quotaVars, quota, revoked>>

UpdateQuota(q) ==
    /\ quota' = q
    /\ UNCHANGED <<job, batch, leases, accepted, committed, quotaVars, today, revoked>>

\* A build is disabled or enabled, a target or a dependency is deleted,
\* disabled or restored: testRevokedSQL changes its answer for the job.
SetRevoked(j) ==
    /\ j \in TestJob
    /\ revoked' = IF j \in revoked THEN revoked \ {j} ELSE revoked \cup {j}
    /\ UNCHANGED <<job, batch, leases, accepted, committed, quotaVars, today, quota>>

\* A Runner's claim that moves j: leased, or canceled because it was revoked.
ClaimsHead(w, j) ==
    \E heads \in SUBSET Job : /\ j \in heads
                             /\ ClaimRunner(w, heads)
                             /\ job'[j] # job[j]

\* The lease on j ends: its holder reports or the clock passes lease_until.
LeaseEnds(j) ==
    \/ LeaseRunsOut(j)
    \/ \E l \in leases : l.job = j /\ \E o \in Outcomes(j) : Complete(l, o)

Next ==
    \/ \E j \in Job : Enqueue(j)
    \/ \E b \in Batches : CreateBatch(b)
    \/ \E j \in Job : Cancel(j)
    \/ \E b \in Batches : CancelBatch(b)
    \/ \E w \in ApiWorkers, j \in Job : ClaimApi(w, j)
    \/ \E w \in Runners, heads \in SUBSET Job : ClaimRunner(w, heads)
    \/ \E l \in leases : Heartbeat(l)
    \/ \E l \in leases : Event(l)
    \/ \E l \in leases : \E o \in Outcomes(l.job) : Complete(l, o)
    \/ \E j \in Job : Reap(j)
    \/ \E j \in Job : LeaseRunsOut(j)
    \/ NextDay
    \/ \E q \in Quotas : UpdateQuota(q)
    \/ \E j \in Job : SetRevoked(j)

Spec == Init /\ [][Next]_vars

\* Workers poll: an API worker or a Runner claims every second, each claim
\* starts with ReapExpired, and a worker either reports within its bounded
\* run time or stops renewing, after which the clock ends its lease.
Fairness ==
    \A j \in Job :
        /\ WF_vars(\E w \in ApiWorkers : ClaimApi(w, j))
        /\ WF_vars(\E w \in Runners : ClaimsHead(w, j))
        /\ WF_vars(Reap(j))
        /\ WF_vars(LeaseEnds(j))

FairSpec == Spec /\ Fairness
-----------------------------------------------------------------------------
(* Properties.                                                              *)

\* The types of the tables.
JobsTypeOK ==
    /\ job \in [Job -> Row]
    /\ batch \in [Batches -> BOOLEAN]
    /\ leases \subseteq LeaseIdentity
    /\ accepted \subseteq Result
    /\ committed \in [Job -> Nat]
    /\ res \in [Job -> [1..MaxAttempts -> Reservation]]
    /\ today \in Days /\ quota \in Quotas /\ revoked \subseteq TestJob

TypeOK ==
    /\ JobsTypeOK
    /\ bucket \in [Days -> [reserved : Nat, settled : Nat]]

\* Fencing (lockLease, validLease, the job_results lookup of CompleteTx): an
\* attempt of a job has at most one accepted result, and a job that ended as
\* succeeded or timed out ended so because the holder of its last lease said
\* so: a late or duplicated result of an earlier lease never decides.
ResultsFenced ==
    /\ \A a, b \in accepted :
          a.lease.job = b.lease.job /\ a.lease.attempt = b.lease.attempt => a = b
    /\ \A j \in Job : job[j].state \in {"succeeded", "timed_out"} =>
          \E a \in accepted : a.lease = LeaseOf(j) /\ a.state = job[j].state

\* Cancellation wins (cancelChild, Heartbeat, CompleteTx, ReapExpired "never
\* resurrects cancellation"): a job whose cancellation was requested is never
\* queued again and never ends in another state than canceled.
CancelWins ==
    \A j \in Job : job[j].cancel => job[j].state \in Held \cup {"canceled"}

\* Once the cancel flag is set no business callback of the job commits
\* (CompleteTx lines 178-184), whatever its worker had already computed.
CancelStopsCommit ==
    [][\A j \in Job : job[j].cancel => committed'[j] = committed[j]]_vars

\* "Accepted replay never re-enters callback": a job's callback commits once
\* per accepted result that carried it, never for a replay.
CommitOncePerResult ==
    \A j \in Job : committed[j] = Cardinality({a \in accepted : a.lease.job = j /\ a.commit})

\* The reservation a transaction will look up is always there.  A queued
\* network job holds an open reservation for its next attempt, a leased one
\* for its current attempt, a finished one none.  If it were missing, Claim and
\* ReapExpired would fail on that row, and with them every claim of the queue.
ReservationReady ==
    \A j \in Job : IsNetwork(j) =>
        \A n \in 1..MaxAttempts :
            res[j][n].open <=> \/ job[j].state = "queued" /\ n = job[j].attempt + 1
                               \/ job[j].state \in Held /\ n = job[j].attempt

\* Conservation of the budget: each day's counters are the sums of the open
\* and of the settled reservations of that day, so no byte is released twice,
\* settled twice or booked on another day than it was reserved on.
QuotaConserved ==
    LET rows(d, open) == {p \in Job \X (1..MaxAttempts) :
                             res[p[1]][p[2]].day = d /\ res[p[1]][p[2]].open = open}
    IN \A d \in Days :
        /\ bucket[d].reserved = MapThenSumSet(LAMBDA p : Bytes[p[1]], rows(d, TRUE))
        /\ bucket[d].settled = MapThenSumSet(LAMBDA p : res[p[1]][p[2]].used, rows(d, FALSE))

\* The daily limit: no step books more bytes on a day than the limit in force
\* allows, over all batches, retries and settlements.
WithinDailyBudget ==
    [][\A d \in Days :
         LET total(b) == b[d].reserved + b[d].settled
         IN total(bucket') > total(bucket) => total(bucket') <= quota.daily]_vars

\* Slots: the live leases of a network type never grow past the concurrency
\* in force, whether by a claim, by a heartbeat of a lease thought dead, or
\* after a reap.
SlotsRespected ==
    [][\A k \in Network :
         LET live == Cardinality(LiveOf(k))
         IN live' > live => live' <= ConcurrencyOf(quota, k)]_vars

\* Offline and online jobs never share a Runner, and a Runner validates one
\* configuration at a time (claimCandidate; they share one thread budget).
ModesExclusive ==
    \A w \in Runners :
        LET offline == OnWorker(LiveOf("config_validate"), w)
            online == UNION {OnWorker(LiveOf(k), w) : k \in Network}
        IN Cardinality(offline) <= 1 /\ (offline = {} \/ online = {})

\* A download test is attempted once, any other job at most twice, even when
\* leases are lost and results are reported as infrastructure failures.
AttemptsBounded ==
    \A j \in Job :
        /\ job[j].attempt = job[j].leaseSeq
        /\ job[j].attempt <= IF Type[j] = "download_throughput" THEN 1 ELSE MaxAttempts

\* A finished job stays as it finished: no late result, heartbeat, event,
\* cancel or reap changes its row.
TerminalIsFinal ==
    [][\A j \in Job : job[j].state \in Terminal => job'[j] = job[j]]_vars

\* What a client sees of a job.
Visible(r) == <<r.state, r.attempt, r.cancel>>

\* Revisions are what Cancel compares: no visible change of a job, and none of
\* a batch (whose revision is a sum over its children), leaves the revision as
\* it was, so a cancel is never applied to a state its caller has not seen.
BatchRevision(b) ==
    1 + (IF batch[b] THEN 1 ELSE 0) + MapThenSumSet(LAMBDA j : job[j].revision - 1, b)

BatchView(b) == <<batch[b], [j \in b |-> Visible(job[j])]>>

RevisionIdentifies ==
    [][/\ \A j \in Job : Exists(j) /\ Visible(job'[j]) # Visible(job[j]) =>
             job'[j].revision > job[j].revision
       /\ \A b \in Batches :
             (\A j \in b : Exists(j)) /\ BatchView(b)' # BatchView(b) =>
                BatchRevision(b)' > BatchRevision(b)]_vars

\* The event stream of a job ends with "completed" exactly when the job is
\* finished: a subscriber that stops there has not stopped early.
StreamEnds ==
    \A j \in Job : job[j].phase = "completed" <=> job[j].state \in Terminal

\* The queue implements the contract its clients rely on (see JobContract).
Contract == INSTANCE JobContract WITH
    Outcome <- Terminal,
    Canceled <- "canceled",
    Limit <- [j \in Job |-> IF Type[j] = "download_throughput" THEN 1 ELSE MaxAttempts],
    phase <- [j \in Job |-> CASE job[j].state = "none" -> "absent"
                              [] job[j].state = "queued" -> "waiting"
                              [] job[j].state \in Held -> "working"
                              [] OTHER -> job[j].state],
    tries <- [j \in Job |-> job[j].attempt],
    cancelled <- [j \in Job |-> job[j].cancel]

\* Every transaction of the queue moves each job as the contract allows:
\* claims, late results, reaps, revocations and batch cancels included.
ImplementsContract == Contract!Spec

\* A queued job is eventually finished, although workers may vanish, leases
\* run out, slots fill up, tests are revoked and settings change.
EveryJobEnds ==
    \A j \in Job : job[j].state = "queued" ~> job[j].state \in Terminal
=============================================================================
