--------------------------- MODULE JobQueueProofs ---------------------------
(***************************************************************************)
(* Proofs about the job queue for any set of jobs, workers, batches, quotas *)
(* and any number of days.                                                  *)
(***************************************************************************)
EXTENDS JobQueue, TLAPS

Limit(j) == IF Type[j] = "download_throughput" THEN 1 ELSE MaxAttempts

\* What the columns of one row have to do with each other.
RowOK(j) ==
    LET r == job[j] IN
    /\ r.attempt = r.leaseSeq
    /\ r.attempt <= Limit(j)
    /\ r.state = "none" => r = NoRow
    /\ r.state = "queued" => r.attempt < Limit(j) /\ ~r.cancel
    /\ r.state \in Held => r.attempt >= 1 /\ r.worker \in Workers
    /\ r.live => r.state \in Held
    /\ r.cancel => r.state \in Held \cup {"canceled"}
    /\ r.phase = "completed" <=> r.state \in Terminal

\* Reservations exist up to the attempt the job is in or waits for, and the
\* open one is the one the next transaction on the job will look up.
ResOK(j) ==
    \A n \in 1..MaxAttempts :
        /\ res[j][n].open <=>
             /\ IsNetwork(j)
             /\ \/ job[j].state = "queued" /\ n = job[j].attempt + 1
                \/ job[j].state \in Held /\ n = job[j].attempt
        /\ res[j][n].open => res[j][n].day \in Days
        /\ job[j].state = "none" => res[j][n].day = 0
        /\ job[j].state = "queued" /\ n > job[j].attempt + 1 => res[j][n].day = 0
        /\ job[j].state \in Held /\ n > job[j].attempt => res[j][n].day = 0

\* The results accepted for a job are of attempts it has had; the attempt it
\* is in has none yet; a job that succeeded or timed out has that of its last.
AcceptedOK(j) ==
    /\ \A a \in accepted : a.lease.job = j =>
          /\ a.lease.attempt <= job[j].attempt
          /\ job[j].state \in Held => a.lease.attempt < job[j].attempt
    /\ job[j].state \in {"succeeded", "timed_out"} =>
          \E a \in accepted : a.lease = LeaseOf(j) /\ a.state = job[j].state

UniqueResults ==
    \A a, b \in accepted :
        a.lease.job = b.lease.job /\ a.lease.attempt = b.lease.attempt => a = b

IInv ==
    /\ JobsTypeOK
    /\ \A j \in Job : RowOK(j) /\ ResOK(j) /\ AcceptedOK(j)
    /\ UniqueResults

LEMMA InitIInv == Init => IInv
  BY JobAssumption, BatchAssumption, WorkerAssumption, QuotaAssumption
  DEF Init, IInv, JobsTypeOK, RowOK, ResOK, AcceptedOK, UniqueResults, NoRow, Row,
      Reservation, NoReservation, Limit, MaxAttempts, States, Phases, Held, Terminal,
      LeaseIdentity, Result, Days

-----------------------------------------------------------------------------
(* Steps that move single rows.                                             *)

\* Every action but Complete and Reap leaves the results alone, and every
\* action leaves a finished row's identity alone: what is said of the accepted
\* results of a job carries over when the attempt does not shrink.
LEMMA AcceptedKept ==
  ASSUME IInv, NEW j \in Job, accepted' = accepted,
         job[j].attempt <= job'[j].attempt,
         job'[j].state \in Held => \/ job[j].state \in Held
                                   \/ job'[j].attempt > job[j].attempt,
         job'[j].state \in {"succeeded", "timed_out"} => job'[j] = job[j],
         job'[j] \in Row
  PROVE  AcceptedOK(j)'
  <1>1. job[j].attempt \in Nat /\ job'[j].attempt \in Nat
    BY DEF IInv, JobsTypeOK, Row, MaxAttempts
  <1>2. \A a \in accepted : a.lease.attempt \in Nat
    BY DEF IInv, JobsTypeOK, Result, LeaseIdentity, MaxAttempts
  <1>3. AcceptedOK(j)
    BY DEF IInv
  <1>4. ASSUME NEW a \in accepted', a.lease.job = j
        PROVE  /\ a.lease.attempt <= job'[j].attempt
               /\ job'[j].state \in Held => a.lease.attempt < job'[j].attempt
    BY <1>1, <1>2, <1>3, <1>4 DEF AcceptedOK
  <1>5. ASSUME job'[j].state \in {"succeeded", "timed_out"}
        PROVE  \E a \in accepted' : a.lease = LeaseOf(j)' /\ a.state = job'[j].state
    BY <1>3, <1>5 DEF AcceptedOK, LeaseOf
  <1>. QED
    BY <1>4, <1>5 DEF AcceptedOK

LEMMA ClosedOK ==
  ASSUME NEW r \in Reservation, NEW used \in Nat
  PROVE  /\ Closed(r, used) \in Reservation
         /\ Closed(r, used).open = FALSE
         /\ Closed(r, used).day = r.day
  BY Zenon DEF Closed, Reservation

\* The columns of the rows that the operations build.
LEMMA LeaseRowFields ==
  ASSUME NEW r \in Row, NEW w \in Workers
  PROVE  LET q == LeaseRow(r, w) IN
         /\ q.state = "leased" /\ q.attempt = r.attempt + 1
         /\ q.leaseSeq = r.leaseSeq + 1 /\ q.worker = w /\ q.live = TRUE
         /\ q.cancel = r.cancel /\ q.phase = "leased" /\ q.revision = r.revision + 1
  BY DEF LeaseRow, Row

LEMMA CancelRowFields ==
  ASSUME NEW r \in Row
  PROVE  LET q == CancelRow(r) IN
         /\ q.state = IF r.state = "queued" THEN "canceled" ELSE r.state
         /\ q.attempt = r.attempt /\ q.leaseSeq = r.leaseSeq
         /\ q.worker = r.worker /\ q.live = r.live /\ q.cancel = TRUE
         /\ q.phase = IF r.state = "queued" THEN "completed" ELSE "canceling"
         /\ q.revision = r.revision + 1
  BY DEF CancelRow, Row

LEMMA LeaseRowOK ==
  ASSUME IInv, NEW j \in Job, NEW w \in Workers, Claimable(j),
         job'[j] = LeaseRow(job[j], w), res'[j] = res[j]
  PROVE  job'[j] \in Row /\ RowOK(j)' /\ ResOK(j)'
  <1>1. job[j] \in Row /\ RowOK(j) /\ ResOK(j)
    BY DEF IInv, JobsTypeOK
  <1>2. job[j].attempt \in 0..1 /\ job[j].attempt + 1 <= Limit(j)
    BY <1>1 DEF RowOK, Claimable, Limit, MaxAttempts, Row
  <1>3. /\ job'[j].state = "leased" /\ job'[j].attempt = job[j].attempt + 1
        /\ job'[j].leaseSeq = job[j].leaseSeq + 1 /\ job'[j].worker = w
        /\ job'[j].live = TRUE /\ job'[j].cancel = job[j].cancel
        /\ job'[j].phase = "leased" /\ job'[j].revision = job[j].revision + 1
    <2>1. \A r \in Row : LET q == LeaseRow(r, w) IN
           /\ q.state = "leased" /\ q.attempt = r.attempt + 1
           /\ q.leaseSeq = r.leaseSeq + 1 /\ q.worker = w /\ q.live = TRUE
           /\ q.cancel = r.cancel /\ q.phase = "leased" /\ q.revision = r.revision + 1
      BY Zenon, LeaseRowFields
    <2>. QED
      BY <1>1, <2>1
  <1>4. job'[j] \in Row
    <2>1. /\ job[j].attempt + 1 \in 0..MaxAttempts
          /\ job[j].leaseSeq + 1 \in Nat
          /\ job[j].revision + 1 \in Nat
      BY <1>1, <1>2 DEF Row, MaxAttempts
    <2>2. "leased" \in States /\ "leased" \in Phases /\ w \in Workers \cup {NoWorker}
      BY DEF States, Phases, Held
    <2>. QED
      BY Zenon, <1>1, <2>1, <2>2 DEF LeaseRow, Row
  <1>5. RowOK(j)'
    BY <1>1, <1>2, <1>3 DEF RowOK, Claimable, Held, Terminal, Limit
  <1>6. ResOK(j)'
    BY <1>1, <1>2, <1>3 DEF ResOK, Claimable, Held, MaxAttempts
  <1>. QED
    BY <1>4, <1>5, <1>6

LEMMA CancelRowOK ==
  ASSUME IInv, NEW j \in Job, Cancelable(j), NEW S \in SUBSET Job, j \in S,
         job'[j] = CancelRow(job[j]), res'[j] = ReleasedRes(S)[j]
  PROVE  /\ job'[j] \in Row /\ RowOK(j)' /\ ResOK(j)'
         /\ res'[j] \in [1..MaxAttempts -> Reservation]
  <1>1. job[j] \in Row /\ res[j] \in [1..MaxAttempts -> Reservation] /\ RowOK(j) /\ ResOK(j)
    BY DEF IInv, JobsTypeOK
  <1>f. /\ job'[j].state = IF job[j].state = "queued" THEN "canceled" ELSE job[j].state
        /\ job'[j].attempt = job[j].attempt /\ job'[j].leaseSeq = job[j].leaseSeq
        /\ job'[j].worker = job[j].worker /\ job'[j].live = job[j].live
        /\ job'[j].cancel = TRUE
        /\ job'[j].phase = IF job[j].state = "queued" THEN "completed" ELSE "canceling"
    BY ZenonT(60), <1>1, CancelRowFields
  <1>2. job'[j] \in Row /\ RowOK(j)'
    <2>1. job'[j] \in Row
      <3>1. job[j].revision + 1 \in Nat
        BY <1>1 DEF Row
      <3>2. {"canceled"} \subseteq States /\ {"completed", "canceling"} \subseteq Phases
        BY DEF States, Phases, Terminal
      <3>. QED
        BY Zenon, <1>1, <3>1, <3>2 DEF CancelRow, Row
    <2>2. RowOK(j)'
      BY <1>1, <1>f DEF Cancelable, RowOK, Held, Terminal, Limit
    <2>. QED
      BY <2>1, <2>2
  <1>3. CASE job[j].state = "queued" /\ IsNetwork(j)
    <2>1. res'[j] = [n \in 1..MaxAttempts |->
                IF n = job[j].attempt + 1 /\ res[j][n].open
                THEN Closed(res[j][n], 0) ELSE res[j][n]]
      BY <1>3 DEF ReleasedRes, Unstarted
    <2>2. job'[j].state = "canceled" /\ job'[j].attempt = job[j].attempt
      BY <1>1, <1>3 DEF CancelRow, Row
    <2>3. \A n \in 1..MaxAttempts :
             /\ res'[j][n] \in Reservation
             /\ ~res'[j][n].open
      <3> SUFFICES ASSUME NEW n \in 1..MaxAttempts
                   PROVE  res'[j][n] \in Reservation /\ ~res'[j][n].open
        OBVIOUS
      <3>1. res[j][n] \in Reservation /\ res'[j][n] = IF n = job[j].attempt + 1 /\ res[j][n].open
                THEN Closed(res[j][n], 0) ELSE res[j][n]
        BY Zenon, <1>1, <2>1
      <3>2. res[j][n].open => n = job[j].attempt + 1
        BY <1>1, <1>3 DEF ResOK, Held
      <3>. QED
        BY Zenon, <3>1, <3>2, 0 \in Nat DEF Closed, Reservation
    <2>4. res'[j] \in [1..MaxAttempts -> Reservation]
      BY <2>1, <2>3
    <2>. QED
      BY <1>2, <2>2, <2>3, <2>4 DEF ResOK, Held
  <1>4. CASE ~(job[j].state = "queued" /\ IsNetwork(j))
    <2>1. res'[j] = res[j]
      BY <1>4 DEF ReleasedRes, Unstarted
    <2>2. /\ job'[j].attempt = job[j].attempt
          /\ job'[j].state = IF job[j].state = "queued" THEN "canceled" ELSE job[j].state
      BY <1>1 DEF CancelRow, Row
    <2>. QED
      BY <1>1, <1>2, <1>4, <2>1, <2>2 DEF ResOK, Held, IsNetwork
  <1>. QED
    BY <1>3, <1>4

\* A row nobody touches keeps what is said of it.
LEMMA RowKept ==
  ASSUME IInv, NEW j \in Job, job'[j] = job[j], res'[j] = res[j]
  PROVE  job'[j] \in Row /\ RowOK(j)' /\ ResOK(j)'
         /\ res'[j] \in [1..MaxAttempts -> Reservation]
  <1>1. /\ job[j] \in Row /\ res[j] \in [1..MaxAttempts -> Reservation]
        /\ RowOK(j) /\ ResOK(j)
    BY DEF IInv, JobsTypeOK
  <1>2. RowOK(j)'
    BY <1>1 DEF RowOK
  <1>3. ResOK(j)'
    BY <1>1 DEF ResOK
  <1>. QED
    BY <1>1, <1>2, <1>3

LEMMA QueuedRowOK ==
  ASSUME IInv, NEW j \in Job, ~Exists(j), job'[j] = QueuedRow,
         res'[j] = IF IsNetwork(j) THEN [res[j] EXCEPT ![1] = OpenReservation] ELSE res[j]
  PROVE  /\ job'[j] \in Row /\ RowOK(j)' /\ ResOK(j)'
         /\ res'[j] \in [1..MaxAttempts -> Reservation]
  <1>1. /\ job[j] \in Row /\ res[j] \in [1..MaxAttempts -> Reservation] /\ RowOK(j)
        /\ ResOK(j) /\ job[j] = NoRow /\ today \in Days
    BY DEF IInv, JobsTypeOK, RowOK, Exists
  <1>2. \A n \in 1..MaxAttempts : res[j][n].day = 0 /\ ~res[j][n].open
    BY <1>1 DEF ResOK, NoRow, Held
  <1>3. job'[j] = [state |-> "queued", attempt |-> 0, leaseSeq |-> 0, revision |-> 1,
                   worker |-> NoWorker, live |-> FALSE, cancel |-> FALSE, phase |-> "queued"]
    BY Zenon DEF QueuedRow, NoRow
  <1>4. job'[j] \in Row
    BY <1>3 DEF Row, States, Phases, MaxAttempts
  <1>5. RowOK(j)'
    BY <1>3 DEF RowOK, Held, Terminal, Limit, MaxAttempts
  <1>6. \A n \in 1..MaxAttempts :
            res'[j][n] = IF IsNetwork(j) /\ n = 1 THEN OpenReservation ELSE res[j][n]
    BY <1>1 DEF MaxAttempts
  <1>7. OpenReservation \in Reservation /\ OpenReservation.open /\ OpenReservation.day \in Days
    BY <1>1, QuotaAssumption DEF OpenReservation, Reservation, Days
  <1>8. res'[j] \in [1..MaxAttempts -> Reservation]
    BY Zenon, <1>1, <1>7
  <1>9. ResOK(j)'
    BY <1>2, <1>3, <1>6, <1>7 DEF ResOK, Held, MaxAttempts
  <1>. QED
    BY <1>4, <1>5, <1>8, <1>9

\* An attempt of a held job ends: the row, its reservations and the reach of
\* the next state.
LEMMA EndAttemptOK ==
  ASSUME IInv, NEW j \in Job, job[j].state \in Held, NEW used \in Nat,
         NEW wanted \in {"queued"} \cup Terminal,
         wanted = "queued" => job[j].attempt < Limit(j) /\ ~job[j].cancel,
         job[j].cancel => wanted = "canceled",
         EndAttempt(j, used, wanted)
  PROVE  /\ job' \in [Job -> Row]
         /\ res' \in [Job -> [1..MaxAttempts -> Reservation]]
         /\ \A i \in Job : RowOK(i)' /\ ResOK(i)'
         /\ \A i \in Job : i # j => job'[i] = job[i]
         /\ LeaseOf(j)' = LeaseOf(j)
         /\ job'[j].attempt = job[j].attempt /\ job'[j].cancel = job[j].cancel
         /\ \/ job'[j].state = wanted
            \/ wanted = "queued" /\ job'[j].state = "failed"
  <1> DEFINE n == job[j].attempt
             final == Afford(j, used, wanted)
             row == EndedRow(job[j], final)
             slot(m) == IF m = n /\ IsNetwork(j) /\ res[j][m].open
                        THEN Closed(res[j][m], used)
                        ELSE IF /\ m = n + 1 /\ IsNetwork(j)
                                /\ final = "queued" /\ res[j][m].day = 0
                             THEN OpenReservation ELSE res[j][m]
  <1>1. /\ job \in [Job -> Row] /\ res \in [Job -> [1..MaxAttempts -> Reservation]]
        /\ job[j] \in Row /\ RowOK(j) /\ ResOK(j) /\ today \in Days
    BY DEF IInv, JobsTypeOK
  <1>2. job' = [job EXCEPT ![j] = row]
    BY DEF EndAttempt
  <1>3. res' = [res EXCEPT ![j] = [m \in 1..MaxAttempts |-> slot(m)]]
    BY DEF EndAttempt, EndedRes
  <1>4. /\ final \in {"queued"} \cup Terminal
        /\ \/ final = wanted
           \/ wanted = "queued" /\ final = "failed"
    BY DEF Afford, Terminal
  <1> HIDE DEF final
  <1>5. row \in Row
    <2>1. job[j].revision + 1 \in Nat
      BY <1>1 DEF Row
    <2>2. final \in States /\ {"queued", "completed"} \subseteq Phases
      BY <1>4 DEF States, Phases
    <2>. QED
      BY Zenon, <1>1, <2>1, <2>2 DEF Row, EndedRow
  <1>6. /\ row.state = final /\ row.attempt = n /\ row.leaseSeq = job[j].leaseSeq
        /\ row.live = FALSE /\ row.cancel = job[j].cancel /\ row.worker = job[j].worker
        /\ row.phase = IF final = "queued" THEN "queued" ELSE "completed"
    BY <1>1 DEF Row, EndedRow
  <1> HIDE DEF row
  <1>7. job' \in [Job -> Row] /\ job'[j] = row /\ \A i \in Job : i # j => job'[i] = job[i]
    BY <1>1, <1>2, <1>5
  <1>8. RowOK(j)'
    BY <1>1, <1>4, <1>6, <1>7 DEF RowOK, Held, Terminal, Limit
  <1>9. OpenReservation \in Reservation /\ OpenReservation.open /\ OpenReservation.day \in Days
    BY <1>1, QuotaAssumption DEF OpenReservation, Reservation, Days
  <1>10. \A m \in 1..MaxAttempts :
            /\ res[j][m] \in Reservation
            /\ Closed(res[j][m], used) \in Reservation /\ ~Closed(res[j][m], used).open
            /\ Closed(res[j][m], used).day = res[j][m].day
    BY ZenonT(60), <1>1, ClosedOK
  <1>11. \A m \in 1..MaxAttempts : slot(m) \in Reservation
    BY <1>9, <1>10
  <1>12. res' \in [Job -> [1..MaxAttempts -> Reservation]]
    BY <1>1, <1>3, <1>11
  <1>13. \A m \in 1..MaxAttempts : res'[j][m] = slot(m)
    BY <1>1, <1>3
  <1>14. n \in 1..MaxAttempts /\ (final = "queued" => n + 1 \in 1..MaxAttempts)
    BY <1>1, <1>4 DEF RowOK, Row, Limit, MaxAttempts, Terminal
  <1>15. ResOK(j)'
    <2> SUFFICES ASSUME NEW m \in 1..MaxAttempts
                 PROVE  /\ slot(m).open <=>
                             /\ IsNetwork(j)
                             /\ final = "queued" /\ m = n + 1
                        /\ slot(m).open => slot(m).day \in Days
                        /\ final = "queued" /\ m > n + 1 => slot(m).day = 0
      BY <1>4, <1>6, <1>7, <1>13 DEF ResOK, Held, Terminal
    <2>1. /\ res[j][m].open <=> IsNetwork(j) /\ m = n
          /\ res[j][m].open => res[j][m].day \in Days
          /\ m > n => res[j][m].day = 0
      BY <1>1 DEF ResOK, Held
    <2>. QED
      BY <1>9, <1>10, <1>14, <2>1 DEF MaxAttempts
  <1>16. \A i \in Job : i # j => RowOK(i)' /\ ResOK(i)'
    BY <1>1, <1>3, <1>7, RowKept
  <1>. QED
    BY <1>4, <1>6, <1>7, <1>8, <1>12, <1>15, <1>16 DEF LeaseOf

-----------------------------------------------------------------------------
(* The actions, one lemma each.                                             *)

\* Gathers the parts for an action that accepts no result: each row is either
\* kept, or shown good and not taken to a state that needs a result.
LEMMA Assemble ==
  ASSUME IInv, accepted' = accepted, committed' = committed,
         job' \in [Job -> Row],
         res' \in [Job -> [1..MaxAttempts -> Reservation]],
         batch' \in [Batches -> BOOLEAN],
         leases' \subseteq LeaseIdentity,
         today' \in Days, quota' \in Quotas, revoked' \subseteq TestJob,
         \A j \in Job : RowOK(j)' /\ ResOK(j)',
         \A j \in Job :
            /\ job[j].attempt <= job'[j].attempt
            /\ job'[j].state \in Held => \/ job[j].state \in Held
                                         \/ job'[j].attempt > job[j].attempt
            /\ job'[j].state \in {"succeeded", "timed_out"} => job'[j] = job[j]
  PROVE  IInv'
  <1>1. \A j \in Job : AcceptedOK(j)'
    BY AcceptedKept
  <1>2. UniqueResults'
    BY DEF IInv, UniqueResults
  <1>3. JobsTypeOK'
    BY DEF IInv, JobsTypeOK
  <1>. QED
    BY <1>1, <1>2, <1>3 DEF IInv

LEMMA InsertStep ==
  ASSUME IInv, NEW S \in SUBSET Job, Insert(S)
  PROVE  IInv'
  <1>1. \A j \in S : ~Exists(j) /\ job'[j] = QueuedRow
            /\ res'[j] = IF IsNetwork(j) THEN [res[j] EXCEPT ![1] = OpenReservation]
                         ELSE res[j]
    BY DEF Insert
  <1>2. \A j \in Job : j \notin S => job'[j] = job[j] /\ res'[j] = res[j]
    BY DEF Insert
  <1>3. \A j \in Job : /\ job'[j] \in Row /\ RowOK(j)' /\ ResOK(j)'
                       /\ res'[j] \in [1..MaxAttempts -> Reservation]
    BY Zenon, <1>1, <1>2, QueuedRowOK, RowKept
  <1>4. job' \in [Job -> Row] /\ res' \in [Job -> [1..MaxAttempts -> Reservation]]
    BY <1>3 DEF Insert
  <1>5. \A j \in S : job[j].attempt = 0 /\ job'[j].attempt = 0 /\ job'[j].state = "queued"
    <2>1. QueuedRow.attempt = 0 /\ QueuedRow.state = "queued" /\ NoRow.attempt = 0
      BY DEF QueuedRow, NoRow
    <2>2. \A j \in S : job[j] = NoRow
      BY ZenonT(60), <1>1 DEF IInv, RowOK, Exists
    <2>. QED
      BY Zenon, <1>1, <2>1, <2>2
  <1>6. \A j \in Job :
            /\ job[j].attempt <= job'[j].attempt
            /\ job'[j].state \in Held => \/ job[j].state \in Held
                                         \/ job'[j].attempt > job[j].attempt
            /\ job'[j].state \in {"succeeded", "timed_out"} => job'[j] = job[j]
    BY <1>2, <1>3, <1>5 DEF Held, Row, MaxAttempts
  <1>. QED
    BY <1>3, <1>4, <1>6, Assemble DEF Insert, envVars, IInv, JobsTypeOK

\* The rows of a set of jobs are canceled (Cancel, CancelBatch).
LEMMA CancelStep ==
  ASSUME IInv, NEW S \in SUBSET Job, \A j \in S : Cancelable(j),
         job' = [j \in Job |-> IF j \in S THEN CancelRow(job[j]) ELSE job[j]],
         res' = ReleasedRes(S), batch' \in [Batches -> BOOLEAN],
         UNCHANGED <<leases, accepted, committed, envVars>>
  PROVE  IInv'
  <1>1. \A j \in S : job'[j] = CancelRow(job[j]) /\ res'[j] = ReleasedRes(S)[j]
    OBVIOUS
  <1>2. \A j \in Job : j \notin S => job'[j] = job[j] /\ res'[j] = res[j]
    BY DEF ReleasedRes, Unstarted
  <1>3. \A j \in Job : /\ job'[j] \in Row /\ RowOK(j)' /\ ResOK(j)'
                       /\ res'[j] \in [1..MaxAttempts -> Reservation]
    BY <1>1, <1>2, CancelRowOK, RowKept
  <1>4. job' \in [Job -> Row] /\ res' \in [Job -> [1..MaxAttempts -> Reservation]]
    BY <1>3 DEF ReleasedRes
  <1>5. \A j \in S : /\ job'[j].attempt = job[j].attempt
                     /\ job'[j].state \in {job[j].state, "canceled"}
                     /\ job[j].state \notin {"succeeded", "timed_out"}
    <2>1. \A j \in S : job[j] \in Row
      BY DEF IInv, JobsTypeOK
    <2>. QED
      BY ZenonT(60), <1>1, <2>1, CancelRowFields DEF Cancelable, Held
  <1>6. \A j \in Job :
            /\ job[j].attempt <= job'[j].attempt
            /\ job'[j].state \in Held => \/ job[j].state \in Held
                                         \/ job'[j].attempt > job[j].attempt
            /\ job'[j].state \in {"succeeded", "timed_out"} => job'[j] = job[j]
    <2>1. \A j \in Job : job[j].attempt \in Nat
      BY DEF IInv, JobsTypeOK, Row, MaxAttempts
    <2>. QED
      BY <1>2, <1>5, <2>1 DEF Held
  <1>. QED
    BY <1>3, <1>4, <1>6, Assemble DEF envVars, IInv, JobsTypeOK

LEMMA ClaimStep ==
  ASSUME IInv, NEW w \in Workers, NEW C \in SUBSET Job, NEW D \in SUBSET Job,
         C \cap D = {}, \A j \in C \cup D : Claimable(j),
         job' = [j \in Job |-> IF j \in C THEN LeaseRow(job[j], w)
                               ELSE IF j \in D THEN CancelRow(job[j]) ELSE job[j]],
         res' = ReleasedRes(D), leases' = leases \cup {NewLease(j, w) : j \in C},
         UNCHANGED <<batch, accepted, committed, envVars>>
  PROVE  IInv'
  <1>1. \A j \in C : job'[j] = LeaseRow(job[j], w) /\ res'[j] = res[j]
    BY ZenonT(60) DEF ReleasedRes, Unstarted
  <1>2. \A j \in D : job'[j] = CancelRow(job[j]) /\ res'[j] = ReleasedRes(D)[j] /\ Cancelable(j)
    BY DEF Claimable, Cancelable
  <1>3. \A j \in Job : j \notin C \cup D => job'[j] = job[j] /\ res'[j] = res[j]
    BY SMTT(60) DEF ReleasedRes, Unstarted
  <1>4. \A j \in Job : /\ job'[j] \in Row /\ RowOK(j)' /\ ResOK(j)'
                       /\ res'[j] \in [1..MaxAttempts -> Reservation]
    <2>1. \A j \in C : res'[j] \in [1..MaxAttempts -> Reservation]
      BY Zenon, <1>1 DEF IInv, JobsTypeOK
    <2>. QED
      BY Zenon, <1>1, <1>2, <1>3, <2>1, LeaseRowOK, CancelRowOK, RowKept
  <1>5. job' \in [Job -> Row] /\ res' \in [Job -> [1..MaxAttempts -> Reservation]]
    BY <1>4 DEF ReleasedRes
  <1>r. \A j \in Job : job[j] \in Row
    BY SMTT(60) DEF IInv, JobsTypeOK
  <1>6. \A j \in C : job'[j].attempt = job[j].attempt + 1 /\ job'[j].state = "leased"
    <2>1. \A r \in Row : LeaseRow(r, w).attempt = r.attempt + 1 /\ LeaseRow(r, w).state = "leased"
      BY Zenon, LeaseRowFields
    <2>. QED
      BY <1>1, <1>r, <2>1
  <1>7. \A j \in D : job'[j].attempt = job[j].attempt /\ job'[j].state = "canceled"
    BY ZenonT(60), <1>2, <1>r, CancelRowFields DEF Claimable
  <1>8. \A j \in Job : job[j].attempt \in Nat
    BY DEF IInv, JobsTypeOK, Row, MaxAttempts
  <1>9. \A j \in Job :
            /\ job[j].attempt <= job'[j].attempt
            /\ job'[j].state \in Held => \/ job[j].state \in Held
                                         \/ job'[j].attempt > job[j].attempt
            /\ job'[j].state \in {"succeeded", "timed_out"} => job'[j] = job[j]
    BY SMTT(60), <1>3, <1>6, <1>7, <1>8 DEF Held
  <1>10. \A j \in C : NewLease(j, w) \in LeaseIdentity
    <2>1. \A j \in C : job[j].attempt + 1 \in 1..MaxAttempts /\ job[j].leaseSeq + 1 \in Nat
      BY DEF IInv, JobsTypeOK, RowOK, Row, Limit, MaxAttempts, Claimable
    <2>. QED
      BY Zenon, <2>1 DEF NewLease, LeaseIdentity
  <1>11. leases' \subseteq LeaseIdentity
    BY <1>10 DEF IInv, JobsTypeOK
  <1>. QED
    BY <1>4, <1>5, <1>9, <1>11, Assemble DEF envVars, IInv, JobsTypeOK

\* Heartbeat, Event and LeaseRunsOut touch the row of one held job and keep
\* its identity, its attempt and that it is held.
LEMMA HeldStep ==
  ASSUME IInv, NEW j \in Job, job[j].state \in Held, NEW r \in Row,
         job' = [job EXCEPT ![j] = r],
         r.state \in Held, r.attempt = job[j].attempt, r.leaseSeq = job[j].leaseSeq,
         r.worker = job[j].worker, r.phase # "completed",
         UNCHANGED <<batch, leases, accepted, committed, quotaVars, envVars>>
  PROVE  IInv'
  <1>1. job \in [Job -> Row] /\ res' = res /\ RowOK(j) /\ ResOK(j) /\ r \in Row
    BY DEF IInv, JobsTypeOK, quotaVars
  <1>2. job' \in [Job -> Row] /\ job'[j] = r /\ \A i \in Job : i # j => job'[i] = job[i]
    BY <1>1
  <1>3. RowOK(j)'
    BY SMTT(60), <1>1, <1>2 DEF RowOK, Held, Terminal, Limit
  <1>4. ResOK(j)'
    BY SMTT(60), <1>1, <1>2 DEF ResOK, Held
  <1>5. \A i \in Job : RowOK(i)' /\ ResOK(i)'
    BY <1>1, <1>2, <1>3, <1>4, RowKept
  <1>6. \A i \in Job : job[i].attempt \in Nat
    BY <1>1 DEF Row, MaxAttempts
  <1>7. \A i \in Job :
            /\ job[i].attempt <= job'[i].attempt
            /\ job'[i].state \in Held => \/ job[i].state \in Held
                                         \/ job'[i].attempt > job[i].attempt
            /\ job'[i].state \in {"succeeded", "timed_out"} => job'[i] = job[i]
    BY <1>2, <1>6 DEF Held
  <1>. QED
    BY <1>2, <1>5, <1>7, Assemble DEF envVars, quotaVars, IInv, JobsTypeOK

LEMMA HeartbeatStep ==
  ASSUME IInv, NEW l \in leases, Heartbeat(l)
  PROVE  IInv'
  <1> DEFINE j == l.job
             stop == j \in revoked /\ ~job[j].cancel
             r == RenewedRow(job[j], stop)
  <1>1. j \in Job /\ job[j] \in Row /\ job[j].state \in Held
    BY DEF IInv, JobsTypeOK, LeaseIdentity, Heartbeat, ValidLease, LiveLease
  <1>2. job' = [job EXCEPT ![j] = r]
    BY DEF Heartbeat
  <1>3. r \in Row
    <2>1. (IF stop THEN job[j].revision + 1 ELSE job[j].revision) \in Nat
      BY <1>1 DEF Row
    <2>2. (job[j].cancel \/ stop) \in BOOLEAN
      OBVIOUS
    <2>. QED
      BY Zenon, <1>1, <2>1, <2>2 DEF Row, RenewedRow
  <1>4. /\ r.state = job[j].state /\ r.attempt = job[j].attempt
        /\ r.leaseSeq = job[j].leaseSeq /\ r.worker = job[j].worker /\ r.phase = job[j].phase
    BY <1>1 DEF Row, RenewedRow
  <1>5. job[j].phase # "completed"
    BY <1>1 DEF IInv, RowOK, Held, Terminal
  <1> HIDE DEF r, j
  <1>. QED
    BY Zenon, <1>1, <1>2, <1>3, <1>4, <1>5, HeldStep DEF Heartbeat

LEMMA EventStep ==
  ASSUME IInv, NEW l \in leases, Event(l)
  PROVE  IInv'
  <1> DEFINE j == l.job
             r == RunningRow(job[j])
  <1>1. j \in Job /\ job[j] \in Row /\ job[j].state \in Held
    BY DEF IInv, JobsTypeOK, LeaseIdentity, Event, ValidLease, LiveLease
  <1>2. job' = [job EXCEPT ![j] = r]
    BY DEF Event
  <1>3. r \in Row
    <2>1. (IF job[j].state = "leased" THEN job[j].revision + 1 ELSE job[j].revision) \in Nat
      BY <1>1 DEF Row
    <2>2. "running" \in States /\ "progress" \in Phases
      BY DEF States, Phases, Held
    <2>. QED
      BY Zenon, <1>1, <2>1, <2>2 DEF Row, RunningRow
  <1>4. /\ r.state = "running" /\ r.attempt = job[j].attempt
        /\ r.leaseSeq = job[j].leaseSeq /\ r.worker = job[j].worker /\ r.phase = "progress"
    BY <1>1 DEF Row, RunningRow
  <1> HIDE DEF r, j
  <1>. QED
    BY Zenon, <1>1, <1>2, <1>3, <1>4, HeldStep DEF Event, Held

LEMMA LeaseRunsOutStep ==
  ASSUME IInv, NEW j \in Job, LeaseRunsOut(j)
  PROVE  IInv'
  <1> DEFINE r == [job[j] EXCEPT !.live = FALSE]
  <1>1. job[j] \in Row /\ job[j].state \in Held
    BY DEF IInv, JobsTypeOK, LeaseRunsOut, LiveLease
  <1>2. job' = [job EXCEPT ![j] = r]
    BY DEF LeaseRunsOut
  <1>3. r \in Row
    BY ZenonT(60), <1>1 DEF Row
  <1>4. /\ r.state = job[j].state /\ r.attempt = job[j].attempt
        /\ r.leaseSeq = job[j].leaseSeq /\ r.worker = job[j].worker /\ r.phase = job[j].phase
    BY <1>1 DEF Row
  <1>5. job[j].phase # "completed"
    BY <1>1 DEF IInv, RowOK, Held, Terminal
  <1> HIDE DEF r
  <1>. QED
    BY Zenon, <1>1, <1>2, <1>3, <1>4, <1>5, HeldStep DEF LeaseRunsOut

LEMMA ReapStep ==
  ASSUME IInv, NEW j \in Job, Reap(j)
  PROVE  IInv'
  <1> DEFINE wanted == IF job[j].cancel THEN "canceled"
               ELSE IF job[j].attempt >= MaxAttempts \/ Type[j] = "download_throughput"
                    THEN "failed" ELSE "queued"
  <1>1. /\ job[j].state \in Held /\ EndAttempt(j, Bytes[j], wanted)
        /\ UNCHANGED <<batch, leases, accepted, committed, envVars>>
    BY DEF Reap
  <1>2. /\ wanted \in {"queued", "failed", "canceled"}
        /\ wanted = "queued" => job[j].attempt < Limit(j) /\ ~job[j].cancel
        /\ job[j].cancel => wanted = "canceled"
    BY DEF Limit, MaxAttempts, IInv, JobsTypeOK, Row
  <1>3. Bytes[j] \in Nat
    BY SMTT(60), JobAssumption
  <1> HIDE DEF wanted
  <1>4. /\ job' \in [Job -> Row]
        /\ res' \in [Job -> [1..MaxAttempts -> Reservation]]
        /\ \A i \in Job : RowOK(i)' /\ ResOK(i)'
        /\ \A i \in Job : i # j => job'[i] = job[i]
        /\ job'[j].attempt = job[j].attempt
        /\ job'[j].state \in {"queued", "failed", "canceled"}
    BY <1>1, <1>2, <1>3, EndAttemptOK DEF Terminal
  <1>5. \A i \in Job : job[i].attempt \in Nat
    BY DEF IInv, JobsTypeOK, Row, MaxAttempts
  <1>6. \A i \in Job :
            /\ job[i].attempt <= job'[i].attempt
            /\ job'[i].state \in Held => \/ job[i].state \in Held
                                         \/ job'[i].attempt > job[i].attempt
            /\ job'[i].state \in {"succeeded", "timed_out"} => job'[i] = job[i]
    BY SMTT(60), <1>4, <1>5 DEF Held
  <1>. QED
    BY SMTT(60), <1>1, <1>4, <1>6, Assemble DEF envVars, IInv, JobsTypeOK

\* The one action that adds to the accepted results.
LEMMA CompleteStep ==
  ASSUME IInv, NEW l \in leases, NEW o \in Outcomes(l.job), Complete(l, o)
  PROVE  IInv'
  <1> DEFINE j == l.job
             wanted == IF InfrastructureRetry(j, o) THEN "queued" ELSE o.state
             new == [lease |-> l, state |-> o.state, commit |-> o.commit]
  <1>1. /\ j \in Job /\ l \in LeaseIdentity /\ job[j].state \in Held /\ LeaseOf(j) = l
        /\ job[j].cancel => o.state = "canceled"
        /\ EndAttempt(j, o.used, wanted)
        /\ accepted' = accepted \cup {new}
        /\ committed' = [committed EXCEPT ![j] = IF o.commit THEN @ + 1 ELSE @]
        /\ UNCHANGED <<batch, leases, envVars>>
    BY DEF IInv, JobsTypeOK, LeaseIdentity, Complete, ValidLease, LiveLease, Locks
  <1>2. o.state \in Terminal /\ o.used \in Nat /\ o.commit \in BOOLEAN
    <2>1. o.state \in Terminal
      BY DEF Outcomes
    <2>2. o.used \in Nat
      BY SMTT(60), <1>1, JobAssumption DEF Outcomes
    <2>3. o.commit \in BOOLEAN
      BY Zenon DEF Outcomes
    <2>. QED
      BY <2>1, <2>2, <2>3
  <1>3. /\ wanted \in {"queued"} \cup Terminal
        /\ wanted = "queued" => job[j].attempt < Limit(j) /\ ~job[j].cancel
        /\ job[j].cancel => wanted = "canceled"
    BY Zenon, <1>1, <1>2 DEF InfrastructureRetry, Limit, MaxAttempts, Terminal
  <1>4. wanted \in {"succeeded", "timed_out"} => wanted = o.state
    BY Zenon
  <1> HIDE DEF wanted
  <1>5. /\ job' \in [Job -> Row]
        /\ res' \in [Job -> [1..MaxAttempts -> Reservation]]
        /\ \A i \in Job : RowOK(i)' /\ ResOK(i)'
        /\ \A i \in Job : i # j => job'[i] = job[i]
        /\ LeaseOf(j)' = l
        /\ job'[j].attempt = job[j].attempt
        /\ \/ job'[j].state = wanted
           \/ wanted = "queued" /\ job'[j].state = "failed"
    <2> HIDE DEF j, new
    <2>1. j \in Job /\ job[j].state \in Held /\ o.used \in Nat /\ EndAttempt(j, o.used, wanted)
      BY Zenon, <1>1, <1>2
    <2>. QED
      BY ZenonT(60), <1>1, <1>3, <2>1, EndAttemptOK
  <1>6. new \in Result /\ new.lease = l /\ new.state = o.state
    BY Zenon, <1>1, <1>2 DEF Result
  <1> HIDE DEF new
  <1>7. /\ \A a \in accepted : a.lease.job = j => a.lease.attempt < job[j].attempt
        /\ l.attempt = job[j].attempt
    BY <1>1 DEF IInv, AcceptedOK, LeaseOf
  <1>8. \A a \in accepted : a.lease.attempt \in Nat /\ job[j].attempt \in Nat
    BY <1>1 DEF IInv, JobsTypeOK, Result, LeaseIdentity, Row, MaxAttempts
  <1>9. \A i \in Job : AcceptedOK(i)'
    <2> SUFFICES ASSUME NEW i \in Job PROVE AcceptedOK(i)'
      OBVIOUS
    <2>1. CASE i = j
      <3>1. job'[j].state \notin Held
        BY SMTT(60), <1>3, <1>5 DEF Held, Terminal
      <3>2. \A a \in accepted' : a.lease.job = j => a.lease.attempt <= job'[j].attempt
        <4>1. new.lease.attempt <= job'[j].attempt
          BY <1>1, <1>5, <1>6, <1>7 DEF LeaseIdentity, MaxAttempts
        <4>. QED
          BY SMTT(60), <1>1, <1>5, <1>7, <1>8, <4>1
      <3>3. job'[j].state \in {"succeeded", "timed_out"} =>
               \E a \in accepted' : a.lease = LeaseOf(j)' /\ a.state = job'[j].state
        BY <1>1, <1>4, <1>5, <1>6
      <3>. QED
        BY SMTT(60), <2>1, <3>1, <3>2, <3>3 DEF AcceptedOK
    <2>2. CASE i # j
      <3>1. job'[i] = job[i] /\ AcceptedOK(i)
        BY SMTT(60), <1>5, <2>2 DEF IInv
      <3>2. \A a \in accepted' : a.lease.job = i => a \in accepted
        BY ZenonT(60), <1>1, <1>6, <2>2
      <3>. QED
        BY <1>1, <3>1, <3>2 DEF AcceptedOK, LeaseOf
    <2>. QED
      BY <2>1, <2>2
  <1>10. UniqueResults'
    <2> SUFFICES ASSUME NEW a \in accepted', NEW b \in accepted',
                        a.lease.job = b.lease.job, a.lease.attempt = b.lease.attempt
                 PROVE  a = b
      BY DEF UniqueResults
    <2>1. CASE a \in accepted /\ b \in accepted
      BY <2>1 DEF IInv, UniqueResults
    <2>2. CASE a = new /\ b \in accepted
      BY <1>6, <1>7, <1>8, <2>2
    <2>3. CASE a \in accepted /\ b = new
      BY SMTT(60), <1>6, <1>7, <1>8, <2>3
    <2>. QED
      BY <1>1, <2>1, <2>2, <2>3
  <1>11. JobsTypeOK'
    <2>1. accepted' \subseteq Result
      BY <1>1, <1>6 DEF IInv, JobsTypeOK
    <2>2. committed' \in [Job -> Nat]
      BY SMTT(60), <1>1 DEF IInv, JobsTypeOK
    <2>. QED
      BY <1>1, <1>5, <2>1, <2>2 DEF IInv, JobsTypeOK, envVars
  <1>. QED
    BY <1>5, <1>9, <1>10, <1>11 DEF IInv

LEMMA ClaimApiStep ==
  ASSUME IInv, NEW w \in ApiWorkers, NEW j \in Job, ClaimApi(w, j)
  PROVE  IInv'
  <1>1. w \in Workers /\ {j} \in SUBSET Job /\ {} \in SUBSET Job /\ {j} \cap {} = {}
    BY DEF Workers
  <1>2. \A i \in {j} \cup {} : Claimable(i)
    BY DEF ClaimApi
  <1>3. job' = [i \in Job |-> IF i \in {j} THEN LeaseRow(job[i], w)
                              ELSE IF i \in {} THEN CancelRow(job[i]) ELSE job[i]]
    BY ZenonT(60) DEF ClaimApi, IInv, JobsTypeOK
  <1>4. res' = ReleasedRes({})
    BY DEF ClaimApi, IInv, JobsTypeOK, ReleasedRes, Unstarted, quotaVars
  <1>5. leases' = leases \cup {NewLease(i, w) : i \in {j}}
    BY DEF ClaimApi
  <1>. QED
    BY Zenon, <1>1, <1>2, <1>3, <1>4, <1>5, ClaimStep DEF ClaimApi

LEMMA ClaimRunnerStep ==
  ASSUME IInv, NEW w \in Runners, NEW heads \in SUBSET Job, ClaimRunner(w, heads)
  PROVE  IInv'
  <1> DEFINE good == {j \in heads \ revoked : Admissible(w, j)}
             chosen == {j \in good : \A i \in good : j <= i}
             dropped == {j \in heads \cap revoked : \A i \in chosen : j < i}
  <1>1. /\ job' = [j \in Job |-> IF j \in chosen THEN LeaseRow(job[j], w)
                                 ELSE IF j \in dropped THEN CancelRow(job[j])
                                 ELSE job[j]]
        /\ leases' = leases \cup {NewLease(j, w) : j \in chosen}
        /\ res' = ReleasedRes(dropped)
        /\ UNCHANGED <<batch, accepted, committed, envVars>>
        /\ \A j \in heads : Claimable(j)
    BY Zenon DEF ClaimRunner
  <1>2. /\ w \in Workers /\ chosen \in SUBSET Job /\ dropped \in SUBSET Job
        /\ chosen \cap dropped = {} /\ chosen \cup dropped \subseteq heads
    BY DEF Workers
  <1> HIDE DEF chosen, dropped
  <1>. QED
    BY SMTT(60), <1>1, <1>2, ClaimStep

LEMMA CancelJobStep ==
  ASSUME IInv, NEW j \in Job, Cancel(j)
  PROVE  IInv'
  <1>1. /\ job' = [i \in Job |-> IF i \in {j} THEN CancelRow(job[i]) ELSE job[i]]
        /\ res' = ReleasedRes({j}) /\ {j} \in SUBSET Job /\ \A i \in {j} : Cancelable(i)
    BY ZenonT(60) DEF Cancel, IInv, JobsTypeOK
  <1>. QED
    BY Zenon, <1>1, CancelStep DEF Cancel, IInv, JobsTypeOK

LEMMA CancelBatchStep ==
  ASSUME IInv, NEW b \in Batches, CancelBatch(b)
  PROVE  IInv'
  <1> DEFINE children == {j \in b : Cancelable(j)}
  <1>1. /\ job' = [j \in Job |-> IF j \in children THEN CancelRow(job[j]) ELSE job[j]]
        /\ res' = ReleasedRes(children) /\ batch' \in [Batches -> BOOLEAN]
        /\ UNCHANGED <<leases, accepted, committed, envVars>>
    BY DEF CancelBatch, IInv, JobsTypeOK
  <1>2. children \in SUBSET Job /\ \A j \in children : Cancelable(j)
    BY SMTT(60), BatchAssumption
  <1> HIDE DEF children
  <1>. QED
    BY <1>1, <1>2, CancelStep

\* The clock, the settings and revocation leave the tables alone.
LEMMA EnvironmentStep ==
  ASSUME IInv, NextDay \/ (\E q \in Quotas : UpdateQuota(q)) \/ (\E j \in Job : SetRevoked(j))
  PROVE  IInv'
  <1>1. UNCHANGED <<job, batch, leases, accepted, committed, res>>
    BY DEF NextDay, UpdateQuota, SetRevoked, quotaVars
  <1>2. today' \in Days /\ quota' \in Quotas /\ revoked' \subseteq TestJob
    <2>1. CASE NextDay
      BY <2>1, QuotaAssumption DEF NextDay, IInv, JobsTypeOK, Days
    <2>2. CASE \E q \in Quotas : UpdateQuota(q)
      BY <2>2 DEF UpdateQuota, IInv, JobsTypeOK
    <2>3. CASE \E j \in Job : SetRevoked(j)
      BY <2>3 DEF SetRevoked, IInv, JobsTypeOK
    <2>. QED
      BY <2>1, <2>2, <2>3
  <1>3. \A j \in Job : RowOK(j)' /\ ResOK(j)'
    BY <1>1, RowKept
  <1>4. \A j \in Job : job[j].attempt <= job'[j].attempt
    BY <1>1 DEF IInv, JobsTypeOK, Row, MaxAttempts
  <1>. QED
    BY <1>1, <1>2, <1>3, <1>4, Assemble DEF IInv, JobsTypeOK

LEMMA NextIInv == IInv /\ [Next]_vars => IInv'
  <1> SUFFICES ASSUME IInv, [Next]_vars PROVE IInv'
    OBVIOUS
  <1>1. ASSUME NEW j \in Job, Enqueue(j) PROVE IInv'
    BY <1>1, InsertStep DEF Enqueue
  <1>2. ASSUME NEW b \in Batches, CreateBatch(b) PROVE IInv'
    BY <1>2, BatchAssumption, InsertStep DEF CreateBatch
  <1>3. ASSUME NEW j \in Job, Cancel(j) PROVE IInv'
    BY <1>3, CancelJobStep
  <1>4. ASSUME NEW b \in Batches, CancelBatch(b) PROVE IInv'
    BY <1>4, CancelBatchStep
  <1>5. ASSUME NEW w \in ApiWorkers, NEW j \in Job, ClaimApi(w, j) PROVE IInv'
    BY <1>5, ClaimApiStep
  <1>6. ASSUME NEW w \in Runners, NEW heads \in SUBSET Job, ClaimRunner(w, heads) PROVE IInv'
    BY <1>6, ClaimRunnerStep
  <1>7. ASSUME NEW l \in leases, Heartbeat(l) PROVE IInv'
    BY <1>7, HeartbeatStep
  <1>8. ASSUME NEW l \in leases, Event(l) PROVE IInv'
    BY <1>8, EventStep
  <1>9. ASSUME NEW l \in leases, NEW o \in Outcomes(l.job), Complete(l, o) PROVE IInv'
    BY <1>9, CompleteStep
  <1>10. ASSUME NEW j \in Job, Reap(j) PROVE IInv'
    BY <1>10, ReapStep
  <1>11. ASSUME NEW j \in Job, LeaseRunsOut(j) PROVE IInv'
    BY <1>11, LeaseRunsOutStep
  <1>12. ASSUME \/ NextDay \/ \E q \in Quotas : UpdateQuota(q)
                \/ \E j \in Job : SetRevoked(j)
         PROVE  IInv'
    BY SMTT(60), <1>12, EnvironmentStep
  <1>13. ASSUME UNCHANGED vars PROVE IInv'
    <2>1. UNCHANGED <<job, batch, leases, accepted, committed, res, today, quota, revoked>>
      BY <1>13 DEF vars, envVars
    <2>2. \A j \in Job : job[j].attempt <= job'[j].attempt
      BY <2>1 DEF IInv, JobsTypeOK, Row, MaxAttempts
    <2>. QED
      BY <2>1, <2>2, RowKept, Assemble DEF IInv, JobsTypeOK
  <1>. QED
    BY <1>1, <1>2, <1>3, <1>4, <1>5, <1>6, <1>7, <1>8, <1>9, <1>10, <1>11, <1>12, <1>13
    DEF Next

-----------------------------------------------------------------------------
(* How a step may move one row.                                             *)

RowStep(j) ==
    \/ job'[j] = job[j]
    \/ ~Exists(j) /\ job'[j] = QueuedRow
    \/ Claimable(j) /\ \E w \in Workers : job'[j] = LeaseRow(job[j], w)
    \/ Cancelable(j) /\ job'[j] = CancelRow(job[j])
    \/ /\ job[j].state \in Held
       /\ \/ \E stop \in BOOLEAN : job'[j] = RenewedRow(job[j], stop)
          \/ job'[j] = RunningRow(job[j])
          \/ job'[j] = [job[j] EXCEPT !.live = FALSE]
          \/ \E final \in {"queued"} \cup Terminal :
                /\ job'[j] = EndedRow(job[j], final)
                /\ final = "queued" => job[j].attempt < Limit(j)
                /\ job[j].cancel => final = "canceled"

LEMMA EndAttemptMoves ==
  ASSUME IInv, NEW j \in Job, job[j].state \in Held, NEW used,
         NEW wanted \in {"queued"} \cup Terminal,
         wanted = "queued" => job[j].attempt < Limit(j) /\ ~job[j].cancel,
         job[j].cancel => wanted = "canceled",
         EndAttempt(j, used, wanted)
  PROVE  \A i \in Job : RowStep(i)
  <1> DEFINE final == Afford(j, used, wanted)
  <1>1. job' = [job EXCEPT ![j] = EndedRow(job[j], final)] /\ job \in [Job -> Row]
    BY SMTT(60) DEF EndAttempt, IInv, JobsTypeOK
  <1>2. /\ final \in {"queued"} \cup Terminal
        /\ final = "queued" => wanted = "queued"
        /\ job[j].cancel => final = "canceled"
    BY DEF Afford, Terminal
  <1> HIDE DEF final
  <1>3. job'[j] = EndedRow(job[j], final) /\ \A i \in Job : i # j => job'[i] = job[i]
    BY <1>1
  <1>. QED
    BY <1>2, <1>3 DEF RowStep

LEMMA StepMovesRows ==
  ASSUME IInv, [Next]_vars
  PROVE  \A i \in Job : RowStep(i)
  <1>t. job \in [Job -> Row] /\ leases \subseteq LeaseIdentity
    BY DEF IInv, JobsTypeOK
  <1>1. ASSUME NEW S \in SUBSET Job, Insert(S) PROVE \A i \in Job : RowStep(i)
    BY <1>1 DEF Insert, RowStep
  <1>3. ASSUME NEW j \in Job, Cancel(j) PROVE \A i \in Job : RowStep(i)
    BY <1>3, <1>t DEF Cancel, RowStep
  <1>4. ASSUME NEW b \in Batches, CancelBatch(b) PROVE \A i \in Job : RowStep(i)
    BY <1>4, BatchAssumption DEF CancelBatch, RowStep
  <1>5. ASSUME NEW w \in ApiWorkers, NEW j \in Job, ClaimApi(w, j)
        PROVE  \A i \in Job : RowStep(i)
    BY <1>5, <1>t DEF ClaimApi, RowStep, Workers
  <1>6. ASSUME NEW w \in Runners, NEW heads \in SUBSET Job, ClaimRunner(w, heads)
        PROVE  \A i \in Job : RowStep(i)
    <2> DEFINE good == {j \in heads \ revoked : Admissible(w, j)}
               chosen == {j \in good : \A i \in good : j <= i}
               dropped == {j \in heads \cap revoked : \A i \in chosen : j < i}
    <2>1. /\ job' = [j \in Job |-> IF j \in chosen THEN LeaseRow(job[j], w)
                                   ELSE IF j \in dropped THEN CancelRow(job[j])
                                   ELSE job[j]]
          /\ \A j \in heads : Claimable(j)
      BY Zenon, <1>6 DEF ClaimRunner
    <2>2. chosen \subseteq heads /\ dropped \subseteq heads /\ w \in Workers
      BY DEF Workers
    <2> HIDE DEF chosen, dropped
    <2>. QED
      BY SMTT(60), <2>1, <2>2 DEF RowStep, Claimable, Cancelable
  <1>7. ASSUME NEW l \in leases, Heartbeat(l) PROVE \A i \in Job : RowStep(i)
    <2>1. /\ l.job \in Job /\ job[l.job].state \in Held
          /\ (l.job \in revoked /\ ~job[l.job].cancel) \in BOOLEAN
      BY <1>7, <1>t DEF LeaseIdentity, Heartbeat, ValidLease, LiveLease
    <2>. QED
      BY ZenonT(60), <1>7, <1>t, <2>1 DEF Heartbeat, RowStep
  <1>8. ASSUME NEW l \in leases, Event(l) PROVE \A i \in Job : RowStep(i)
    <2>1. l.job \in Job /\ job[l.job].state \in Held
      BY <1>8, <1>t DEF LeaseIdentity, Event, ValidLease, LiveLease
    <2>. QED
      BY <1>8, <1>t, <2>1 DEF Event, RowStep
  <1>9. ASSUME NEW l \in leases, NEW o \in Outcomes(l.job), Complete(l, o)
        PROVE  \A i \in Job : RowStep(i)
    <2> DEFINE wanted == IF InfrastructureRetry(l.job, o) THEN "queued" ELSE o.state
    <2>1. l.job \in Job /\ job[l.job].state \in Held /\ o.state \in Terminal
      BY SMTT(60), <1>9, <1>t DEF LeaseIdentity, Complete, ValidLease, LiveLease, Outcomes
    <2>2. EndAttempt(l.job, o.used, wanted) /\ (job[l.job].cancel => o.state = "canceled")
      BY ZenonT(60), <1>9 DEF Complete
    <2>3. /\ wanted \in {"queued"} \cup Terminal
          /\ wanted = "queued" => job[l.job].attempt < Limit(l.job) /\ ~job[l.job].cancel
          /\ job[l.job].cancel => wanted = "canceled"
      BY SMTT(60), <2>1, <2>2 DEF InfrastructureRetry, Limit, MaxAttempts, Terminal
    <2> HIDE DEF wanted
    <2>. QED
      BY <2>1, <2>2, <2>3, EndAttemptMoves
  <1>10. ASSUME NEW j \in Job, Reap(j) PROVE \A i \in Job : RowStep(i)
    <2> DEFINE wanted == IF job[j].cancel THEN "canceled"
                 ELSE IF job[j].attempt >= MaxAttempts \/ Type[j] = "download_throughput"
                      THEN "failed" ELSE "queued"
    <2>1. job[j].state \in Held /\ EndAttempt(j, Bytes[j], wanted)
      BY <1>10 DEF Reap
    <2>2. /\ wanted \in {"queued"} \cup Terminal
          /\ wanted = "queued" => job[j].attempt < Limit(j) /\ ~job[j].cancel
          /\ job[j].cancel => wanted = "canceled"
      BY <1>t DEF Limit, MaxAttempts, Terminal, Row
    <2> HIDE DEF wanted
    <2>. QED
      BY SMTT(60), <2>1, <2>2, EndAttemptMoves
  <1>11. ASSUME NEW j \in Job, LeaseRunsOut(j) PROVE \A i \in Job : RowStep(i)
    BY ZenonT(60), <1>11, <1>t DEF LeaseRunsOut, RowStep, LiveLease
  <1>12. ASSUME job' = job PROVE \A i \in Job : RowStep(i)
    BY <1>12 DEF RowStep
  <1>13. ASSUME NEW j \in Job, Enqueue(j) PROVE \A i \in Job : RowStep(i)
    BY <1>1, <1>13 DEF Enqueue
  <1>14. ASSUME NEW b \in Batches, CreateBatch(b) PROVE \A i \in Job : RowStep(i)
    BY <1>1, <1>14, BatchAssumption DEF CreateBatch
  <1>15. ASSUME \/ NextDay \/ \E q \in Quotas : UpdateQuota(q)
                \/ \E j \in Job : SetRevoked(j) \/ UNCHANGED vars
         PROVE  job' = job
    BY <1>15 DEF NextDay, UpdateQuota, SetRevoked, vars
  <1>. QED
    BY <1>3, <1>4, <1>5, <1>6, <1>7, <1>8, <1>9, <1>10, <1>11, <1>12, <1>13, <1>14, <1>15
    DEF Next

-----------------------------------------------------------------------------
(* The theorems.                                                            *)

\* IInv holds in every reachable state of the queue.
THEOREM QueueInvariant == Spec => []IInv
  BY InitIInv, NextIInv, PTL DEF Spec

\* Cancellation wins: a job with cancel_requested_at set is never queued again
\* and ends only as canceled, for any jobs, workers, batches and settings.
THEOREM CancellationWins == Spec => []CancelWins
  <1>1. IInv => CancelWins
    BY SMTT(60) DEF IInv, RowOK, CancelWins
  <1>. QED
    BY <1>1, QueueInvariant, PTL

\* Claim, ReapExpired, CompleteTx and cancelChild always find the reservation
\* row they settle, and a finished network job holds none.
THEOREM ReservationsReady == Spec => []ReservationReady
  <1>1. IInv => ReservationReady
    BY SMTT(60) DEF IInv, ResOK, ReservationReady
  <1>. QED
    BY <1>1, QueueInvariant, PTL

\* lease_seq counts the attempts, and there are at most two of them, one for
\* a download.
THEOREM AttemptsAreBounded == Spec => []AttemptsBounded
  <1>1. IInv => AttemptsBounded
    BY SMTT(60) DEF IInv, RowOK, AttemptsBounded, Limit
  <1>. QED
    BY <1>1, QueueInvariant, PTL

\* The event stream of a job has its "completed" event exactly when the job
\* is in a terminal state.
THEOREM StreamsEnd == Spec => []StreamEnds
  <1>1. IInv => StreamEnds
    BY SMTT(60) DEF IInv, RowOK, StreamEnds
  <1>. QED
    BY <1>1, QueueInvariant, PTL

\* Fencing: one accepted result per attempt, and a job that succeeded or timed
\* out did so by the result of the holder of its last lease.
THEOREM FencingHolds == Spec => []ResultsFenced
  <1>1. IInv => ResultsFenced
    BY DEF IInv, AcceptedOK, UniqueResults, ResultsFenced
  <1>. QED
    BY <1>1, QueueInvariant, PTL

\* The row of a finished job is never written again.
THEOREM TerminalStaysFinal == Spec => TerminalIsFinal
  <1>1. IInv /\ [Next]_vars => [\A j \in Job : job[j].state \in Terminal => job'[j] = job[j]]_vars
    <2> SUFFICES ASSUME IInv, [Next]_vars, NEW j \in Job, job[j].state \in Terminal
                 PROVE  job'[j] = job[j]
      OBVIOUS
    <2>1. RowStep(j)
      BY StepMovesRows
    <2>. QED
      BY <2>1 DEF RowStep, Terminal, Held, Exists, Claimable, Cancelable
  <1>. QED
    BY <1>1, QueueInvariant, PTL DEF Spec, TerminalIsFinal

\* No business callback commits for a job whose cancellation was requested.
THEOREM CancelStopsCommits == Spec => CancelStopsCommit
  <1>1. IInv /\ [Next]_vars => [\A j \in Job : job[j].cancel => committed'[j] = committed[j]]_vars
    <2> SUFFICES ASSUME IInv, [Next]_vars, NEW j \in Job, job[j].cancel
                 PROVE  committed'[j] = committed[j]
      OBVIOUS
    <2>1. ASSUME NEW l \in leases, NEW o \in Outcomes(l.job), Complete(l, o)
          PROVE  committed'[j] = committed[j]
      <3>1. /\ committed' = [committed EXCEPT ![l.job] =
                                IF o.commit THEN committed[l.job] + 1 ELSE committed[l.job]]
            /\ job[l.job].cancel => ~o.commit
            /\ committed \in [Job -> Nat]
        BY <2>1 DEF Complete, IInv, JobsTypeOK
      <3>. QED
        BY SMTT(60), <3>1
    <2>2. ASSUME committed' = committed PROVE committed'[j] = committed[j]
      BY SMTT(60), <2>2
    <2>. QED
      BY Zenon, <2>1, <2>2 DEF Next, Enqueue, CreateBatch, Insert, Cancel, CancelBatch, ClaimApi,
         ClaimRunner, Heartbeat, Event, Reap, LeaseRunsOut, NextDay, UpdateQuota,
         SetRevoked, vars
  <1>. QED
    BY <1>1, QueueInvariant, PTL DEF Spec, CancelStopsCommit

-----------------------------------------------------------------------------
(* The queue implements JobContract.                                        *)

PhaseOf(r) == CASE r.state = "none" -> "absent"
                [] r.state = "queued" -> "waiting"
                [] r.state \in Held -> "working"
                [] OTHER -> r.state

\* What RowStep means for the three things the contract sees of a job.
LEMMA RowStepMoves ==
  ASSUME IInv, NEW j \in Job, RowStep(j)
  PROVE  LET r == job[j]
             q == job'[j]
         IN \/ r.state = q.state /\ r.attempt = q.attempt /\ r.cancel = q.cancel
            \/ r.state = "none" /\ q.state = "queued" /\ q.attempt = 0 /\ ~q.cancel
            \/ /\ r.state = "queued" /\ q.state \in Held /\ r.attempt < Limit(j)
               /\ q.attempt = r.attempt + 1 /\ ~r.cancel /\ ~q.cancel
            \/ /\ r.state = "queued" /\ q.state = "canceled"
               /\ q.attempt = r.attempt /\ q.cancel
            \/ /\ r.state \in Held /\ q.state \in Held /\ q.attempt = r.attempt
               /\ q.cancel \/ q.cancel = r.cancel
            \/ /\ r.state \in Held /\ q.state = "queued" /\ r.attempt < Limit(j)
               /\ q.attempt = r.attempt /\ ~r.cancel /\ ~q.cancel
            \/ /\ r.state \in Held /\ q.state \in Terminal /\ q.attempt = r.attempt
               /\ q.cancel = r.cancel /\ (q.cancel => q.state = "canceled")
  <1>1. job[j] \in Row /\ RowOK(j)
    BY SMTT(60) DEF IInv, JobsTypeOK
  <1>2. CASE ~Exists(j) /\ job'[j] = QueuedRow
    <2>1. QueuedRow.state = "queued" /\ QueuedRow.attempt = 0 /\ ~QueuedRow.cancel
      BY SMTT(60) DEF QueuedRow, NoRow
    <2>. QED
      BY <1>2, <2>1 DEF Exists
  <1>3. ASSUME Claimable(j), NEW w \in Workers, job'[j] = LeaseRow(job[j], w)
        PROVE  /\ job[j].state = "queued" /\ job'[j].state \in Held
               /\ job[j].attempt < Limit(j) /\ job'[j].attempt = job[j].attempt + 1
               /\ ~job[j].cancel /\ ~job'[j].cancel
    <2>1. \A r \in Row : /\ LeaseRow(r, w).state = "leased"
                         /\ LeaseRow(r, w).attempt = r.attempt + 1
                         /\ LeaseRow(r, w).cancel = r.cancel
      BY Zenon, LeaseRowFields
    <2>. QED
      BY SMTT(60), <1>1, <1>3, <2>1 DEF RowOK, Claimable, Held
  <1>4. CASE Cancelable(j) /\ job'[j] = CancelRow(job[j])
    BY Zenon, <1>1, <1>4, CancelRowFields DEF Cancelable
  <1>5. ASSUME job[j].state \in Held, NEW stop \in BOOLEAN, job'[j] = RenewedRow(job[j], stop)
        PROVE  /\ job'[j].state = job[j].state /\ job'[j].attempt = job[j].attempt
               /\ job'[j].cancel \/ job'[j].cancel = job[j].cancel
    BY <1>1, <1>5 DEF RenewedRow, Row
  <1>6. ASSUME job[j].state \in Held, job'[j] = RunningRow(job[j])
        PROVE  /\ job'[j].state = "running" /\ job'[j].attempt = job[j].attempt
               /\ job'[j].cancel = job[j].cancel
    BY <1>1, <1>6 DEF RunningRow, Row
  <1>7. ASSUME job'[j] = [job[j] EXCEPT !.live = FALSE]
        PROVE  /\ job'[j].state = job[j].state /\ job'[j].attempt = job[j].attempt
               /\ job'[j].cancel = job[j].cancel
    BY <1>1, <1>7 DEF Row
  <1>8. ASSUME NEW final, job'[j] = EndedRow(job[j], final)
        PROVE  /\ job'[j].state = final /\ job'[j].attempt = job[j].attempt
               /\ job'[j].cancel = job[j].cancel
    BY <1>1, <1>8 DEF EndedRow, Row
  <1>9. "running" \in Held /\ (job[j].cancel \in BOOLEAN) /\ "queued" # "canceled"
    BY <1>1 DEF Held, Row
  <1>. QED
    BY <1>2, <1>3, <1>4, <1>5, <1>6, <1>7, <1>8, <1>9 DEF RowStep

\* Every behaviour of the queue is, seen through the state, the attempt and
\* the cancel flag of each job, a behaviour of JobContract.
THEOREM QueueImplementsContract == Spec => ImplementsContract
  <1>1. Init => Contract!Init
    <2> SUFFICES ASSUME Init PROVE Contract!Init
      OBVIOUS
    <2>1. \A j \in Job : job[j] = NoRow
      BY DEF Init
    <2>2. NoRow.state = "none" /\ NoRow.attempt = 0 /\ NoRow.cancel = FALSE
      BY DEF NoRow
    <2>3. \A j \in Job : PhaseOf(job[j]) = "absent"
      BY <2>1, <2>2 DEF PhaseOf, Held
    <2>4. [j \in Job |-> PhaseOf(job[j])] = [j \in Job |-> "absent"]
      BY <2>3
    <2>5. [j \in Job |-> job[j].attempt] = [j \in Job |-> 0]
      BY <2>1, <2>2
    <2>6. [j \in Job |-> job[j].cancel] = [j \in Job |-> FALSE]
      BY Zenon, <2>1, <2>2
    <2>. QED
      BY Zenon, <2>4, <2>5, <2>6, Zenon DEF Contract!Init, PhaseOf
  <1>2. IInv /\ [Next]_vars => [Contract!Next]_(Contract!contractVars)
    <2> SUFFICES ASSUME IInv, [Next]_vars, NEW j \in Job
                 PROVE  \/ Contract!Moves(j, PhaseOf(job'[j]), job'[j].attempt, job'[j].cancel)
                        \/ <<PhaseOf(job'[j]), job'[j].attempt, job'[j].cancel>>
                             = <<PhaseOf(job[j]), job[j].attempt, job[j].cancel>>
      BY DEF Contract!Next, PhaseOf
    <2>1. RowStep(j)
      BY StepMovesRows
    <2>. QED
      BY <2>1, RowStepMoves DEF Contract!Moves, PhaseOf, Held, Terminal, Limit
  <1>. QED
    BY <1>1, <1>2, QueueInvariant, PTL DEF Spec, ImplementsContract, Contract!Spec
=============================================================================
