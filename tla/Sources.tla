------------------------------- MODULE Sources -------------------------------
(***************************************************************************)
(* One remote source: its document, its refresh schedule, the refresh jobs  *)
(* that API workers run for it, the previews those refreshes leave for an    *)
(* operator to confirm, and the nodes bound to its items                     *)
(* (internal/storage/sources*.go, source_persist.go, imports_sources.go,     *)
(* imports_expiration.go and internal/server/origin.go).                     *)
(*                                                                           *)
(* Every change of the source is one transaction that holds the scope lock   *)
(* and is one action here.  A refresh is several: the worker reads the head, *)
(* fetches without any lock, and commits inside CompleteTx; the scheduler    *)
(* lists what is due in one statement and enqueues in another transaction.   *)
(* An attempt whose lease is lost can no longer commit (JobQueueProofs,      *)
(* FencingHolds), so its worker is forgotten when the job is reaped.         *)
(*                                                                           *)
(* A preview is named by the source revision it was written with.  Contents  *)
(* of nodes are opaque values; what an operator's override adds on top of    *)
(* the upstream content is left out.                                         *)
(***************************************************************************)
EXTENDS Integers, FiniteSets

CONSTANTS
    Job,          \* slots for refresh jobs; a finished job frees its slot
    Item,         \* upstream identities
    Content,      \* upstream contents of an item
    Interval,     \* refresh_policy.interval_seconds, in units of time
    Base,         \* the least backoff (60 seconds), in the same unit
    Cap,          \* the greatest backoff the table admits (30 days)
    Policies,     \* the refresh policies an operator may store
    MaxRevision,  \* bound: revisions of the source
    MaxFaults     \* bound: lost leases, handler errors and cancellations

NoContent == 0
Outcomes == {"ok", "rejected", "unavailable"}
PCs == {"idle", "claimed", "fetching", "invalid", "error", "abandoned"} \cup Outcomes
Revisions == 1..MaxRevision

ASSUME SourceAssumption ==
    /\ Content \subseteq Nat \ {0} /\ Content # {}
    /\ Base \in Nat \ {0} /\ Interval \in Nat /\ Cap \in Nat
    /\ Base <= Interval /\ Interval <= Cap
    /\ Policies # {}
    /\ Policies \subseteq [on : BOOLEAN, safe : BOOLEAN, disable : BOOLEAN]
    /\ MaxRevision \in Nat \ {0} /\ MaxFaults \in Nat

VARIABLES
    doc,      \* the source document at its head revision
    sched,    \* its source_schedules row
    job,      \* its source_refresh jobs
    work,     \* what the worker that holds a job's lease knows
    item,     \* source_items, node_bindings and the bound nodes
    preview,  \* import_batches of the source, by source_revision
    fresh,    \* items whose node and binding are as the pending preview says
    pick,     \* the revision the scheduler listed as due (0: none)
    faults

vars == <<doc, sched, job, work, item, preview, fresh, pick, faults>>

Kinds == {"none", "new", "modified", "unchanged", "missing", "conflict"}
Candidate == [kind : Kinds, content : Content \cup {NoContent}, auto : BOOLEAN, disable : BOOLEAN]
NoCandidate == [kind |-> "none", content |-> NoContent, auto |-> FALSE, disable |-> FALSE]
\* rev = 0: not created yet.  edits counts what operators changed, latest is
\* LatestPreviewBatchID, error tells whether LastError is set.
Document == [rev : 0..MaxRevision, alive : BOOLEAN, policy : Policies,
             edits : 0..MaxRevision, latest : 0..MaxRevision, error : BOOLEAN]
\* state "idle": the slot holds no queued, leased or running job.
JobRow == [state : {"idle", "queued", "held"}, attempt : 0..2, rev : 0..MaxRevision,
           edits : 0..MaxRevision, live : BOOLEAN, cancel : BOOLEAN]
NoJob == [state |-> "idle", attempt |-> 0, rev |-> 0, edits |-> 0,
          live |-> FALSE, cancel |-> FALSE]
\* got: the fetched content of each item; clash: items whose identity the
\* fetch repeats or the catalog only suggests; age: time since the fetch.
Work == [pc : PCs, edits : 0..MaxRevision, got : [Item -> Content \cup {NoContent}],
         clash : SUBSET Item, age : 0..Interval]
NoWork == [pc |-> "idle", edits |-> 0, got |-> [i \in Item |-> NoContent],
           clash |-> {}, age |-> 0]
\* base and applied are the envelope and applied_envelope of the item; node is
\* the upstream content its bound node was last built from.
ItemRow == [st : {"none", "active", "missing", "conflict"},
            base : Content \cup {NoContent}, applied : Content \cup {NoContent},
            bind : {"none", "active", "stale", "conflict"},
            node : Content \cup {NoContent}, live : BOOLEAN, enabled : BOOLEAN]
NoItem == [st |-> "none", base |-> NoContent, applied |-> NoContent, bind |-> "none",
           node |-> NoContent, live |-> FALSE, enabled |-> FALSE]
\* fetched: the edits the worker had read when it fetched this preview.
PreviewRow == [state : {"none", "ready", "committed", "superseded", "expired"},
               edits : 0..MaxRevision, fetched : 0..MaxRevision, cand : [Item -> Candidate]]
NoPreview == [state |-> "none", edits |-> 0, fetched |-> 0,
              cand |-> [i \in Item |-> NoCandidate]]

Exists == doc.rev # 0 /\ doc.alive
Active(j) == job[j].state # "idle"
Due == sched.on /\ sched.wait = 0

TypeOK ==
    /\ doc \in Document
    /\ sched \in [on : BOOLEAN, wait : 0..Interval, backoff : 0..Cap]
    /\ job \in [Job -> JobRow]
    /\ work \in [Job -> Work]
    /\ item \in [Item -> ItemRow]
    /\ preview \in [Revisions -> PreviewRow]
    /\ fresh \in SUBSET Item
    /\ pick \in 0..MaxRevision
    /\ faults \in 0..MaxFaults

\* An item bound before applied_envelope was added to source_items
\* (migrations/000012), where the column is NULL.
LegacyItem(c) == [NoItem EXCEPT !.st = "active", !.base = c, !.bind = "active",
                                !.node = c, !.live = TRUE, !.enabled = TRUE]

Schedule(policy, wait, backoff) ==
    IF policy.on THEN [on |-> TRUE, wait |-> wait, backoff |-> backoff]
    ELSE [on |-> FALSE, wait |-> 0, backoff |-> 0]

\* Either there is no source yet, or one that older releases have refreshed.
Init ==
    /\ \/ /\ doc \in {[rev |-> 0, alive |-> FALSE, policy |-> p, edits |-> 0,
                       latest |-> 0, error |-> FALSE] : p \in Policies}
          /\ sched = [on |-> FALSE, wait |-> 0, backoff |-> 0]
          /\ item = [i \in Item |-> NoItem]
       \/ /\ doc \in {[rev |-> 1, alive |-> TRUE, policy |-> p, edits |-> 0,
                       latest |-> 0, error |-> FALSE] : p \in Policies}
          /\ sched = Schedule(doc.policy, Interval, Base)
          /\ item \in [Item -> {LegacyItem(c) : c \in Content}]
    /\ job = [j \in Job |-> NoJob] /\ work = [j \in Job |-> NoWork]
    /\ preview = [r \in Revisions |-> NoPreview]
    /\ fresh = {} /\ pick = 0 /\ faults = 0

-----------------------------------------------------------------------------
(* The document and its schedule (sources.go, source_persist.go).           *)

MinOf(a, b) == IF a <= b THEN a ELSE b
MaxOf(a, b) == IF a >= b THEN a ELSE b

\* Variant: the interval does not limit the backoff.
nextBackoffUncapped(current) == MinOf(MaxOf(2 * current, Base), Cap)

nextBackoff(current) == MinOf(MinOf(MaxOf(2 * current, Base), Interval), Cap)

\* syncSchedule after a refresh whose fetch ended age units of time ago.
SyncSuccess(age) == Schedule(doc.policy, Interval - age, Base)
SyncFailure(age) ==
    LET backoff == nextBackoff(IF sched.on THEN sched.backoff ELSE Base)
    IN Schedule(doc.policy, MaxOf(backoff - age, 0), backoff)

\* A preview that can no longer be committed; what it offered is never read again.
Closed(state) == [NoPreview EXCEPT !.state = state]

\* supersedeSourcePreviews
Superseded(p) == [r \in Revisions |->
    IF p[r].state = "ready" THEN Closed("superseded") ELSE p[r]]

Create(policy) ==
    /\ doc.rev = 0
    /\ doc' = [doc EXCEPT !.rev = 1, !.alive = TRUE, !.policy = policy]
    /\ sched' = Schedule(policy, Interval, Base)
    /\ UNCHANGED <<job, work, item, preview, fresh, pick, faults>>

Edited(policy) == [doc EXCEPT !.rev = @ + 1, !.edits = @ + 1, !.policy = policy]

\* Variant: the schedule is only written when the policy is on.
UpdateKeepsSchedule(policy) ==
    /\ Exists /\ doc.rev < MaxRevision
    /\ doc' = Edited(policy)
    /\ preview' = Superseded(preview)
    /\ fresh' = {}
    /\ sched' = IF policy.on THEN Schedule(policy, Interval, Base) ELSE sched
    /\ UNCHANGED <<job, work, item, pick, faults>>

\* An operator's edit with the current revision.
Update(policy) ==
    /\ Exists /\ doc.rev < MaxRevision
    /\ doc' = Edited(policy)
    /\ preview' = Superseded(preview) /\ fresh' = {}
    /\ sched' = Schedule(policy, Interval, Base)
    /\ UNCHANGED <<job, work, item, pick, faults>>

Delete ==
    /\ Exists /\ doc.rev < MaxRevision
    /\ doc' = [doc EXCEPT !.rev = @ + 1, !.edits = @ + 1, !.alive = FALSE]
    /\ preview' = Superseded(preview) /\ fresh' = {}
    /\ sched' = [on |-> FALSE, wait |-> 0, backoff |-> 0]
    /\ UNCHANGED <<job, work, item, pick, faults>>

-----------------------------------------------------------------------------
(* Enqueueing: EnqueueRefresh and ScheduleDue (sources.go).                 *)

\* Variant: the revision alone decides.
EnqueueableAnyway(expected) == Exists /\ doc.rev = expected

Enqueueable(expected) ==
    /\ Exists /\ doc.rev = expected
    /\ \A j \in Job : ~Active(j)

Insert(j) ==
    /\ ~Active(j)
    /\ job' = [job EXCEPT ![j] = [NoJob EXCEPT !.state = "queued", !.rev = doc.rev,
                                               !.edits = doc.edits]]

\* An operator asks for a refresh of the current revision.
EnqueueRefresh(j) ==
    /\ Enqueueable(doc.rev)
    /\ Insert(j)
    /\ UNCHANGED <<doc, sched, work, item, preview, fresh, pick, faults>>

\* The scheduler lists the due schedules with their head revisions...
ListDue ==
    /\ pick = 0 /\ Due
    /\ pick' = doc.rev
    /\ UNCHANGED <<doc, sched, job, work, item, preview, fresh, faults>>

\* ...and then enqueues each in a transaction of its own.
EnqueueDue(j) ==
    /\ pick # 0 /\ Enqueueable(pick)
    /\ Insert(j)
    /\ pick' = 0
    /\ UNCHANGED <<doc, sched, work, item, preview, fresh, faults>>

\* A conflict, a deleted source or a newer revision is skipped.
SkipDue ==
    /\ pick # 0 /\ ~Enqueueable(pick)
    /\ pick' = 0
    /\ UNCHANGED <<doc, sched, job, work, item, preview, fresh, faults>>
-----------------------------------------------------------------------------
(* What a refresh finds (HandleRefresh, sources_refresh.go) and the job it  *)
(* runs under (jobs.go, worker.go; the queue itself is module JobQueue).    *)

Claim(j) ==
    /\ job[j].state = "queued"
    /\ job' = [job EXCEPT ![j].state = "held", ![j].live = TRUE, ![j].attempt = @ + 1]
    /\ work' = [work EXCEPT ![j] = [NoWork EXCEPT !.pc = "claimed"]]
    /\ UNCHANGED <<doc, sched, item, preview, fresh, pick, faults>>

\* The handler reads the head: a deleted source or another revision than the
\* payload's ends the job as INVALID_CONFIG, without a commit function.
ReadHead(j) ==
    /\ work[j].pc = "claimed"
    /\ work' = [work EXCEPT ![j].pc = IF Exists /\ doc.rev = job[j].rev
                                      THEN "fetching" ELSE "invalid",
                            ![j].edits = doc.edits]
    /\ UNCHANGED <<doc, sched, job, item, preview, fresh, pick, faults>>

\* The upstream answers with some of these items, and possibly others...
FetchItems(j) ==
    /\ work[j].pc = "fetching"
    /\ \E got \in [Item -> Content \cup {NoContent}], clash \in SUBSET Item :
         /\ \A i \in clash : got[i] # NoContent
         /\ work' = [work EXCEPT ![j].pc = "ok", ![j].got = got, ![j].clash = clash]
    /\ UNCHANGED <<doc, sched, job, item, preview, fresh, pick, faults>>

\* ...or with something unusable (empty, too large, invalid, timed out), or
\* not at all, which is the one failure that counts as infrastructure.
FetchFails(j) ==
    /\ work[j].pc = "fetching"
    /\ \E o \in Outcomes \ {"ok"} : work' = [work EXCEPT ![j].pc = o]
    /\ UNCHANGED <<doc, sched, job, item, preview, fresh, pick, faults>>

\* The handler returns an error of its own (the database, the digest).
HandlerError(j) ==
    /\ work[j].pc \in {"claimed", "fetching"} /\ faults < MaxFaults
    /\ work' = [work EXCEPT ![j].pc = "error"]
    /\ faults' = faults + 1
    /\ UNCHANGED <<doc, sched, job, item, preview, fresh, pick>>

-----------------------------------------------------------------------------
(* The commit of a refresh: commitRefresh and createSourcePreview.          *)

Bound(i) == item[i].bind # "none"

\* Every item that is stored is either in the fetch or missing from it, and in
\* both cases the preview probes the node of its binding: refreshPreviewBinding,
\* or the loop over the items not seen.  A deleted node is an error.
Probed == \A i \in Item : Bound(i) => item[i].live

\* The entry of an item in the preview.  clash stands for a repeated key or a
\* match that is no identity; a bound item is matched by its binding.
Kind(i, content, clash) ==
    IF content = NoContent
    THEN IF item[i].st = "none" THEN "none" ELSE "missing"
    ELSE IF clash THEN "conflict"
    ELSE IF ~Bound(i) THEN "new"
    ELSE IF /\ item[i].base = content /\ item[i].node = content
            /\ item[i].bind = "active" THEN "unchanged"
    ELSE "modified"

\* Variant: the pending content becomes the baseline at once.
UpdatedReplacesBaseline(row, content) ==
    [row EXCEPT !.st = "active", !.base = content,
                !.applied = IF row.bind # "none" THEN content ELSE row.applied]

\* insertItem, updateItem: the first update of a bound item keeps the content
\* its node was built from as the applied baseline.
Updated(row, content) ==
    [row EXCEPT !.st = "active", !.base = content,
                !.applied = IF row.applied = NoContent /\ row.bind # "none"
                            THEN row.base ELSE row.applied]

\* applySourceItemBaseline
Baselined(row) == [row EXCEPT !.applied = row.base, !.st = "active"]

\* markConflict
Conflicted(row) ==
    [row EXCEPT !.st = "conflict",
                !.bind = IF row.bind = "none" THEN "none" ELSE "conflict"]

\* Variant: the commit mode is not looked at.
MissingDisables(row, policy) ==
    [row EXCEPT !.st = "missing",
                !.bind = IF row.bind = "none" THEN "none" ELSE "stale",
                !.enabled = row.enabled /\ ~(policy.disable /\ row.bind # "none")]

\* markMissing
Missing(row, policy) ==
    [row EXCEPT !.st = "missing",
                !.bind = IF row.bind = "none" THEN "none" ELSE "stale",
                !.enabled = row.enabled /\ ~(policy.disable /\ policy.safe /\ row.bind # "none")]

\* createBoundNode, updateBoundNode
Built(row, content) ==
    [row EXCEPT !.node = content, !.bind = "active", !.live = TRUE,
                !.enabled = IF row.bind = "none" THEN TRUE ELSE row.enabled]

\* Variant: a manual source is applied at once.
RefreshedAlways(i, content, clash) ==
    LET kind == Kind(i, content, clash)
        row == Updated(item[i], content)
    IN CASE kind = "none" -> item[i]
         [] kind = "missing" -> Missing(item[i], doc.policy)
         [] kind = "conflict" -> Conflicted(row)
         [] kind = "unchanged" -> row
         [] kind \in {"new", "modified"} -> Baselined(Built(row, content))

\* Variant: safe updates also resolve conflicts.
RefreshedConflicts(i, content, clash) ==
    LET kind == Kind(i, content, clash)
        row == Updated(item[i], content)
    IN CASE kind = "none" -> item[i]
         [] kind = "missing" -> Missing(item[i], doc.policy)
         [] kind = "unchanged" -> row
         [] kind \in {"new", "modified", "conflict"} ->
                IF doc.policy.safe THEN Baselined(Built(row, content)) ELSE row

\* createSourcePreview for one item.
Refreshed(i, content, clash) ==
    LET kind == Kind(i, content, clash)
        row == Updated(item[i], content)
    IN CASE kind = "none" -> item[i]
         [] kind = "missing" -> Missing(item[i], doc.policy)
         [] kind = "conflict" -> Conflicted(row)
         [] kind = "unchanged" -> row
         [] kind \in {"new", "modified"} ->
                IF doc.policy.safe THEN Baselined(Built(row, content)) ELSE row

Entry(i, content, clash) ==
    LET kind == Kind(i, content, clash)
    IN [kind |-> kind,
        content |-> IF kind = "missing" THEN item[i].base ELSE content,
        auto |-> doc.policy.safe /\ kind \in {"new", "modified", "missing"},
        disable |-> kind = "missing" /\ doc.policy.disable]

\* A successful refresh writes the items, the one pending preview and the next
\* revision of the source.
CommitSuccess(w) ==
    LET next == doc.rev + 1 IN
    /\ doc' = [doc EXCEPT !.rev = next, !.latest = next, !.error = FALSE]
    /\ item' = [i \in Item |-> Refreshed(i, w.got[i], i \in w.clash)]
    /\ preview' = [Superseded(preview) EXCEPT ![next] =
          [state |-> "ready", edits |-> doc.edits, fetched |-> w.edits,
           cand |-> [i \in Item |-> Entry(i, w.got[i], i \in w.clash)]]]
    /\ fresh' = Item
    /\ sched' = SyncSuccess(w.age)

\* Variant: a failed refresh discards the pending preview too.
CommitFailureSupersedes(w) ==
    /\ doc' = [doc EXCEPT !.rev = @ + 1, !.error = TRUE]
    /\ sched' = SyncFailure(w.age)
    /\ preview' = Superseded(preview)
    /\ UNCHANGED <<item, fresh>>

\* A failed one records the error and backs off.
CommitFailure(w) ==
    /\ doc' = [doc EXCEPT !.rev = @ + 1, !.error = TRUE]
    /\ sched' = SyncFailure(w.age)
    /\ UNCHANGED <<item, preview, fresh>>

\* Variant: the commit does not look at the revision again.
commitRefreshUnchecked(j) ==
    /\ Exists /\ doc.rev < MaxRevision
    /\ IF work[j].pc = "ok" THEN Probed /\ CommitSuccess(work[j]) ELSE CommitFailure(work[j])

\* commitRefresh, the callback of CompleteTx: a source that moved on since the
\* payload was written is left alone.
commitRefresh(j) ==
    /\ Exists
    /\ IF doc.rev # job[j].rev THEN UNCHANGED <<doc, sched, item, preview, fresh>>
       ELSE /\ doc.rev < MaxRevision
            /\ IF work[j].pc = "ok" THEN Probed /\ CommitSuccess(work[j])
               ELSE CommitFailure(work[j])

Holds(j) == job[j].state = "held" /\ job[j].live

\* infrastructureRetry
Retried(j) == work[j].pc \in {"unavailable", "error"} /\ job[j].attempt < 2

Ended(j) ==
    /\ job' = [job EXCEPT ![j] =
          IF Retried(j) THEN [@ EXCEPT !.state = "queued", !.live = FALSE] ELSE NoJob]
    /\ work' = [work EXCEPT ![j] = NoWork]

\* CompleteTx with the callback of a refresh that fetched something.
CompleteRefresh(j) ==
    /\ Holds(j) /\ ~job[j].cancel
    /\ work[j].pc \in Outcomes
    /\ commitRefresh(j)
    /\ Ended(j)
    /\ UNCHANGED <<pick, faults>>

\* CompleteTx of a result without a callback.
CompletePlain(j) ==
    /\ Holds(j) /\ ~job[j].cancel
    /\ work[j].pc \in {"invalid", "error"}
    /\ Ended(j)
    /\ UNCHANGED <<doc, sched, item, preview, fresh, pick, faults>>

\* The callback returns an error: everything is rolled back and the worker
\* leaves the attempt to its lease.
CallbackFails(j) ==
    /\ Holds(j) /\ ~job[j].cancel
    /\ work[j].pc \in Outcomes
    /\ \/ ~Exists
       \/ doc.rev = job[j].rev /\ work[j].pc = "ok" /\ ~Probed
    /\ work' = [work EXCEPT ![j].pc = "abandoned"]
    /\ UNCHANGED <<doc, sched, job, item, preview, fresh, pick, faults>>

\* An operator cancels a refresh; a queued job ends at once.
CancelJob(j) ==
    /\ Active(j) /\ ~job[j].cancel /\ faults < MaxFaults
    /\ job' = [job EXCEPT ![j] = IF @.state = "queued" THEN NoJob
                                 ELSE [@ EXCEPT !.cancel = TRUE]]
    /\ faults' = faults + 1
    /\ UNCHANGED <<doc, sched, work, item, preview, fresh, pick>>

\* The worker of a canceled job reports it canceled.
CompleteCanceled(j) ==
    /\ Holds(j) /\ job[j].cancel /\ work[j].pc # "abandoned"
    /\ job' = [job EXCEPT ![j] = NoJob]
    /\ work' = [work EXCEPT ![j] = NoWork]
    /\ UNCHANGED <<doc, sched, item, preview, fresh, pick, faults>>

\* The worker stops or stalls and its lease runs out.
LeaseLost(j) ==
    /\ Holds(j)
    /\ work[j].pc # "abandoned" /\ faults < MaxFaults
    /\ job' = [job EXCEPT ![j].live = FALSE]
    /\ faults' = faults + 1
    /\ UNCHANGED <<doc, sched, work, item, preview, fresh, pick>>

\* The lease of an attempt its worker has left runs out.
LeaseExpires(j) ==
    /\ Holds(j)
    /\ work[j].pc = "abandoned"
    /\ job' = [job EXCEPT ![j].live = FALSE]
    /\ UNCHANGED <<doc, sched, work, item, preview, fresh, pick, faults>>


\* ReapExpired
Reap(j) ==
    /\ job[j].state = "held" /\ ~job[j].live
    /\ job' = [job EXCEPT ![j] = IF @.cancel \/ @.attempt >= 2 THEN NoJob
                                 ELSE [@ EXCEPT !.state = "queued"]]
    /\ work' = [work EXCEPT ![j] = NoWork]
    /\ UNCHANGED <<doc, sched, item, preview, fresh, pick, faults>>

Tick ==
    /\ \/ sched.wait > 0
       \/ \E j \in Job : work[j].pc \in Outcomes /\ work[j].age < Interval
    /\ sched' = [sched EXCEPT !.wait = MaxOf(@ - 1, 0)]
    /\ work' = [j \in Job |-> IF work[j].pc \in Outcomes /\ work[j].age < Interval
                              THEN [work[j] EXCEPT !.age = @ + 1] ELSE work[j]]
    /\ UNCHANGED <<doc, job, item, preview, fresh, pick, faults>>

-----------------------------------------------------------------------------
(* The pending preview: Imports.Commit for a source batch                   *)
(* (imports_commit.go, imports_sources.go) and its expiration.              *)

\* The batch is ready and validateSourcePreview accepts it: it is the latest,
\* and nothing but the operational fields of the source has changed.
Committable(r) ==
    /\ preview[r].state = "ready"
    /\ Exists /\ doc.latest = r
    /\ preview[r].edits = doc.edits

\* validateSourceDecision for an entry that is not skipped.  fresh stands for
\* the comparison of the node and binding revisions with the entry's.
Acceptable(i, c) ==
    /\ c.kind \in {"new", "modified", "conflict"} \/ (c.kind = "missing" /\ Bound(i))
    /\ ~c.auto /\ i \in fresh

\* commitSourceDecision: create, update, or bind to the node already bound.
Accepted(i, c) ==
    IF c.kind = "missing" THEN [item[i] EXCEPT !.enabled = @ /\ ~c.disable]
    ELSE Baselined(Built(item[i], c.content))

Commit(r, accept) ==
    /\ Committable(r)
    /\ \A i \in accept : Acceptable(i, preview[r].cand[i])
    /\ item' = [i \in Item |-> IF i \in accept THEN Accepted(i, preview[r].cand[i])
                               ELSE item[i]]
    /\ preview' = [preview EXCEPT ![r] = Closed("committed")]
    /\ fresh' = {}
    /\ UNCHANGED <<doc, sched, job, work, pick, faults>>

\* The node bound to k becomes the node of i, built from i's content.
Moved(i, k, content) ==
    [item EXCEPT ![k] = [@ EXCEPT !.bind = "none", !.node = NoContent,
                                  !.live = FALSE, !.enabled = FALSE],
                 ![i] = Baselined([Built(@, content) EXCEPT !.enabled = item[k].enabled])]

\* The decision bind on a conflict whose suggested node belongs to another item.
CommitBind(r, i, k) ==
    /\ Committable(r)
    /\ preview[r].cand[i].kind = "conflict" /\ ~Bound(i)
    /\ i # k /\ Bound(k) /\ {i, k} \subseteq fresh
    /\ item' = Moved(i, k, preview[r].cand[i].content)
    /\ preview' = [preview EXCEPT ![r] = Closed("committed")]
    /\ fresh' = {}
    /\ UNCHANGED <<doc, sched, job, work, pick, faults>>

\* expireOne: a committed batch stays committed.
Expire(r) ==
    /\ preview[r].state \in {"ready", "superseded"}
    /\ preview' = [preview EXCEPT ![r] = Closed("expired")]
    /\ fresh' = IF preview[r].state = "ready" THEN {} ELSE fresh
    /\ UNCHANGED <<doc, sched, job, work, item, pick, faults>>

-----------------------------------------------------------------------------
(* Operators' changes to a bound node (server/nodes.go, server/origin.go).  *)

LiveNode(i) == Bound(i) /\ item[i].live

\* LoadSourceBaseline: the applied envelope, if there is one.
Baseline(i) == IF item[i].applied = NoContent THEN item[i].base ELSE item[i].applied

NodeChanged(i, row) ==
    /\ item' = [item EXCEPT ![i] = row]
    /\ fresh' = fresh \ {i}
    /\ UNCHANGED <<doc, sched, job, work, preview, pick, faults>>

\* applyBoundPatch: the node is built again from the baseline and the override.
PatchNode(i, enabled) ==
    /\ LiveNode(i)
    /\ NodeChanged(i, [item[i] EXCEPT !.node = Baseline(i), !.enabled = enabled])

\* Its origin action skip keeps the node and drops the conflict of the binding.
SkipConflict(i) ==
    /\ LiveNode(i) /\ item[i].bind = "conflict"
    /\ NodeChanged(i, [item[i] EXCEPT !.bind = "active"])

\* Variant: nobody has to be in conflict.
BindUnasked(k, i) ==
    /\ LiveNode(k) /\ item[i].st # "none"
    /\ i = k \/ ~Bound(i)
    /\ item' = IF i = k THEN [item EXCEPT ![i] = Baselined(Built(@, item[i].base))]
               ELSE Moved(i, k, item[i].base)
    /\ fresh' = fresh \ {i, k}
    /\ UNCHANGED <<doc, sched, job, work, preview, pick, faults>>

\* Its origin action bind takes the upstream content of the conflicting item i.
BindNode(k, i) ==
    /\ LiveNode(k) /\ item[i].st # "none"
    /\ item[i].st = "conflict" \/ item[k].bind = "conflict"
    /\ i = k \/ ~Bound(i)
    /\ item' = IF i = k THEN [item EXCEPT ![i] = Baselined(Built(@, item[i].base))]
               ELSE Moved(i, k, item[i].base)
    /\ fresh' = fresh \ {i, k}
    /\ UNCHANGED <<doc, sched, job, work, preview, pick, faults>>

\* The node is deleted; its binding stays.
DeleteNode(i) ==
    /\ LiveNode(i)
    /\ NodeChanged(i, [item[i] EXCEPT !.live = FALSE])

-----------------------------------------------------------------------------
Operator ==
    \/ \E p \in Policies : Create(p) \/ Update(p)
    \/ Delete
    \/ \E j \in Job : EnqueueRefresh(j) \/ CancelJob(j)
    \/ \E r \in Revisions : \/ \E accept \in SUBSET Item : Commit(r, accept)
                            \/ \E i, k \in Item : CommitBind(r, i, k)
    \/ \E i \in Item : \/ \E enabled \in BOOLEAN : PatchNode(i, enabled)
                       \/ SkipConflict(i) \/ DeleteNode(i)
                       \/ \E k \in Item : BindNode(k, i)

Fetch(j) == FetchItems(j) \/ FetchFails(j)
Complete(j) == CompleteRefresh(j) \/ CompletePlain(j) \/ CompleteCanceled(j)
Scheduler == ListDue \/ (\E j \in Job : EnqueueDue(j)) \/ SkipDue
Fault(j) == HandlerError(j) \/ LeaseLost(j)

Next ==
    \/ Operator \/ Scheduler \/ Tick
    \/ \E j \in Job : \/ Claim(j) \/ ReadHead(j) \/ Fetch(j) \/ Fault(j)
                      \/ Complete(j) \/ CallbackFails(j) \/ LeaseExpires(j) \/ Reap(j)
    \/ \E r \in Revisions : Expire(r)

Spec == Init /\ [][Next]_vars

\* The server runs the scheduler, the workers and the reaper in loops, a fetch
\* has a timeout, and time passes.
Fairness ==
    /\ WF_vars(Tick) /\ WF_vars(Scheduler)
    /\ \A j \in Job : /\ WF_vars(Claim(j)) /\ WF_vars(ReadHead(j)) /\ WF_vars(Fetch(j))
                      /\ WF_vars(Complete(j)) /\ WF_vars(CallbackFails(j))
                      /\ WF_vars(LeaseExpires(j)) /\ WF_vars(Reap(j))

FairSpec == Spec /\ Fairness

-----------------------------------------------------------------------------
(* Properties.                                                              *)

\* A source has at most one refresh that is queued, leased or running, however
\* operators, the scheduler, retries and lost leases interleave (enqueue).
SingleRefresh == \A j, k \in Job : Active(j) /\ Active(k) => j = k

\* A preview that can still be confirmed is the latest one, and was fetched with
\* the configuration the source has now: an edit or a deletion during the fetch
\* or before the confirmation leaves nothing to confirm (commitRefresh,
\* supersedeSourcePreviews, Sources.Update, Sources.Delete).
ReadyIsCurrent ==
    \A r \in Revisions : preview[r].state = "ready" =>
        /\ Exists /\ doc.latest = r
        /\ preview[r].edits = doc.edits /\ preview[r].fetched = doc.edits

\* A pending preview is only superseded by a newer one or by an edit of the
\* source; a failed refresh keeps it (commitRefresh).
SupersededByNews ==
    [][\A r \in Revisions :
          preview[r].state = "ready" /\ preview'[r].state = "superseded" =>
              doc'.edits # doc.edits \/ doc'.latest # doc.latest]_vars

\* The schedule exists exactly while a live source has its policy on, and waits
\* no longer than the interval (syncSchedule, nextBackoff).
ScheduleFollowsPolicy ==
    /\ sched.on <=> Exists /\ doc.policy.on
    /\ sched.on => /\ Base <= sched.backoff /\ sched.backoff <= Interval
                   /\ sched.wait <= Interval

\* The baseline that an override is merged with is the upstream content the node
\* was built from, whatever refreshes are pending (updateItem,
\* applySourceItemBaseline, LoadSourceBaseline).
BaselineIsApplied == \A i \in Item : Bound(i) => Baseline(i) = item[i].node

\* The upstream content of a bound node only changes when a preview is
\* committed, when an operator resolves a conflict, or in a refresh of a source
\* with safe updates (createSourcePreview, applyBoundPatch).
ConfirmedOnly ==
    [][\A i \in Item : Bound(i)' /\ item'[i].node # item[i].node =>
          IF doc'.latest # doc.latest THEN doc.policy.safe
          ELSE \/ \E r \in Revisions : /\ preview[r].state = "ready"
                                       /\ preview'[r].state = "committed"
               \/ item[i].st = "conflict"
               \/ \E k \in Item : item[k].bind = "conflict"]_vars

\* A refresh that finds the identity of an item in doubt neither builds nor
\* binds its node, with safe updates too (markConflict).
ConflictsWait ==
    [][doc'.latest # doc.latest =>
         \A i \in Item : preview'[doc'.latest].cand[i].kind = "conflict" =>
            /\ item'[i].node = item[i].node
            /\ Bound(i)' = Bound(i)]_vars

\* A refresh never deletes a node, and disables one only when its item is gone
\* from upstream and the policy says so (markMissing).
MissingIsRetained ==
    [][doc'.latest # doc.latest =>
         \A i \in Item :
            /\ item[i].live => item'[i].live
            /\ item[i].enabled /\ ~item'[i].enabled =>
                  doc.policy.safe /\ doc.policy.disable /\ item'[i].st = "missing"]_vars


\* "Failures back off exponentially" (docs/m1-source-refresh-contract.md): a due
\* refresh eventually moves the schedule, whatever became of the nodes.
FailureBacksOff == (Due /\ doc.rev < MaxRevision) ~> (~Due \/ doc.rev = MaxRevision)

\* INVALID_CONFIG is an error of the input (docs/project_design_v1.0.md, 9.7): a
\* refresh is refused with it before the fetch only if somebody edited or deleted
\* the source after the refresh was enqueued (HandleRefresh).
InvalidIsInput == \A j \in Job : work[j].pc = "invalid" => work[j].edits # job[j].edits
=============================================================================
