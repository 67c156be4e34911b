---------------------------- MODULE Publication ----------------------------
(***************************************************************************)
(* How one subscription profile gets from the catalog to its readers        *)
(* (internal/storage/subscriptions*.go): a compile batch freezes the        *)
(* catalog, its compile job and one validation job per target run in the    *)
(* queue, an administrator who saw the finished preview publishes the batch, *)
(* rolls back to an earlier publication, and readers download the head with *)
(* a token.                                                                 *)
(*                                                                          *)
(* Every action is one committed transaction; each of them holds the row    *)
(* lock of the scope (LockScope).  Compile alone runs at REPEATABLE READ:    *)
(* its snapshot is taken when LockScope starts to wait, so a transaction     *)
(* that held the lock and left the scope row alone (a publication, a core    *)
(* disabled) is invisible to it, while one that changed the row makes it     *)
(* fail.  It is therefore two actions, BeginCompile and Compile.             *)
(*                                                                          *)
(* Jobs are those of JobContract, seen through the states that               *)
(* outputRows and aggregate tell apart.                                      *)
(***************************************************************************)
EXTENDS Naturals, Sequences, FiniteSets

CONSTANTS
    Resource,    \* nodes, groups and profiles the subscription can select
    Include,     \* the resources it names; the others are selected by tag
    Target, Core, CoreOf,   \* CoreOf: the core build of each target
    Format, Off,            \* a target's format, or Off when it is disabled
    Actor, Key, NoKey,      \* administrators, their Idempotency-Key headers
    Batch, Token,
    NoSnapshot, NoBatch,
    MaxCatalog,  \* bound: last catalog revision
    MaxPubs      \* bound: number of publications

ASSUME PublicationAssumption ==
    /\ Include \subseteq Resource
    /\ CoreOf \in [Target -> Core]
    /\ Off \notin Format
    /\ NoKey \notin Key
    /\ MaxCatalog \in Nat /\ MaxPubs \in Nat

VARIABLES
    scope,     \* the scopes row: [catalog, auth]
    resource,  \* resource heads
    profile,   \* the subscription profile's head
    core,      \* [Core -> BOOLEAN]: core_builds.enabled
    snap,      \* [Batch -> what a Compile under way sees]
    batch,     \* compile_batches with their outputs and jobs
    view,      \* compile_preview_views: previews shown to an actor
    pubs,      \* publications, in the order they were created
    head,      \* publication_heads: index into pubs, 0 when there is none
    op,        \* subscription_operations
    token      \* subscription_tokens

catalogVars == <<scope, resource, profile>>
vars == <<scope, resource, profile, core, snap, batch, view, pubs, head, op, token>>

Pending == {"queued", "compiling", "validating"}
BatchStates == {"none", "ready", "failed", "obsolete"} \cup Pending

\* A batch id that is not used yet.
Unused == [state |-> "none", catalog |-> 0, auth |-> 0, revision |-> 0, base |-> 0,
           deps |-> {}, targets |-> [t \in Target |-> Off], hash |-> FALSE,
           job |-> "none", out |-> [t \in Target |-> "absent"]]

Init ==
    /\ scope = [catalog |-> 1, auth |-> 1]
    /\ resource = [r \in Resource |-> [enabled |-> TRUE, deleted |-> FALSE, revision |-> 1, epoch |-> 1]]
    /\ \E f \in Format :
          profile = [deleted |-> FALSE, enabled |-> TRUE, revision |-> 1, targets |-> [t \in Target |-> f]]
    /\ core = [c \in Core |-> TRUE]
    /\ snap = [b \in Batch |-> NoSnapshot]
    /\ batch = [b \in Batch |-> Unused]
    /\ view = {} /\ pubs = <<>> /\ head = 0 /\ op = {}
    /\ token = [k \in Token |-> [state |-> "none", auth |-> 0, targets |-> {}]]
-----------------------------------------------------------------------------
(* The catalog: transact advances catalog_revision once per committed change. *)

AdvanceCatalog ==
    /\ scope.catalog < MaxCatalog
    /\ scope' = [scope EXCEPT !.catalog = scope.catalog + 1]
    /\ UNCHANGED <<core, snap, batch, view, pubs, head, op, token>>

\* Variant of Applied: only new credentials start an epoch.
AppliedAuthOnly(r, on, auth) ==
    [r EXCEPT !.revision = r.revision + 1, !.enabled = on,
              !.epoch = IF auth THEN r.epoch + 1 ELSE r.epoch]

\* catalog.Apply: new credentials, or disabling, start a new security epoch;
\* enabling again does not return to the old one.
Applied(r, on, auth) ==
    [r EXCEPT !.revision = r.revision + 1, !.enabled = on,
              !.epoch = IF auth \/ (r.enabled /\ ~on) THEN r.epoch + 1 ELSE r.epoch]

UpdateResource(r, on, auth) ==
    /\ ~resource[r].deleted
    /\ resource' = [resource EXCEPT ![r] = Applied(resource[r], on, auth)]
    /\ AdvanceCatalog
    /\ UNCHANGED profile

Invalidated(r, disable) ==
    [r EXCEPT !.revision = r.revision + 1, !.epoch = r.epoch + 1,
              !.enabled = r.enabled /\ ~disable, !.deleted = disable]

RevokeResource(r) ==
    /\ ~resource[r].deleted
    /\ resource' = [resource EXCEPT ![r] = Invalidated(resource[r], FALSE)]
    /\ AdvanceCatalog
    /\ UNCHANGED profile

DeleteResource(r) ==
    /\ ~resource[r].deleted
    /\ resource' = [resource EXCEPT ![r] = Invalidated(resource[r], TRUE)]
    /\ AdvanceCatalog
    /\ UNCHANGED profile

UpdateProfile(on, targets) ==
    /\ ~profile.deleted
    /\ profile' = [profile EXCEPT !.revision = profile.revision + 1, !.enabled = on, !.targets = targets]
    /\ AdvanceCatalog
    /\ UNCHANGED resource

DeleteProfile ==
    /\ ~profile.deleted
    /\ profile' = [profile EXCEPT !.revision = profile.revision + 1, !.enabled = FALSE, !.deleted = TRUE]
    /\ AdvanceCatalog
    /\ UNCHANGED resource

\* There is no way back: EnsureCoreBuilds leaves an existing row alone.
DisableCore(c) ==
    /\ core[c]
    /\ core' = [core EXCEPT ![c] = FALSE]
    /\ UNCHANGED <<scope, resource, profile, snap, batch, view, pubs, head, op, token>>
-----------------------------------------------------------------------------
(* Compile *)

Enabled(targets) == {t \in Target : targets[t] # Off}

\* subscriptions.Select: what is frozen; a named resource that is disabled or
\* gone fails the call, a tagged one is left out.
Usable(rs) == {r \in Resource : rs[r].enabled /\ ~rs[r].deleted}
Selects(rs) == Include \subseteq Usable(rs) /\ Usable(rs) # {}
Dependencies(rs) ==
    {[id |-> r, revision |-> rs[r].revision, epoch |-> rs[r].epoch] : r \in Usable(rs)}

\* headID: no head is generation 0.
Generation == IF head = 0 THEN 0 ELSE pubs[head].generation

Replays(a, route, k) == \E o \in op : o.actor = a /\ o.route = route /\ o.key = k

\* subscription_operations gets a row in the transaction of the operation it
\* names; without a key there is none.
Operation(a, route, k, b, source, id) ==
    op' = IF k = NoKey THEN op
          ELSE op \cup {[actor |-> a, route |-> route, key |-> k, batch |-> b, source |-> source,
                         generation |-> Generation, id |-> id]}

BeginCompile(b) ==
    /\ batch[b].state = "none"
    /\ snap[b] = NoSnapshot
    /\ snap' = [snap EXCEPT ![b] = [scope |-> scope, resource |-> resource, profile |-> profile,
                                    core |-> core, head |-> head]]
    /\ UNCHANGED <<scope, resource, profile, core, batch, view, pubs, head, op, token>>

\* The scope row was updated since the snapshot (serialization failure), or
\* one of the checks fails: the call returns an error.
CompileFails(b) ==
    /\ snap[b] # NoSnapshot
    /\ snap' = [snap EXCEPT ![b] = NoSnapshot]
    /\ UNCHANGED <<scope, resource, profile, core, batch, view, pubs, head, op, token>>

NewBatch(s) ==
    [state |-> "queued", catalog |-> s.scope.catalog, auth |-> s.scope.auth,
     revision |-> s.profile.revision, base |-> s.head, deps |-> Dependencies(s.resource),
     targets |-> s.profile.targets, hash |-> FALSE, job |-> "waiting",
     out |-> [t \in Target |-> "absent"]]

\* The row lock is granted only if the snapshot's scope row is the current one.
Granted(s) == s.scope = scope

Compile(a, k, b) ==
    LET s == snap[b] IN
    /\ s # NoSnapshot
    /\ Granted(s)
    /\ ~s.profile.deleted /\ s.profile.enabled
    /\ Enabled(s.profile.targets) # {}
    /\ ~Replays(a, "compile", k)
    /\ Selects(s.resource)
    /\ \A t \in Enabled(s.profile.targets) : s.core[CoreOf[t]]
    /\ batch' = [batch EXCEPT ![b] = NewBatch(s)]
    /\ snap' = [snap EXCEPT ![b] = NoSnapshot]
    /\ Operation(a, "compile", k, NoBatch, 0, b)
    /\ UNCHANGED <<scope, resource, profile, core, view, pubs, head, token>>
-----------------------------------------------------------------------------
(* The batch's jobs *)

Published(b) == \E i \in 1..Len(pubs) : pubs[i].batch = b
\* Variant of Drifted: a restore counts, an ordinary change does not.
DriftedByRestore(r) == r.auth # scope.auth
Drifted(r) == r.catalog # scope.catalog \/ r.auth # scope.auth

JobStep(b, from, to) ==
    /\ batch[b].job \in from
    /\ batch' = [batch EXCEPT ![b].job = to]
    /\ UNCHANGED <<scope, resource, profile, core, snap, view, pubs, head, op, token>>

ClaimCompile(b) == JobStep(b, {"waiting"}, "working")
RequeueCompile(b) == JobStep(b, {"working"}, "waiting")
\* The compile job ends failed, canceled or timed_out.
LoseCompile(b) == JobStep(b, {"waiting", "working"}, "failed")

\* The commit callback of HandleCompile runs in the transaction that accepts
\* the job's result; failed: a target had diagnostics.
CompiledState(r, failed) ==
    IF Drifted(r) THEN "obsolete" ELSE IF failed THEN "failed" ELSE "validating"

CompiledRow(r, s) ==
    [r EXCEPT !.job = "succeeded",
              !.out = [t \in Target |-> IF s = "validating" /\ r.targets[t] # Off THEN "pending" ELSE r.out[t]],
              !.state = IF r.state \in {"queued", "compiling"} THEN s ELSE r.state]

HandleCompile(b, failed) ==
    /\ batch[b].job = "working"
    /\ batch' = [batch EXCEPT ![b] = CompiledRow(batch[b], CompiledState(batch[b], failed))]
    /\ UNCHANGED <<scope, resource, profile, core, snap, view, pubs, head, op, token>>

\* A validation job ends: succeeded with verdict pass, or any other way.
Validate(b, t, verdict) ==
    /\ batch[b].out[t] = "pending"
    /\ batch' = [batch EXCEPT ![b].out[t] = verdict]
    /\ UNCHANGED <<scope, resource, profile, core, snap, view, pubs, head, op, token>>
-----------------------------------------------------------------------------
(* The batch's state: aggregate *)

Outputs(r) == {t \in Target : r.out[t] # "absent"}

\* Variant of Aggregated: any passed output is taken for all of them.
AggregatedAnyPass(b) ==
    LET r == batch[b] IN
    IF ~Published(b) /\ Drifted(r) THEN "obsolete"
    ELSE IF \E t \in Outputs(r) : r.out[t] = "pass" THEN "ready" ELSE r.state
\* Variant of Aggregated: a published batch can become obsolete too.
AggregatedAlways(b) ==
    LET r == batch[b] IN
    CASE Drifted(r) -> "obsolete"
      [] ~Drifted(r) /\ r.state \in {"failed", "obsolete"} -> r.state
      [] OTHER ->
           IF Outputs(r) = Enabled(r.targets)
           THEN IF \E t \in Outputs(r) : r.out[t] = "other" THEN "failed"
                ELSE IF \E t \in Outputs(r) : r.out[t] = "pending" THEN "validating" ELSE "ready"
           ELSE IF r.job = "failed" THEN "failed" ELSE r.state

\* The state the jobs' persisted results stand for; computed on every read of
\* the batch and by the reconciler, always under the scope lock.
Aggregated(b) ==
    LET r == batch[b] IN
    CASE ~Published(b) /\ Drifted(r) -> "obsolete"
      [] (Published(b) \/ ~Drifted(r)) /\ r.state \in {"failed", "obsolete"} -> r.state
      [] OTHER ->
           IF Outputs(r) = Enabled(r.targets)
           THEN IF \E t \in Outputs(r) : r.out[t] = "other" THEN "failed"
                ELSE IF \E t \in Outputs(r) : r.out[t] = "pending" THEN "validating" ELSE "ready"
           ELSE IF r.job = "failed" THEN "failed"
                ELSE IF r.job = "working" THEN "compiling" ELSE r.state
AggregatedRow(b) ==
    [batch[b] EXCEPT !.state = Aggregated(b), !.hash = batch[b].hash \/ Aggregated(b) = "ready"]

\* Variant of Reconcilable: batches whose compile job ended are not looked for.
ReconcilableValidating(b) == batch[b].state = "validating" /\ ~Published(b)

\* The rows the reconciler's query returns.
Reconcilable(b) ==
    /\ batch[b].state \in Pending \/ (batch[b].state = "ready" /\ Drifted(batch[b]))
    /\ ~Published(b)

\* One iteration of the loop of Reconcile.  The query ran before the lock was
\* taken, so the row may have moved on since.
Reconcile(b) ==
    /\ batch[b].state # "none"
    /\ batch' = [batch EXCEPT ![b] = AggregatedRow(b)]
    /\ UNCHANGED <<scope, resource, profile, core, snap, view, pubs, head, op, token>>

\* The preview of a ready batch counts as shown to the actor that read it.
GetBatch(a, b) ==
    /\ batch[b].state # "none"
    /\ batch' = [batch EXCEPT ![b] = AggregatedRow(b)]
    /\ view' = IF Aggregated(b) = "ready" THEN view \cup {<<a, b>>} ELSE view
    /\ UNCHANGED <<scope, resource, profile, core, snap, pubs, head, op, token>>
-----------------------------------------------------------------------------
(* Publishing *)

Current(d) == resource[d.id].enabled /\ ~resource[d.id].deleted /\ resource[d.id].epoch = d.epoch

SafeBatch(b) ==
    /\ profile.enabled
    /\ batch[b].auth = scope.auth
    /\ \A d \in batch[b].deps : Current(d)
    /\ \A t \in Enabled(batch[b].targets) :
          core[CoreOf[t]] /\ profile.targets[t] = batch[b].targets[t]

\* Variant of CreatePublication: a rollback only moves the head back.
CreatePublicationMovesHead(a, b, source) ==
    IF source = 0
    THEN /\ Len(pubs) < MaxPubs
         /\ pubs' = Append(pubs, [batch |-> b, generation |-> Generation + 1, source |-> source,
                                  actor |-> a, deps |-> batch[b].deps])
         /\ head' = Len(pubs) + 1
    ELSE head' = source /\ UNCHANGED pubs
\* Variant of CreatePublication: only the dependencies that changed since the last publication.
CreatePublicationNewDeps(a, b, source) ==
    /\ Len(pubs) < MaxPubs
    /\ pubs' = Append(pubs, [batch |-> b, generation |-> Generation + 1, source |-> source, actor |-> a,
                             deps |-> {d \in batch[b].deps : \A i \in 1..Len(pubs) : d \notin pubs[i].deps}])
    /\ head' = Len(pubs) + 1

CreatePublication(a, b, source) ==
    /\ Len(pubs) < MaxPubs
    /\ pubs' = Append(pubs, [batch |-> b, generation |-> Generation + 1, source |-> source,
                             actor |-> a, deps |-> batch[b].deps])
    /\ head' = Len(pubs) + 1

\* Variant of BaseIsHead: an older base will do.
BaseIsOlder(b) == head >= batch[b].base

\* The head is still the one the batch was compiled against.
BaseIsHead(b) == head = batch[b].base

\* Variant of Publish: the operation is recorded before the checks and survives them.
PublishRecordsFirst(a, k, b) ==
    /\ ~profile.deleted
    /\ ~Replays(a, "publish", k)
    /\ batch[b].state # "none"
    /\ Operation(a, "publish", k, b, 0, Len(pubs) + 1)
    /\ IF ~Drifted(batch[b]) /\ Aggregated(b) = "ready" /\ SafeBatch(b)
          /\ BaseIsHead(b) /\ <<a, b>> \in view
       THEN batch' = [batch EXCEPT ![b] = AggregatedRow(b)] /\ CreatePublication(a, b, 0)
       ELSE UNCHANGED <<batch, pubs, head>>
    /\ UNCHANGED <<scope, resource, profile, core, snap, view, token>>

Publish(a, k, b) ==
    /\ ~profile.deleted
    /\ ~Replays(a, "publish", k)
    /\ batch[b].state # "none"
    /\ ~Drifted(batch[b]) /\ profile.revision = batch[b].revision
    /\ Aggregated(b) = "ready"
    /\ SafeBatch(b)
    /\ BaseIsHead(b)
    /\ <<a, b>> \in view
    /\ batch' = [batch EXCEPT ![b] = AggregatedRow(b)]
    /\ CreatePublication(a, b, 0)
    /\ Operation(a, "publish", k, b, 0, Len(pubs) + 1)
    /\ UNCHANGED <<scope, resource, profile, core, snap, view, token>>

Rollback(a, k, i) ==
    LET b == pubs[i].batch IN
    /\ ~profile.deleted
    /\ ~Replays(a, "rollback", k)
    /\ SafeBatch(b)
    /\ Enabled(profile.targets) = Enabled(batch[b].targets)
    /\ Outputs(batch[b]) = Enabled(batch[b].targets)
    /\ \A t \in Outputs(batch[b]) : batch[b].out[t] = "pass"
    /\ CreatePublication(a, b, i)
    /\ Operation(a, "rollback", k, b, i, Len(pubs) + 1)
    /\ UNCHANGED <<scope, resource, profile, core, snap, batch, view, token>>
-----------------------------------------------------------------------------
(* Readers *)

IssueToken(a, k, n, targets) ==
    /\ token[n].state = "none"
    /\ ~profile.deleted /\ profile.enabled
    /\ targets # {} /\ targets \subseteq Enabled(profile.targets)
    /\ ~Replays(a, "token_issue", k)
    /\ token' = [token EXCEPT ![n] = [state |-> "active", auth |-> scope.auth, targets |-> targets]]
    /\ Operation(a, "token_issue", k, NoBatch, 0, n)
    /\ UNCHANGED <<scope, resource, profile, core, snap, batch, view, pubs, head>>

TokenEnds(n, how) ==
    /\ token[n].state = "active"
    /\ token' = [token EXCEPT ![n].state = how]
    /\ UNCHANGED <<scope, resource, profile, core, snap, batch, view, pubs, head, op>>
RevokeToken(n) == TokenEnds(n, "revoked")
ExpireToken(n) == TokenEnds(n, "expired")

\* Download decides from the relational manifest of the publication: its
\* publication_dependencies rows and the outputs of its batch.
SafePublished(i) ==
    LET b == pubs[i].batch IN
    /\ profile.enabled
    /\ batch[b].auth = scope.auth
    /\ \A d \in pubs[i].deps : Current(d)
    /\ \A t \in Outputs(batch[b]) : core[CoreOf[t]] /\ profile.targets[t] = batch[b].targets[t]

\* Download answers token n's request for target t.
Download(n, t) ==
    /\ token[n].state = "active" /\ token[n].auth = scope.auth /\ t \in token[n].targets
    /\ ~profile.deleted /\ profile.targets[t] # Off
    /\ head # 0
    /\ SafePublished(head)
    /\ t \in Outputs(batch[pubs[head].batch])

\* proxyloom_reset_after_restore, run on the restored database: every token
\* ends, jobs that were not finished are canceled, batches that were not
\* published are obsolete.
RestoredJobs(r) ==
    [r EXCEPT !.job = IF r.job \in {"waiting", "working"} THEN "failed" ELSE r.job,
              !.out = [t \in Target |-> IF r.out[t] = "pending" THEN "other" ELSE r.out[t]]]
Reset ==
    /\ scope.catalog < MaxCatalog
    /\ scope' = [catalog |-> scope.catalog + 1, auth |-> scope.auth + 1]
    /\ snap' = [b \in Batch |-> NoSnapshot]
    /\ token' = [n \in Token |-> [token[n] EXCEPT !.state = IF token[n].state = "none" THEN "none" ELSE "revoked"]]
    /\ batch' = [b \in Batch |->
                   [RestoredJobs(batch[b]) EXCEPT
                      !.state = IF batch[b].state \in Pending \cup {"ready"} /\ ~Published(b)
                                THEN "obsolete" ELSE batch[b].state]]
    /\ UNCHANGED <<resource, profile, core, view, pubs, head, op>>
-----------------------------------------------------------------------------
CatalogStep ==
    \/ \E r \in Resource : \/ \E on, auth \in BOOLEAN : UpdateResource(r, on, auth)
                           \/ RevokeResource(r) \/ DeleteResource(r)
    \/ \E on \in BOOLEAN, ts \in [Target -> Format \cup {Off}] : UpdateProfile(on, ts)
    \/ DeleteProfile
    \/ \E c \in Core : DisableCore(c)
    \/ Reset

BatchStep(b) ==
    \/ BeginCompile(b) \/ CompileFails(b)
    \/ ClaimCompile(b) \/ RequeueCompile(b) \/ LoseCompile(b)
    \/ \E failed \in BOOLEAN : HandleCompile(b, failed)
    \/ \E t \in Target, v \in {"pass", "other"} : Validate(b, t, v)
    \/ Reconcile(b)

ActorStep(a) ==
    \/ \E k \in Key \cup {NoKey} :
          \/ \E b \in Batch : Compile(a, k, b) \/ Publish(a, k, b)
          \/ \E i \in 1..Len(pubs) : Rollback(a, k, i)
          \/ \E n \in Token, ts \in SUBSET Target : IssueToken(a, k, n, ts)
    \/ \E b \in Batch : GetBatch(a, b)

Next == \/ CatalogStep
        \/ \E b \in Batch : BatchStep(b)
        \/ \E a \in Actor : ActorStep(a)
        \/ \E n \in Token : RevokeToken(n) \/ ExpireToken(n)

Spec == Init /\ [][Next]_vars

\* Jobs end (JobQueue: EveryJobEnds; a compile job is requeued at most once,
\* hence the strong fairness) and the reconciler runs every second.
Fairness ==
    \A b \in Batch :
        /\ WF_vars(ClaimCompile(b))
        /\ SF_vars(LoseCompile(b) \/ \E failed \in BOOLEAN : HandleCompile(b, failed))
        /\ \A t \in Target : WF_vars(\E v \in {"pass", "other"} : Validate(b, t, v))
        /\ WF_vars(Reconcilable(b) /\ Reconcile(b))
FairSpec == Spec /\ Fairness
-----------------------------------------------------------------------------
(* Properties *)

Dependency == [id : Resource, revision : Nat, epoch : Nat]
BatchRow == [state : BatchStates, catalog : Nat, auth : Nat, revision : Nat, base : Nat,
             deps : SUBSET Dependency, targets : [Target -> Format \cup {Off}], hash : BOOLEAN,
             job : {"none", "waiting", "working", "succeeded", "failed"},
             out : [Target -> {"absent", "pending", "pass", "other"}]]
ResourceRow == [enabled : BOOLEAN, deleted : BOOLEAN, revision : Nat, epoch : Nat]
ProfileRow == [deleted : BOOLEAN, enabled : BOOLEAN, revision : Nat, targets : [Target -> Format \cup {Off}]]
PublicationRow == [batch : Batch, generation : Nat, source : Nat, actor : Actor, deps : SUBSET Dependency]
Snapshot == [scope : [catalog : Nat, auth : Nat], resource : [Resource -> ResourceRow],
             profile : ProfileRow, core : [Core -> BOOLEAN], head : Nat]

\* Every row has the shape of its table, and a base, a head or a rollback source
\* is a publication that exists (foreign keys of publications, heads and bases).
TypeOK ==
    /\ scope \in [catalog : Nat, auth : Nat]
    /\ resource \in [Resource -> ResourceRow]
    /\ profile \in ProfileRow
    /\ core \in [Core -> BOOLEAN]
    /\ snap \in [Batch -> Snapshot \cup {NoSnapshot}]
    /\ batch \in [Batch -> BatchRow]
    /\ view \in SUBSET (Actor \X Batch)
    /\ pubs \in Seq(PublicationRow)
    /\ head \in 0..Len(pubs)
    /\ token \in [Token -> [state : {"none", "active", "revoked", "expired"}, auth : Nat, targets : SUBSET Target]]

\* Publish and Rollback number the publications 1, 2, 3... without a gap, and
\* the head is always the newest: a rollback is a new generation, so an
\* expected_generation never becomes valid a second time.
HeadIsNewest ==
    /\ head = Len(pubs)
    /\ \A i \in 1..Len(pubs) : pubs[i].generation = i /\ pubs[i].source < i

\* What Publish put at the head was compiled against the publication it
\* replaced, and the administrator who published it had been shown its preview:
\* a Compile that did not see a concurrent publication, or a preview of a batch
\* overtaken by another, is never published.
ApprovedAsSeen ==
    \A i \in 1..Len(pubs) :
        pubs[i].source = 0 => batch[pubs[i].batch].base = i - 1 /\ <<pubs[i].actor, pubs[i].batch>> \in view

\* A publication, rollbacks included, is one whole ready batch: every target it
\* was compiled for has an artifact and a Runner passed every one of them.
PublishedIsValidated ==
    \A i \in 1..Len(pubs) :
        LET r == batch[pubs[i].batch] IN
        /\ r.state = "ready" /\ r.hash
        /\ Enabled(r.targets) # {} /\ Outputs(r) = Enabled(r.targets)
        /\ \A t \in Outputs(r) : r.out[t] = "pass"

\* Download's check on the stored manifest (safePublished) and the check on the
\* decrypted batch that Publish, Rollback and the preview use (safeBatch) agree
\* on every publication.
ManifestAgrees == \A i \in 1..Len(pubs) : SafePublished(i) <=> SafeBatch(pubs[i].batch)

\* When Publish commits, the catalog it publishes is the current one: every
\* selected resource at its current revision, the current targets, and only
\* core builds that are enabled.  Compile's snapshot and the later checks add up.
FreshWhenPublished ==
    [][Len(pubs') > Len(pubs) /\ pubs'[Len(pubs')].source = 0 =>
         LET r == batch[pubs'[Len(pubs')].batch] IN
         /\ r.deps = Dependencies(resource)
         /\ r.targets = profile.targets
         /\ \A t \in Enabled(r.targets) : core[CoreOf[t]]]_vars

\* A resource the batch contains was disabled, deleted or got new credentials.
Withdrawn(b) == batch[b].state # "none" /\ \E d \in batch[b].deps : ~Current(d)
Serves(b) == \E n \in Token, t \in Target : Download(n, t) /\ pubs[head].batch = b

\* Once a resource has been disabled or its credentials changed, no download
\* ever answers with a batch that contains its old state again: not after it is
\* enabled again, not after a rollback, not after a restore.
WithdrawalIsFinal == [][\A b \in Batch : Withdrawn(b) => Withdrawn(b)' /\ ~Serves(b)']_vars

\* A batch's state only moves forward whoever aggregates it and whenever: a
\* failed batch never becomes ready, an obsolete one stays so, and a published
\* one stays ready whatever the catalog does.
StatesMoveForward ==
    [][\A b \in Batch :
         LET s == batch[b].state  n == batch'[b].state IN
         /\ s = "obsolete" => n = "obsolete"
         /\ s = "failed" => n \in {"failed", "obsolete"}
         /\ s = "ready" => n \in {"ready", "obsolete"}
         /\ Published(b) => n = s]_vars

\* An Idempotency-Key that was accepted names what its request created: the
\* answer to a repeated Publish or Rollback is the publication of the batch and
\* generation that was asked for, never one that does not exist.
ReplayFindsItsPublication ==
    \A o \in op :
        o.route \in {"publish", "rollback"} =>
            /\ o.id \in 1..Len(pubs)
            /\ pubs[o.id].batch = o.batch /\ pubs[o.id].source = o.source
            /\ pubs[o.id].actor = o.actor /\ pubs[o.id].generation = o.generation + 1

\* A batch never stays queued, compiling or validating for ever: the reconciler
\* turns its jobs' results into ready, failed or obsolete without any request.
BatchSettles == \A b \in Batch : batch[b].state \in Pending ~> batch[b].state \notin Pending

NotOffered == NoSnapshot
History == INSTANCE PublicationContract WITH
    Content <- Batch, NotOffered <- NotOffered,
    log <- [i \in 1..Len(pubs) |-> pubs[i].batch],
    base <- [b \in Batch |-> IF batch[b].state = "none" THEN NotOffered ELSE batch[b].base]

\* Compile, Publish and Rollback keep the history PublicationContract promises.
ImplementsHistory == History!Spec
=============================================================================
