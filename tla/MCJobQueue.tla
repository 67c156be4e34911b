----------------------------- MODULE MCJobQueue -----------------------------
(* Small instances of JobQueue for TLC. *)
EXTENDS JobQueue

CONSTANTS a1, a2, r1, r2, none

\* queue_budget: a batch of two connectivity tests of one unit each; the
\* budget admits the batch but not always a retry.
BudgetType == <<"connectivity", "connectivity">>
BudgetBatches == {{1, 2}}
BudgetQuotas == {[daily |-> 3, maxTest |-> 2, connectivity |-> 1, throughput |-> 1]}

\* queue_modes: a configuration check and a download compete for Runners, and
\* the settings change under way.
ModesType == <<"config_validate", "download_throughput">>
ModesQuotas == {[daily |-> 3, maxTest |-> 2, connectivity |-> 1, throughput |-> 1],
                [daily |-> 3, maxTest |-> 1, connectivity |-> 1, throughput |-> 2]}

\* queue_results: two API workers, jobs with business callbacks.
ResultsType == <<"source_refresh", "compile">>

\* queue_ends: one network test and one API job.
EndsType == <<"connectivity", "import_parse">>

Sizes == <<1, 2>>
EqualSizes == <<1, 1>>
TwoSlots == [r \in Runners |-> [connectivity |-> 2, throughput |-> 1]]
=============================================================================
