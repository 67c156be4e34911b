----------------------------- MODULE JobContract -----------------------------
(***************************************************************************)
(* What the queue promises to the components that put jobs into it,         *)
(* whatever workers, leases, clocks and budgets do: a job is worked on by    *)
(* one attempt at a time, by a bounded number of them, ends once, and ends   *)
(* canceled if its cancellation was requested before it ended.  The jobs    *)
(* are independent of each other; one step may move several of them (a      *)
(* batch is inserted or canceled as a whole).                               *)
(***************************************************************************)
EXTENDS Naturals

CONSTANTS Job,
          Outcome,   \* how a job may end
          Canceled,  \* the outcome of a canceled job
          Limit      \* [Job -> Nat]: attempts a job is given

VARIABLES phase,     \* [Job -> {"absent", "waiting", "working"} \cup Outcome]
          tries, cancelled

contractVars == <<phase, tries, cancelled>>

Init == /\ phase = [j \in Job |-> "absent"]
        /\ tries = [j \in Job |-> 0]
        /\ cancelled = [j \in Job |-> FALSE]

\* The ways one job may move: p, t and c are its next phase, tries and flag.
Moves(j, p, t, c) ==
    \/ /\ phase[j] = "absent" /\ p = "waiting"
       /\ t = 0 /\ ~c
    \/ /\ phase[j] = "waiting" /\ p = "working"
       /\ tries[j] < Limit[j] /\ t = tries[j] + 1
       /\ ~cancelled[j] /\ ~c
    \/ /\ phase[j] = "waiting" /\ p = Canceled
       /\ t = tries[j] /\ c
    \/ /\ phase[j] = "working" /\ p = "working"
       /\ t = tries[j] /\ c
    \/ /\ phase[j] = "working" /\ p = "waiting"
       /\ tries[j] < Limit[j] /\ t = tries[j]
       /\ ~cancelled[j] /\ ~c
    \/ /\ phase[j] = "working" /\ p \in Outcome
       /\ t = tries[j] /\ c = cancelled[j]
       /\ c => p = Canceled

Next ==
    \A j \in Job :
        \/ Moves(j, phase'[j], tries'[j], cancelled'[j])
        \/ <<phase'[j], tries'[j], cancelled'[j]>> = <<phase[j], tries[j], cancelled[j]>>

Spec == Init /\ [][Next]_contractVars
=============================================================================
