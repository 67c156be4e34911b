------------------------- MODULE PublicationContract -------------------------
(***************************************************************************)
(* What a subscription's publication history promises: it is append-only,   *)
(* and a new entry either is a content that was offered against exactly the  *)
(* entry it replaces, or repeats an earlier entry (a rollback).  Contents    *)
(* offered against an older entry can never be published, so two             *)
(* administrators never overwrite each other's publication unseen.           *)
(***************************************************************************)
EXTENDS Naturals, Sequences

CONSTANTS Content, NotOffered

VARIABLES log,    \* Seq(Content): the publications, the last one is served
          base    \* [Content -> Nat \cup {NotOffered}]: the entry it was offered against

historyVars == <<log, base>>

Init == log = <<>> /\ base = [c \in Content |-> NotOffered]

\* A content is offered once, against the current or an older entry.
Offer(c, n) ==
    /\ base[c] = NotOffered
    /\ n \in 0..Len(log)
    /\ base' = [base EXCEPT ![c] = n]
    /\ UNCHANGED log

Replace(c) ==
    /\ base[c] = Len(log)
    /\ log' = Append(log, c)
    /\ UNCHANGED base

Repeat(i) ==
    /\ i \in 1..Len(log)
    /\ log' = Append(log, log[i])
    /\ UNCHANGED base

Next == \/ \E c \in Content : (\E n \in 0..Len(log) : Offer(c, n)) \/ Replace(c)
        \/ \E i \in 1..Len(log) : Repeat(i)

Spec == Init /\ [][Next]_historyVars
=============================================================================
