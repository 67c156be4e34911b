---------------------------- MODULE MCPublication ----------------------------
(* Small instances of Publication for TLC. *)
EXTENDS Publication, TLC

CONSTANTS n1, n2, t1, t2, c1, c2, f1, f2, off, u1, u2, k1, nokey, b1, b2, tok1, none, nobatch

TwoCores == t1 :> c1 @@ t2 :> c2
OneCore == t1 :> c1
Symmetric == Permutations({b1, b2}) \cup Permutations({u1, u2})
=============================================================================
