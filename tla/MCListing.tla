----------------------------- MODULE MCListing -----------------------------
(* Instances of Listing for TLC.                                           *)
EXTENDS Listing

CONSTANTS n1, n2, m1, m2

(* Two versions, one of them with two secrets, and a bad version.          *)
SomeCiphers == {[version |-> "v1", secret |-> "s1"],
                [version |-> "v1", secret |-> "s2"],
                [version |-> "v2", secret |-> "s2"],
                [version |-> "a:b", secret |-> "s1"]}

Swaps == Permutations({n1, n2}) \cup Permutations({m1, m2})
=============================================================================
