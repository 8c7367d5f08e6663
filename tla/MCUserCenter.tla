---------------------------- MODULE MCUserCenter ----------------------------
(***************************************************************************)
(* Small instances of UserCenter for TLC.                                  *)
(***************************************************************************)
EXTENDS UserCenter, TLC

CONSTANTS ann, bob

MCSymmetry == Permutations(Accounts)

\* The queue keeps up: a step starts with at most three writes outstanding
\* (those of one sign-out), with two requests in flight only while at most
\* two are, and with two tasks on the main queue only while one account has
\* signed in.
MCFewWrites ==
    /\ Cardinality({b \in Blocks : pending[b] > 0}) <= 3
    /\ Cardinality(net) = 2 => Cardinality({b \in Blocks : pending[b] > 0}) <= 2
    /\ Len(tasks) = 2 => Cardinality(keychain) <= 1
=============================================================================
