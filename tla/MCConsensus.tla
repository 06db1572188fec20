---------------------------- MODULE MCConsensus ----------------------------
(* Instances of Consensus for TLC *)
EXTENDS Consensus, TLC

Followers == Permutations(Server \ {Bootstrap})

=============================================================================
