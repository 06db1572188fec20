------------------------------ MODULE MCStorage ------------------------------
(* Pages take two entries of before the first truncation, or one of a later term *)
EXTENDS Storage

Threads == Permutations(Thread)

MCSize == [e \in Entry |-> IF e.term = 0 THEN 2 ELSE 3]

=============================================================================
