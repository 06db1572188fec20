--------------------------- MODULE MCPersistedLog ---------------------------
(* Entries of two bytes, and pages that take two of them *)
EXTENDS PersistedLog

MCSize == [e \in Entry |-> 2]

=============================================================================
