----------------------------- MODULE DurableLog -----------------------------
(***************************************************************************)
(* What storage.h promises of a Log: a sequence of entries that Append     *)
(* extends, TruncateSuffix cuts, and a restart leaves as it is.            *)
(***************************************************************************)
EXTENDS Naturals, Sequences

CONSTANTS
  Entry,      \* log entries
  MaxBatch    \* bound: entries of one Append

VARIABLES
  contents,   \* the entries of the log
  cuts,       \* number of truncations so far
  restarts    \* number of restarts so far

Init == contents = <<>> /\ cuts = 0 /\ restarts = 0

AppendBatch ==
  /\ contents' \in Seq(Entry)
  /\ Len(contents') \in Len(contents) + 1 .. Len(contents) + MaxBatch
  /\ SubSeq(contents', 1, Len(contents)) = contents
  /\ UNCHANGED <<cuts, restarts>>

\* removal_index counts from 0; past the end of the log nothing happens
TruncateSuffix(removalIndex) ==
  /\ contents' = SubSeq(contents, 1, removalIndex)
  /\ cuts' = cuts + 1
  /\ UNCHANGED restarts

Restart == restarts' = restarts + 1 /\ UNCHANGED <<contents, cuts>>

Next ==
  \/ AppendBatch
  \/ \E removalIndex \in 0..Len(contents) - 1 : TruncateSuffix(removalIndex)
  \/ Restart

Spec == Init /\ [][Next]_<<contents, cuts, restarts>>

=============================================================================
