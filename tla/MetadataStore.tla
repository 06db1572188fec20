--------------------------- MODULE MetadataStore ---------------------------
(***************************************************************************)
(* How PersistedLog keeps the term and the vote of a node on disk: each    *)
(* SetMetadata gives the pair the next version number and writes it to the *)
(* one of two files that does not hold the version before.  A restart      *)
(* reads both files and keeps the higher version.                          *)
(*                                                                         *)
(* SetMetadata takes no lock.  StoreState calls it on the server thread,   *)
(* on the client thread and on the strand of the timers, so its three      *)
(* steps (assign m_metadata, truncate the file by opening it, write it)    *)
(* are three actions of a thread.                                          *)
(***************************************************************************)
EXTENDS Naturals

CONSTANTS
  Thread,       \* threads that call StoreState
  State,        \* the pairs of a term and a vote
  Fresh,        \* the pair of a node that was never started: term 0, no vote
  Missing,      \* a metadata file that does not exist
  Empty,        \* a metadata file that was truncated and not written yet
  MaxVersion    \* bound: the highest version written

ASSUME StateAssumption == Fresh \in State

ASSUME VersionAssumption == MaxVersion \in Nat

VARIABLES
  up,         \* the process runs
  metadata,   \* m_metadata
  file,       \* what is in the files metadata1 and metadata2
  pc,         \* pc[t]: where thread t is in SetMetadata
  path,       \* path[t]: the file thread t writes, its local metadata_path
  stored      \* history: the metadata of the last SetMetadata that returned

vars == <<up, metadata, file, pc, path, stored>>

-----------------------------------------------------------------------------
LogMetadata == [version : Nat, state : State]

File == {"metadata1", "metadata2"}

ASSUME FileAssumption == Missing \notin LogMetadata /\ Empty \notin LogMetadata /\ Missing # Empty

Unset == [version |-> 0, state |-> Fresh]

\* Mutation: every version goes to the same file
MetadataPathSame(version) == "metadata2"

MetadataPath(version) == IF version % 2 = 0 THEN "metadata1" ELSE "metadata2"

Idle == [t \in Thread |-> "idle"]

Init ==
  /\ up = TRUE
  /\ metadata = Unset /\ stored = Unset
  /\ file = [f \in File |-> Missing]
  /\ pc = Idle
  /\ path = [t \in Thread |-> "metadata1"]

-----------------------------------------------------------------------------
(* SetMetadata and PersistMetadata *)

Assign(t, state) ==
  /\ up /\ pc[t] = "idle" /\ metadata.version < MaxVersion
  /\ metadata' = [version |-> metadata.version + 1, state |-> state]
  /\ path' = [path EXCEPT ![t] = MetadataPath(metadata.version + 1)]
  /\ pc' = [pc EXCEPT ![t] = "open"]
  /\ UNCHANGED <<up, file, stored>>

Truncate(t) ==
  /\ pc[t] = "open"
  /\ file' = [file EXCEPT ![path[t]] = Empty]
  /\ pc' = [pc EXCEPT ![t] = "write"]
  /\ UNCHANGED <<up, metadata, path, stored>>

\* What is serialised is m_metadata as it is now
Write(t) ==
  /\ pc[t] = "write"
  /\ file' = [file EXCEPT ![path[t]] = metadata]
  /\ pc' = [pc EXCEPT ![t] = "idle"]
  /\ stored' = metadata
  /\ UNCHANGED <<up, metadata, path>>

-----------------------------------------------------------------------------
(* The process *)

Crash ==
  /\ up
  /\ up' = FALSE
  /\ metadata' = Unset
  /\ pc' = Idle
  /\ UNCHANGED <<file, path, stored>>

\* Mutation: the file that is read last wins, whatever its version
LoadMetadataLast(current, f) == IF file[f] = Missing THEN current ELSE file[f]

LoadMetadata(current, f) ==
  IF file[f] = Missing \/ file[f].version < current.version THEN current ELSE file[f]

\* The files are read in the order of their names.  A file that cannot be
\* parsed throws out of the constructor, and nothing starts.
RestoreState ==
  /\ ~up
  /\ \A f \in File : file[f] # Empty
  /\ up' = TRUE
  /\ metadata' = LoadMetadata(LoadMetadata(Unset, "metadata1"), "metadata2")
  /\ UNCHANGED <<file, pc, path, stored>>

Next ==
  \/ \E t \in Thread : (\E state \in State : Assign(t, state)) \/ Truncate(t) \/ Write(t)
  \/ Crash \/ RestoreState

Spec == Init /\ [][Next]_vars

\* One handler at a time: a thread enters SetMetadata when no other is in it
SerialNext ==
  \/ pc = Idle /\ \E t \in Thread, state \in State : Assign(t, state)
  \/ \E t \in Thread : Truncate(t) \/ Write(t)
  \/ Crash \/ RestoreState

SerialSpec == Init /\ [][SerialNext]_vars

-----------------------------------------------------------------------------
(* Properties *)

\* Types, and the range of the versions
TypeOK ==
  /\ up \in BOOLEAN
  /\ metadata \in LogMetadata /\ stored \in LogMetadata
  /\ metadata.version <= MaxVersion
  /\ file \in [File -> LogMetadata \cup {Missing, Empty}]
  /\ pc \in [Thread -> {"idle", "open", "write"}]
  /\ path \in [Thread -> File]

\* m is the metadata that was stored last, or came after it
AtLeastStored(m) == m = stored \/ m.version > stored.version

\* At every moment one of the files holds what the last SetMetadata stored, or
\* something later: writing a version never destroys the one before
StoredSurvives ==
  stored.version > 0 => \E f \in File : file[f] \in LogMetadata /\ AtLeastStored(file[f])

\* A process that restarted works with the term and the vote it had stored last,
\* or with the later ones it was storing when it died
RestoredLatest == up => AtLeastStored(metadata)

\* storage.h:119: a node can always start again from the metadata on its disk
Restorable == ~up => \A f \in File : file[f] # Empty

-----------------------------------------------------------------------------
(* Why SerialSpec keeps them *)

\* The version that was complete when the running SetMetadata began
Complete == IF pc = Idle THEN metadata.version ELSE metadata.version - 1

\* Only one thread is in SetMetadata, for the file of the version it assigned
OneWriter ==
  \A t \in Thread : pc[t] # "idle" =>
    /\ up /\ metadata.version > 0
    /\ path[t] = MetadataPath(metadata.version)
    /\ \A u \in Thread : pc[u] # "idle" => u = t

\* A file holds versions of its own parity
FilesNamed ==
  \A f \in File : file[f] \in LogMetadata =>
    file[f].version \in 1..MaxVersion /\ f = MetadataPath(file[f].version)

\* While the process runs, the file of the last complete version holds it and
\* no file is ahead of the memory
CompleteOnDisk ==
  up =>
    /\ stored.version <= Complete
    /\ Complete = 0 \/ LET m == file[MetadataPath(Complete)] IN
                       /\ m \in LogMetadata /\ m.version = Complete /\ AtLeastStored(m)
                       /\ pc = Idle => m = metadata

\* Nothing has version 0 but what a node starts with
VersionZeroUnset == \A m \in {metadata, stored} : m.version = 0 => m = Unset

SerialInv ==
  /\ OneWriter /\ FilesNamed /\ CompleteOnDisk /\ VersionZeroUnset
  /\ StoredSurvives /\ RestoredLatest

=============================================================================
