-------------------------- MODULE MetadataProofs ---------------------------
(***************************************************************************)
(* What the two metadata files guarantee when handlers do not overlap, for *)
(* any number of threads, term and vote pairs, writes and crashes.         *)
(***************************************************************************)
EXTENDS MetadataStore, TLAPS

\* The inductive invariant
MetadataInv == TypeOK /\ SerialInv

\* A version and the next one go to different files
LEMMA PathsAlternate ==
  ASSUME NEW v \in Nat
  PROVE  /\ MetadataPath(v) \in File
         /\ MetadataPath(v + 1) # MetadataPath(v)
BY DEF MetadataPath, File

\* No thread is in SetMetadata, or one is
LEMMA SomeWriter ==
  ASSUME TypeOK, pc # Idle
  PROVE  \E t \in Thread : pc[t] # "idle"
BY DEF TypeOK, Idle

\* A node that was never started satisfies the invariant
LEMMA MetadataInit == Init => MetadataInv
<1> SUFFICES ASSUME Init PROVE MetadataInv
  OBVIOUS
<1> USE DEF Init
<1>1. Unset \in LogMetadata
  BY StateAssumption DEF Unset, LogMetadata
<1>2. metadata.version = 0 /\ stored.version = 0
  BY DEF Unset
<1>3. TypeOK
  BY <1>1, <1>2, VersionAssumption DEF TypeOK, File, Idle
<1>4. OneWriter
  BY DEF OneWriter, Idle
<1>5. FilesNamed
  BY FileAssumption DEF FilesNamed
<1>6. CompleteOnDisk
  BY <1>2 DEF CompleteOnDisk, Complete
<1>7. StoredSurvives /\ RestoredLatest /\ VersionZeroUnset
  BY <1>2 DEF StoredSurvives, RestoredLatest, AtLeastStored, VersionZeroUnset
<1>8. QED
  BY <1>3, <1>4, <1>5, <1>6, <1>7 DEF MetadataInv, SerialInv

\* A thread enters SetMetadata: the version in memory is one ahead of the disk
LEMMA AssignKeeps ==
  ASSUME MetadataInv, pc = Idle, NEW t \in Thread, NEW state \in State, Assign(t, state)
  PROVE  MetadataInv'
<1> DEFINE v == metadata.version
<1>1. /\ up /\ v \in Nat /\ v < MaxVersion
      /\ metadata' = [version |-> v + 1, state |-> state]
      /\ path' = [path EXCEPT ![t] = MetadataPath(v + 1)]
      /\ pc' = [pc EXCEPT ![t] = "open"]
      /\ UNCHANGED <<up, file, stored>>
  BY DEF Assign, MetadataInv, TypeOK, LogMetadata
<1>2. metadata' \in LogMetadata /\ metadata'.version = v + 1 /\ v + 1 \in Nat /\ v + 1 # 0
  BY <1>1 DEF LogMetadata
<1>3. TypeOK'
  BY <1>1, <1>2, VersionAssumption, PathsAlternate DEF MetadataInv, TypeOK
<1>4. pc' # Idle /\ pc'[t] = "open" /\ \A u \in Thread : u # t => pc'[u] = "idle"
  BY <1>1 DEF Idle, MetadataInv, TypeOK
<1>5. OneWriter'
  BY <1>1, <1>2, <1>4 DEF OneWriter, MetadataInv, TypeOK
<1>6. FilesNamed' /\ StoredSurvives'
  BY <1>1 DEF MetadataInv, SerialInv, FilesNamed, StoredSurvives, AtLeastStored
<1>7. Complete = v /\ Complete' = v
  BY <1>1, <1>2, <1>4 DEF Complete
<1>8. CompleteOnDisk'
  BY <1>1, <1>2, <1>4, <1>7 DEF MetadataInv, SerialInv, CompleteOnDisk, AtLeastStored
<1>9. RestoredLatest' /\ VersionZeroUnset'
  <2>1. stored.version <= v /\ stored.version \in Nat
    BY <1>1, <1>7 DEF MetadataInv, SerialInv, CompleteOnDisk, TypeOK, LogMetadata
  <2>2. QED
    BY <1>1, <1>2, <2>1
    DEF MetadataInv, SerialInv, RestoredLatest, AtLeastStored, VersionZeroUnset
<1>10. QED
  BY <1>3, <1>5, <1>6, <1>8, <1>9 DEF MetadataInv, SerialInv

\* Opening the file truncates it, and it is not the one that holds the version
\* before
LEMMA TruncateKeeps ==
  ASSUME MetadataInv, NEW t \in Thread, Truncate(t)
  PROVE  MetadataInv'
<1> DEFINE v == metadata.version
<1>1. /\ pc[t] = "open"
      /\ file' = [file EXCEPT ![path[t]] = Empty]
      /\ pc' = [pc EXCEPT ![t] = "write"]
      /\ UNCHANGED <<up, metadata, path, stored>>
  BY DEF Truncate
<1>2. /\ up /\ v \in Nat /\ v > 0 /\ path[t] = MetadataPath(v)
      /\ \A u \in Thread : pc[u] # "idle" => u = t
  BY <1>1 DEF MetadataInv, SerialInv, OneWriter, TypeOK, LogMetadata
<1>3. TypeOK'
  BY <1>1, <1>2 DEF MetadataInv, TypeOK
<1>4. pc # Idle /\ pc' # Idle /\ Complete = v - 1 /\ Complete' = v - 1
  BY <1>1, <1>2 DEF Idle, Complete, MetadataInv, TypeOK
<1>5. OneWriter'
  BY <1>1, <1>2 DEF OneWriter, MetadataInv, TypeOK
<1>6. FilesNamed'
  BY <1>1, FileAssumption DEF MetadataInv, SerialInv, FilesNamed, TypeOK
<1>7. v - 1 \in Nat /\ MetadataPath(v - 1) \in File /\ MetadataPath(v - 1) # path[t]
  BY <1>2, PathsAlternate
<1>8. file'[MetadataPath(v - 1)] = file[MetadataPath(v - 1)]
  BY <1>1, <1>7 DEF MetadataInv, TypeOK
<1>9. CompleteOnDisk'
  BY <1>1, <1>4, <1>8 DEF MetadataInv, SerialInv, CompleteOnDisk, AtLeastStored
<1>10. StoredSurvives'
  <2>1. stored.version \in Nat /\ stored.version <= v - 1
    BY <1>2, <1>4 DEF MetadataInv, SerialInv, CompleteOnDisk, TypeOK, LogMetadata
  <2>2. QED
    BY <1>1, <1>2, <1>4, <1>7, <1>8, <2>1
    DEF MetadataInv, SerialInv, CompleteOnDisk, StoredSurvives, AtLeastStored
<1>11. RestoredLatest' /\ VersionZeroUnset'
  BY <1>1 DEF MetadataInv, SerialInv, RestoredLatest, AtLeastStored, VersionZeroUnset
<1>12. QED
  BY <1>3, <1>5, <1>6, <1>9, <1>10, <1>11 DEF MetadataInv, SerialInv

\* The write completes the version
LEMMA WriteKeeps ==
  ASSUME MetadataInv, NEW t \in Thread, Write(t)
  PROVE  MetadataInv'
<1> DEFINE v == metadata.version
<1>1. /\ pc[t] = "write"
      /\ file' = [file EXCEPT ![path[t]] = metadata]
      /\ pc' = [pc EXCEPT ![t] = "idle"]
      /\ stored' = metadata
      /\ UNCHANGED <<up, metadata, path>>
  BY DEF Write
<1>2. /\ up /\ v \in Nat /\ v > 0 /\ path[t] = MetadataPath(v) /\ path[t] \in File
      /\ metadata \in LogMetadata
      /\ \A u \in Thread : pc[u] # "idle" => u = t
  BY <1>1 DEF MetadataInv, SerialInv, OneWriter, TypeOK, LogMetadata
<1>3. TypeOK'
  BY <1>1, <1>2 DEF MetadataInv, TypeOK
<1>4. pc' = Idle /\ Complete' = v
  <2>1. pc' = Idle
    BY <1>1, <1>2 DEF Idle, MetadataInv, TypeOK
  <2>2. QED
    BY <1>1, <2>1 DEF Complete
<1>5. OneWriter'
  BY <1>4 DEF OneWriter, Idle
<1>6. FilesNamed'
  BY <1>1, <1>2 DEF MetadataInv, SerialInv, FilesNamed, TypeOK
<1>7. file'[path[t]] = metadata
  BY <1>1, <1>2 DEF MetadataInv, TypeOK
<1>8. CompleteOnDisk'
  BY <1>1, <1>2, <1>4, <1>7 DEF CompleteOnDisk, AtLeastStored
<1>9. StoredSurvives' /\ RestoredLatest' /\ VersionZeroUnset'
  BY <1>1, <1>2, <1>7 DEF StoredSurvives, RestoredLatest, AtLeastStored, VersionZeroUnset
<1>10. QED
  BY <1>3, <1>5, <1>6, <1>8, <1>9 DEF MetadataInv, SerialInv

\* A crash leaves the files as they are
LEMMA CrashKeeps ==
  ASSUME MetadataInv, Crash
  PROVE  MetadataInv'
<1>1. /\ up' = FALSE /\ metadata' = Unset /\ pc' = Idle
      /\ UNCHANGED <<file, path, stored>>
  BY DEF Crash
<1>2. Unset \in LogMetadata /\ Unset.version = 0
  BY StateAssumption DEF Unset, LogMetadata
<1>3. TypeOK'
  <2>1. up' \in BOOLEAN
    BY <1>1
  <2>2. Idle \in [Thread -> {"idle", "open", "write"}]
    BY DEF Idle
  <2>3. 0 <= MaxVersion
    BY VersionAssumption
  <2>4. QED
    BY <1>1, <1>2, <2>1, <2>2, <2>3 DEF MetadataInv, TypeOK
<1>4. OneWriter' /\ FilesNamed' /\ StoredSurvives'
  BY <1>1
  DEF MetadataInv, SerialInv, OneWriter, Idle, FilesNamed, StoredSurvives, AtLeastStored
<1>5. CompleteOnDisk' /\ RestoredLatest' /\ VersionZeroUnset'
  BY <1>1, <1>2
  DEF MetadataInv, SerialInv, CompleteOnDisk, RestoredLatest, VersionZeroUnset
<1>6. QED
  BY <1>3, <1>4, <1>5 DEF MetadataInv, SerialInv

\* A restart finds the last complete version: the higher of the two files
LEMMA RestoreKeeps ==
  ASSUME MetadataInv, RestoreState
  PROVE  MetadataInv'
<1> DEFINE a == file["metadata1"]
           b == file["metadata2"]
           m == LoadMetadata(Unset, "metadata1")
           r == LoadMetadata(m, "metadata2")
<1>1. /\ ~up /\ up' = TRUE /\ metadata' = r
      /\ UNCHANGED <<file, pc, path, stored>>
      /\ a \in LogMetadata \cup {Missing} /\ b \in LogMetadata \cup {Missing}
  BY DEF RestoreState, MetadataInv, TypeOK, File
<1>2. /\ Unset \in LogMetadata /\ Unset.version = 0
      /\ \A x \in LogMetadata : x.version \in Nat
      /\ stored \in LogMetadata
  BY StateAssumption DEF Unset, LogMetadata, MetadataInv, TypeOK
<1>3. /\ a \in LogMetadata => a.version \in 1..MaxVersion /\ MetadataPath(a.version) = "metadata1"
      /\ b \in LogMetadata => b.version \in 1..MaxVersion /\ MetadataPath(b.version) = "metadata2"
  BY DEF MetadataInv, SerialInv, FilesNamed, File
<1>4. m \in LogMetadata /\ IF a \in LogMetadata THEN m = a ELSE m = Unset
  BY <1>1, <1>2, <1>3, FileAssumption DEF LoadMetadata
<1> HIDE DEF m
<1>5. /\ r \in LogMetadata
      /\ \/ r = Unset /\ a = Missing /\ b = Missing
         \/ r = a /\ a \in LogMetadata
         \/ r = b /\ b \in LogMetadata
      /\ a \in LogMetadata => a.version <= r.version
      /\ b \in LogMetadata => b.version <= r.version
  BY <1>1, <1>2, <1>3, <1>4, FileAssumption DEF LoadMetadata
<1> HIDE DEF r
<1>6. r.version \in Nat /\ r.version <= MaxVersion
  BY <1>2, <1>3, <1>5, VersionAssumption
<1>7. TypeOK'
  BY <1>1, <1>5, <1>6 DEF MetadataInv, TypeOK
<1>8. r # Unset => r.version > 0 /\ file[MetadataPath(r.version)] = r
  BY <1>3, <1>5
<1>9. AtLeastStored(r) /\ stored.version <= r.version
  <2>1. CASE stored.version > 0
    <3>1. PICK f \in File : file[f] \in LogMetadata /\ AtLeastStored(file[f])
      BY <2>1 DEF MetadataInv, SerialInv, StoredSurvives
    <3>2. file[f].version <= r.version /\ MetadataPath(file[f].version) = f
      BY <1>3, <1>5, <3>1 DEF File
    <3>3. r # Unset
      BY <1>2, <1>3, <1>5, <3>1 DEF File
    <3>4. file[f].version = r.version => file[f] = r
      BY <1>8, <3>2, <3>3
    <3>5. QED
      BY <1>2, <1>6, <2>1, <3>1, <3>2, <3>4 DEF AtLeastStored
  <2>2. CASE stored.version = 0
    BY <1>2, <1>6, <1>8, <2>2
    DEF AtLeastStored, MetadataInv, SerialInv, VersionZeroUnset
  <2>3. QED
    BY <1>2, <2>1, <2>2
<1>10. pc = Idle /\ pc' = Idle /\ Complete' = r.version
  <2>1. pc = Idle
    BY <1>1, SomeWriter DEF MetadataInv, SerialInv, OneWriter
  <2>2. QED
    BY <1>1, <2>1 DEF Complete
<1>11. OneWriter' /\ FilesNamed' /\ StoredSurvives' /\ VersionZeroUnset'
  <2>1. OneWriter'
    BY <1>10 DEF OneWriter, Idle
  <2>2. FilesNamed' /\ StoredSurvives'
    BY <1>1
    DEF MetadataInv, SerialInv, FilesNamed, StoredSurvives, AtLeastStored
  <2>3. VersionZeroUnset'
    BY <1>1, <1>8, <1>6 DEF MetadataInv, SerialInv, VersionZeroUnset
  <2>4. QED
    BY <2>1, <2>2, <2>3
<1>12. CompleteOnDisk' /\ RestoredLatest'
  <2>1. r.version # 0 => r # Unset
    BY <1>2
  <2>2. QED
    BY <1>1, <1>5, <1>8, <1>9, <1>10, <2>1 DEF CompleteOnDisk, RestoredLatest, AtLeastStored
<1>13. QED
  BY <1>7, <1>11, <1>12 DEF MetadataInv, SerialInv

\* Every step of SerialSpec preserves the invariant
LEMMA MetadataStep == MetadataInv /\ [SerialNext]_vars => MetadataInv'
<1> SUFFICES ASSUME MetadataInv, [SerialNext]_vars PROVE MetadataInv'
  OBVIOUS
<1>1. CASE UNCHANGED vars
  BY <1>1
  DEF vars, MetadataInv, TypeOK, SerialInv, OneWriter, FilesNamed, CompleteOnDisk, Complete,
      VersionZeroUnset, StoredSurvives, RestoredLatest, AtLeastStored
<1>2. CASE SerialNext
  BY <1>2, AssignKeeps, TruncateKeeps, WriteKeeps, CrashKeeps, RestoreKeeps DEF SerialNext
<1>3. QED
  BY <1>1, <1>2

\* When handlers do not overlap, SetMetadata writes versions of one parity to one
\* file, so that the last complete version stays in the other one
THEOREM WritesAlternate == SerialSpec => [](TypeOK /\ SerialInv)
<1>1. MetadataInv => TypeOK /\ SerialInv
  BY DEF MetadataInv
<1>2. QED
  BY <1>1, MetadataInit, MetadataStep, PTL DEF SerialSpec

\* When handlers do not overlap, a SetMetadata never destroys what the one
\* before it stored, wherever the process dies: the promise of the two files
THEOREM StoredMetadataSurvives == SerialSpec => []StoredSurvives
<1>1. MetadataInv => StoredSurvives
  BY DEF MetadataInv, SerialInv
<1>2. QED
  BY <1>1, MetadataInit, MetadataStep, PTL DEF SerialSpec

\* When handlers do not overlap, a process that restarts never works with an
\* older term or vote than the last one it stored
THEOREM RestartFindsLatest == SerialSpec => []RestoredLatest
<1>1. MetadataInv => RestoredLatest
  BY DEF MetadataInv, SerialInv
<1>2. QED
  BY <1>1, MetadataInit, MetadataStep, PTL DEF SerialSpec

=============================================================================
