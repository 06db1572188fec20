------------------------------ MODULE Storage ------------------------------
(***************************************************************************)
(* A PersistedLog as a whole: its metadata and its pages share a process   *)
(* and a directory.  SetMetadata runs in one thread at a time; calls on    *)
(* the log come between any two of its steps; a crash ends both, and the   *)
(* constructor restores both or, when a metadata file cannot be parsed,    *)
(* nothing.                                                                *)
(*                                                                         *)
(* The log is followed as long as it is intact.  PersistedLog shows what   *)
(* happens after that.                                                     *)
(***************************************************************************)
EXTENDS MetadataStore, PersistedLog

VARIABLE intact   \* history: the log has met none of what it does not survive

storageVars == <<vars, logVars, intact>>

StorageInit == Init /\ LogInit /\ intact = TRUE

\* One handler at a time: a thread enters SetMetadata when no other is in it
SetMetadata ==
  /\ \/ pc = Idle /\ \E t \in Thread, state \in State : Assign(t, state)
     \/ \E t \in Thread : Truncate(t) \/ Write(t)
  /\ UNCHANGED <<logVars, intact>>

AppendToLog ==
  /\ up /\ intact
  /\ \E n \in 1..MaxBatch : AppendEntries(n)
  /\ UNCHANGED <<vars, intact>>

\* A truncation of all that the open page has, or more, leaves the new open page
\* outside m_log_indices
TruncateFromLog ==
  /\ up /\ intact
  /\ \E removalIndex \in 0..log.size :
       /\ TruncateLog(removalIndex)
       /\ intact' = (removalIndex > LastLogIndex(log) \/ removalIndex > log.open.start)
  /\ UNCHANGED vars

Die == Crash /\ UNCHANGED <<logVars, intact>>

\* The only file named open is the open page's: no earlier start created one for
\* a closed page
Unspoiled == \A name \in DOMAIN log.disk : name[1] = "open" => name = log.open.file

\* A file that entries were removed from is cut at the wrong byte
Start == RestoreState /\ Restart /\ intact' = (intact /\ cuts = 0 /\ Unspoiled)

StorageNext == SetMetadata \/ AppendToLog \/ TruncateFromLog \/ Die \/ Start

StorageSpec == StorageInit /\ [][StorageNext]_storageVars

-----------------------------------------------------------------------------
(* Properties *)

\* While the log is intact, its pages cover it without a gap or an overlap, and
\* the open page is the last of them: what the bounds of Entry and Entries rest on
PagesTile ==
  LET indices == LogIndices(log) IN
  intact =>
    /\ LogTypeOK /\ log.indexed /\ 0 \in DOMAIN indices
    /\ \A k \in DOMAIN indices :
         /\ indices[k].start = k
         /\ EndIndex(indices[k]) = IF k = log.open.start THEN log.size
                                   ELSE CHOOSE j \in DOMAIN indices :
                                          j > k /\ \A i \in DOMAIN indices : i > k => i >= j

\* storage.h:85: a slice of an intact log that spans several pages is the
\* sequence of its entries
SlicesAgree ==
  intact => \A end \in 0..log.size : \A start \in 0..end :
              Entries(log, start, end) = SubSeq(Contents(log), start + 1, end)


=============================================================================
