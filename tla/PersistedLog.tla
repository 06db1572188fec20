---------------------------- MODULE PersistedLog ----------------------------
(***************************************************************************)
(* The pages of PersistedLog: the log entries in memory, split into pages  *)
(* that m_log_indices finds by their first index, and the files the pages  *)
(* are written to.  A call runs to its end; a restart happens between two  *)
(* calls, and forgets everything but the files.  The entry of an index is  *)
(* told from the one that was there before it was removed.                 *)
(*                                                                         *)
(* Sizes are those of the code: an entry takes Size[e] bytes of its page's *)
(* byte_offset, but one byte more, the length in front of it, in the file. *)
(***************************************************************************)
EXTENDS Integers, SequencesExt

CONSTANTS
  Size,           \* Size[e]: ByteSizeLong() of entry e
  Blank,          \* the entry without fields, which a zero byte is read as
  Unreadable,     \* what Entry() returns from beyond the end of a vector
  MaxFileSize,    \* m_max_file_size
  MaxBatch,       \* bound: entries of one Append
  MaxLogSize,     \* bound: entries of the log
  MaxCuts,        \* bound: truncations
  MaxRestarts     \* bound: restarts

\* The term of an entry is the number of truncations before it: it takes a
\* leader of a later term to have entries removed
Entry == [index : 0..MaxLogSize - 1, term : 0..MaxCuts]

ASSUME SizeAssumption == Size \in [Entry -> Nat \ {0}] /\ Blank \notin Entry

\* File names sort by their decimal numbers, which up to 9 is numeric order
ASSUME BoundAssumption ==
  MaxLogSize \in 0..9 /\ MaxBatch \in Nat /\ MaxFileSize \in Nat /\ MaxCuts \in Nat /\ MaxRestarts \in Nat

VARIABLES
  log,        \* the PersistedLog object, with the directory it works on
  cuts,       \* number of truncations that removed entries so far
  restarts    \* number of restarts so far

logVars == <<log, cuts, restarts>>

-----------------------------------------------------------------------------
(* Files: the entries of the file, and the bytes of an entry that was cut *)

OpenFile(start) == <<"open", start>>

ClosedFilename(start, end) == <<"closed", start, end>>

EmptyFile == [entries |-> <<>>, torn |-> 0]

\* The bytes entry e takes in a file, with its length in front
Delimited(e) == IF e = Blank THEN 1 ELSE Size[e] + 1

\* Where entry k of a file starts, counting from 0
Offset(entries, k) == FoldLeft(LAMBDA sum, e : sum + Delimited(e), 0, SubSeq(entries, 1, k))

\* resize_file: entries that end after the new size are cut, and new bytes are
\* zero
Resize(file, bytes) ==
  LET size == Offset(file.entries, Len(file.entries)) + file.torn
      whole == CHOOSE k \in 0..Len(file.entries) :
                 /\ Offset(file.entries, k) <= bytes
                 /\ k < Len(file.entries) => Offset(file.entries, k + 1) > bytes
  IN IF bytes >= size
       THEN [file EXCEPT !.entries = @ \o [i \in 1..bytes - size |-> Blank]]
       ELSE [entries |-> SubSeq(file.entries, 1, whole),
             torn |-> bytes - Offset(file.entries, whole)]

Without(f, keys) == [k \in DOMAIN f \ keys |-> f[k]]

\* Opening a file to append to it creates it
Touch(disk, name) == IF name \in DOMAIN disk THEN disk ELSE disk @@ (name :> EmptyFile)

Rename(disk, old, new) == (new :> disk[old]) @@ Without(disk, {old, new})

-----------------------------------------------------------------------------
(* Pages.  m_log_indices maps the first index of a page to the page.  The  *)
(* open page is kept apart: it may not be in the map.                      *)

NewPage(start, isOpen) ==
  [start |-> start, isOpen |-> isOpen, file |-> OpenFile(start), records |-> <<>>,
   byteOffset |-> 0]

EndIndex(page) == page.start + Len(page.records)

LogIndices(l) == IF l.indexed THEN l.pages @@ (l.open.start :> l.open) ELSE l.pages

LastLogIndex(l) == l.size - 1

\* Page::Close of the open page
Close(l) ==
  LET page == l.open
      name == ClosedFilename(page.start, EndIndex(page))
  IN IF page.records = <<>>
       THEN [l EXCEPT !.open.isOpen = FALSE, !.disk = Without(@, {page.file})]
       ELSE [l EXCEPT !.open.isOpen = FALSE, !.open.file = name,
                      !.disk = Rename(@, page.file, name)]

\* Mutation: the new page starts where the last one started
CreateOpenFileEarly(l) ==
  LET closed == Close(l)
      page == NewPage(l.open.start, TRUE)
  IN [closed EXCEPT !.pages = LogIndices(closed), !.open = page, !.indexed = FALSE,
                    !.disk = Touch(@, page.file)]

\* insert() leaves a page that is already under the index where it is
CreateOpenFile(l) ==
  LET closed == Close(l)
      page == NewPage(l.size, TRUE)
  IN [closed EXCEPT !.pages = LogIndices(closed), !.open = page,
                    !.indexed = page.start \notin DOMAIN LogIndices(closed),
                    !.disk = Touch(@, page.file)]

\* The comparison is one of unsigned numbers: a negative remaining space is large
NoSpace(page, e) ==
  page.byteOffset <= MaxFileSize /\ Size[e] > MaxFileSize - page.byteOffset

WriteLogEntry(l, e) ==
  [l EXCEPT !.open.records = Append(@, [entry |-> e, offset |-> l.open.byteOffset]),
            !.open.byteOffset = @ + Size[e],
            !.disk[l.open.file].entries = Append(@, e),
            !.size = @ + 1]

\* A page takes entries while it has space, then a new page is opened
PersistLogEntries(l, batch) ==
  FoldLeft(LAMBDA m, e : WriteLogEntry(IF NoSpace(m.open, e) THEN CreateOpenFile(m) ELSE m, e),
           [l EXCEPT !.disk = Touch(@, l.open.file)], batch)

-----------------------------------------------------------------------------
(* TruncateSuffix *)

KeptRecords(page, removalIndex) == SubSeq(page.records, 1, removalIndex - page.start)

TruncateOffset(page, removalIndex) == page.records[removalIndex - page.start + 1].offset

\* Page::TruncateSuffix: the page, and the directory, after it
TruncatedPage(page, removalIndex) ==
  [page EXCEPT !.records = KeptRecords(page, removalIndex),
               !.byteOffset = TruncateOffset(page, removalIndex),
               !.file = IF page.isOpen THEN @ ELSE ClosedFilename(page.start, removalIndex)]

TruncatedDisk(disk, page, removalIndex) ==
  LET resized == [disk EXCEPT ![page.file] = Resize(@, TruncateOffset(page, removalIndex))]
  IN IF page.isOpen THEN resized
     ELSE Rename(resized, page.file, ClosedFilename(page.start, removalIndex))

\* Removal of only a portion of the open file
TruncateOpenPage(l, removalIndex) ==
  CreateOpenFile([l EXCEPT !.open = TruncatedPage(@, removalIndex),
                           !.size = @ - (EndIndex(l.open) - removalIndex),
                           !.disk = TruncatedDisk(@, l.open, removalIndex)])

\* The open page is emptied and replaced, and the pages from removalIndex on are
\* removed, the new open page among them
RemovePages(l, removalIndex) ==
  LET emptied == [l EXCEPT !.pages = Without(@, {l.open.start}), !.indexed = FALSE,
                           !.size = @ - Len(l.open.records),
                           !.open.records = <<>>, !.open.byteOffset = 0]
      replaced == CreateOpenFile(emptied)
      indices == LogIndices(replaced)
      removed == {k \in DOMAIN indices : k >= removalIndex}
      entries == MapThenSumSet(LAMBDA k : Len(indices[k].records), removed)
  IN [replaced EXCEPT !.pages = Without(@, removed),
                      !.indexed = @ /\ replaced.open.start \notin removed,
                      !.size = @ - entries,
                      !.disk = Without(@, {indices[k].file : k \in removed})]

\* The last page that is left may hold entries from removalIndex on
TruncateLastPage(l, removalIndex) ==
  LET last == CHOOSE k \in DOMAIN LogIndices(l) : \A j \in DOMAIN LogIndices(l) : k >= j
      page == l.pages[last]
  IN IF DOMAIN LogIndices(l) = {} THEN l
     ELSE IF last \notin DOMAIN l.pages \/ EndIndex(page) <= removalIndex THEN l
     ELSE [l EXCEPT !.pages[last] = TruncatedPage(@, removalIndex),
                    !.size = @ - (EndIndex(page) - removalIndex),
                    !.disk = TruncatedDisk(@, page, removalIndex)]

TruncateSuffix(l, removalIndex) ==
  IF removalIndex > LastLogIndex(l) THEN l
  ELSE IF removalIndex > l.open.start THEN TruncateOpenPage(l, removalIndex)
  ELSE TruncateLastPage(RemovePages(l, removalIndex), removalIndex)

-----------------------------------------------------------------------------
(* RestoreState and the constructor *)

NoPage == NewPage(-1, FALSE)

\* std::sort of the file names: closed files have digits first and padded numbers
Before(f, g) ==
  \/ f[1] = "closed" /\ g[1] = "open"
  \/ f[1] = g[1] /\ f[2] < g[2]
  \/ f[1] = "closed" /\ g[1] = "closed" /\ f[2] = g[2] /\ f[3] < g[3]

Sorted(names) ==
  [i \in 1..Cardinality(names) |->
     CHOOSE f \in names : Cardinality({g \in names : Before(g, f)}) = i - 1]

\* LoadLogEntries stops at an entry that is cut
LoadLogEntries(file) ==
  [i \in DOMAIN file.entries |-> [entry |-> file.entries[i], offset |-> Offset(file.entries, i - 1)]]

\* An open page starts at the size restored so far, a closed one where its name
\* says.  The constructor of either page opens the file named open-start.
RestoreFile(l, name) ==
  LET isOpen == name[1] = "open"
      start == IF isOpen THEN l.size ELSE name[2]
      page == [NewPage(start, isOpen) EXCEPT !.records = LoadLogEntries(l.disk[name])]
      known == start \in DOMAIN LogIndices(l)
      restored == [l EXCEPT !.size = @ + Len(page.records), !.disk = Touch(@, page.file)]
  IN IF isOpen THEN [restored EXCEPT !.pages = LogIndices(l), !.open = page, !.indexed = ~known]
     ELSE IF known THEN restored
     ELSE [restored EXCEPT !.pages = @ @@ (start :> page)]


\* The log a process that starts in directory disk works with
RestoreLog(disk) ==
  LET restored == FoldLeft(RestoreFile,
                           [pages |-> <<>>, open |-> NoPage, indexed |-> FALSE, size |-> 0, disk |-> disk],
                           Sorted(DOMAIN disk))
  IN IF restored.open # NoPage THEN restored
     ELSE [restored EXCEPT !.open = NewPage(0, TRUE), !.indexed = 0 \notin DOMAIN restored.pages,
                           !.disk = Touch(@, OpenFile(0))]

-----------------------------------------------------------------------------
(* Reading *)

\* The page upper_bound(i) and a step back lead to
PageOf(l, i) ==
  LET indices == LogIndices(l) IN
  indices[CHOOSE k \in DOMAIN indices : k <= i /\ \A j \in DOMAIN indices : j <= i => j <= k]

EntryInPage(l, i) == (\E k \in DOMAIN LogIndices(l) : k <= i) /\ i < EndIndex(PageOf(l, i))

\* Entry(i) of an index inside the log
EntryAt(l, i) ==
  IF EntryInPage(l, i) THEN PageOf(l, i).records[i - PageOf(l, i).start + 1].entry
  ELSE Unreadable

Contents(l) == [i \in 1..l.size |-> EntryAt(l, i - 1)]

\* Entries(start, end): curr moves from page to page; from is start, which each
\* page makes relative to itself
EntriesFrom(l, end) ==
  LET slice[curr \in 0..end, from \in 0..end] ==
        IF curr >= end THEN <<>>
        ELSE LET page == PageOf(l, curr)
                 first == IF from >= page.start THEN from - page.start ELSE 0
                 upto == IF EndIndex(page) >= end THEN end - page.start ELSE Len(page.records)
                 rest == IF EndIndex(page) >= end THEN <<>> ELSE slice[EndIndex(page), first]
             IN [i \in 1..upto - first |-> page.records[first + i].entry] \o rest
  IN slice

\* Mutation: the first page is read from its beginning
EntriesWhole(l, start, end) == EntriesFrom(l, end)[start, 0]

Entries(l, start, end) == EntriesFrom(l, end)[start, start]

-----------------------------------------------------------------------------
(* The specification *)

LogInit == log = RestoreLog(<<>>) /\ cuts = 0 /\ restarts = 0

AppendEntries(n) ==
  /\ log.size + n <= MaxLogSize
  /\ log' = PersistLogEntries(log, [i \in 1..n |-> [index |-> log.size + i - 1, term |-> cuts]])
  /\ UNCHANGED <<cuts, restarts>>

TruncateLog(removalIndex) ==
  /\ cuts' = IF removalIndex > LastLogIndex(log) THEN cuts ELSE cuts + 1
  /\ cuts' <= MaxCuts
  /\ log' = TruncateSuffix(log, removalIndex)
  /\ UNCHANGED restarts

Restart ==
  /\ restarts < MaxRestarts
  /\ restarts' = restarts + 1
  /\ log' = RestoreLog(log.disk)
  /\ UNCHANGED cuts

LogNext ==
  \/ \E n \in 1..MaxBatch : AppendEntries(n)
  \/ \E removalIndex \in 0..log.size : TruncateLog(removalIndex)
  \/ Restart

LogSpec == LogInit /\ [][LogNext]_logVars

-----------------------------------------------------------------------------
(* Properties *)

\* Types of the object, its pages and the files
LogTypeOK ==
  /\ log.size \in 0..MaxLogSize /\ restarts \in 0..MaxRestarts
  /\ cuts \in 0..MaxCuts /\ log.indexed \in BOOLEAN
  /\ DOMAIN log.pages \subseteq 0..MaxLogSize
  /\ \A page \in Range(log.pages) \cup {log.open} :
       /\ page.start \in 0..MaxLogSize /\ page.isOpen \in BOOLEAN /\ page.byteOffset \in Nat
       /\ page.file \in DOMAIN log.disk
       /\ page.records \in Seq([entry : Entry \cup {Blank}, offset : Nat])
  /\ \A name \in DOMAIN log.disk :
       log.disk[name].entries \in Seq(Entry \cup {Blank}) /\ log.disk[name].torn \in Nat

\* What storage.h promises of the log, read through Entry
Durable == INSTANCE DurableLog WITH contents <- Contents(log)

\* storage.h:99, 106: whatever calls and restarts came before, Append puts
\* entries at the end of the log, TruncateSuffix removes those from its index on
\* and no others, and a restart changes nothing
ImplementsLog == Durable!Spec

=============================================================================
