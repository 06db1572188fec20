------------------------ MODULE ClientCommandsProofs ------------------------
(***************************************************************************)
(* An OK stands for a request that was applied, for every length of the    *)
(* log and every number of requests and leaders.                           *)
(***************************************************************************)
EXTENDS ClientCommands, TLAPS

EntryType == {"NO_OP", "REGISTER_CLIENT", "DATA"}
AnyEntry == [term : Nat, type : EntryType, command : Nat \X Nat]

NodeType == [term : Nat, state : {"LEADER", "FOLLOWER"}, lease : BOOLEAN, log : Seq(AnyEntry), commitIndex : Nat]

ServerType == [at : {"idle", "check", "falling asleep", "asleep"}, type : EntryType, command : Nat \X Nat,
               index : Nat, savedTerm : Nat, ok : BOOLEAN, missed : BOOLEAN]

\* The entry a handler waits for is in the log
Waits ==
  /\ node \in NodeType /\ server \in ServerType
  /\ node.commitIndex < LogSize
  /\ ~Idle => server.index < LogSize
  /\ ~Idle /\ server.type = "DATA" => EntryAt(server.index).command = server.command

\* The handlers applied committed entries, and the cache has no command of another
CacheApplied ==
  /\ handled \subseteq 0..node.commitIndex
  /\ \A c \in cache : \E i \in handled : EntryAt(i).command = c

OkCached == Idle /\ server.ok /\ server.type = "DATA" => server.command \in cache

CommandsInv == Waits /\ CacheApplied /\ OkCached

-----------------------------------------------------------------------------
(* The log *)

\* An entry more leaves the others where they are
LEMMA AppendKeeps ==
  ASSUME Waits, NEW e \in AnyEntry, node'.log = Append(node.log, e)
  PROVE  /\ LogSize' = LogSize + 1 /\ node'.log[LogSize + 1] = e
         /\ node'.log \in Seq(AnyEntry)
         /\ \A i \in 0..LogSize - 1 : EntryAt(i)' = EntryAt(i)
<1>1. node.log \in Seq(AnyEntry) /\ LogSize \in Nat
  BY DEF Waits, NodeType, LogSize
<1>2. /\ Append(node.log, e) \in Seq(AnyEntry)
      /\ Len(Append(node.log, e)) = Len(node.log) + 1
      /\ Append(node.log, e)[Len(node.log) + 1] = e
      /\ \A k \in 1..Len(node.log) : Append(node.log, e)[k] = node.log[k]
  BY <1>1 DEF LogSize
<1>3. \A i \in 0..LogSize - 1 : i + 1 \in 1..Len(node.log)
  BY <1>1 DEF LogSize
<1> QED
  BY <1>1, <1>2, <1>3 DEF LogSize, EntryAt

\* What is cached and applied stays true while committed entries stay
LEMMA CommittedStay ==
  ASSUME Waits, CacheApplied, node'.commitIndex \in Nat, node.commitIndex <= node'.commitIndex,
         \A i \in 0..node.commitIndex : EntryAt(i)' = EntryAt(i),
         UNCHANGED <<cache, handled>>
  PROVE  CacheApplied'
<1>1. node.commitIndex \in Nat
  BY DEF Waits, NodeType
<1>2. \A i \in handled : i \in 0..node.commitIndex /\ EntryAt(i)' = EntryAt(i)
  BY DEF CacheApplied
<1>3. handled' \subseteq 0..node'.commitIndex
  BY <1>1 DEF CacheApplied
<1>4. \A c \in cache' : \E i \in handled' : EntryAt(i)' = EntryAt(i) /\ EntryAt(i).command = c
  BY <1>2 DEF CacheApplied
<1> QED
  BY <1>2, <1>3, <1>4 DEF CacheApplied

-----------------------------------------------------------------------------
(* Steps *)

\* A command is two numbers
LEMMA CommandType ==
  ASSUME Waits, NEW command \in Commands
  PROVE  command \in Nat \X Nat
<1>1. node.commitIndex \in Nat
  BY DEF Waits, NodeType
<1> QED
  BY <1>1, CommandsAssumption DEF Commands, Clients

\* A call that appends its entry and starts to wait
LEMMA StartWaitStep ==
  ASSUME CommandsInv, NEW type \in {"REGISTER_CLIENT", "DATA"}, NEW command \in Nat \X Nat,
         NEW e \in AnyEntry, e.command = command,
         Append1(e), StartWait(type, command), UNCHANGED <<cache, handled>>
  PROVE  CommandsInv'
<1>1. Waits /\ CacheApplied /\ node \in NodeType
  BY DEF CommandsInv, Waits
<1>2. /\ node'.log = Append(node.log, e) /\ node'.commitIndex = node.commitIndex
      /\ node'.term = node.term /\ node'.state = node.state /\ node'.lease = node.lease
      /\ node' = [node EXCEPT !.log = Append(@, e)]
  BY <1>1 DEF Append1, NodeType
<1>3. /\ LogSize' = LogSize + 1 /\ node'.log[LogSize + 1] = e
      /\ node'.log \in Seq(AnyEntry)
      /\ \A i \in 0..LogSize - 1 : EntryAt(i)' = EntryAt(i)
  BY <1>1, <1>2, AppendKeeps
<1>4. LogSize \in Nat /\ node.commitIndex \in Nat /\ node.commitIndex < LogSize /\ node.term \in Nat
  BY <1>1 DEF Waits, NodeType, LogSize
<1>5. node' \in NodeType
  BY <1>1, <1>2, <1>3 DEF NodeType
<1>6. /\ server' \in ServerType /\ server'.index = LogSize /\ server'.command = command
      /\ server'.at = "check"
  BY <1>4 DEF StartWait, ServerType, EntryType
<1>7. EntryAt(server.index)' = e
  BY <1>3, <1>6 DEF EntryAt
<1>8. Waits'
  BY <1>2, <1>3, <1>4, <1>5, <1>6, <1>7 DEF Waits
<1>9. CacheApplied'
  BY <1>1, <1>2, <1>3, <1>4, CommittedStay
<1>10. OkCached'
  BY <1>6 DEF OkCached, Idle
<1> QED
  BY <1>8, <1>9, <1>10 DEF CommandsInv

\* A step of the server thread, or a notification, that leaves the wait's entry,
\* and that caches and applies nothing
LEMMA ServerStep ==
  ASSUME CommandsInv, server' \in ServerType,
         server'.at = "idle" \/ (~Idle /\ server'.index = server.index),
         server'.type = server.type, server'.command = server.command,
         server'.at = "idle" /\ server'.ok /\ server'.type = "DATA" => server'.command \in cache,
         UNCHANGED <<node, cache, handled>>
  PROVE  CommandsInv'
<1>1. Waits'
  <2>1. node' = node /\ LogSize' = LogSize
    BY DEF LogSize
  <2>2. CASE server'.at = "idle"
    BY <2>1, <2>2 DEF CommandsInv, Waits, Idle
  <2>3. CASE server'.at # "idle"
    <3>1. server'.index = server.index /\ ~Idle
      BY <2>3
    <3>2. EntryAt(server.index)' = EntryAt(server.index)
      BY <2>1, <3>1 DEF EntryAt
    <3> QED
      BY <2>1, <3>1, <3>2 DEF CommandsInv, Waits
  <2> QED
    BY <2>2, <2>3
<1>2. CacheApplied'
  BY DEF CommandsInv, CacheApplied, EntryAt
<1>3. OkCached'
  BY DEF OkCached, Idle
<1> QED
  BY <1>1, <1>2, <1>3 DEF CommandsInv

\* The handler applies its entry and caches the response
LEMMA HandledStep ==
  ASSUME CommandsInv, Returns("DATA"), node.term = server.savedTerm, ~Cached,
         handled' = handled \union {server.index}, CacheResponse, ReturnOk, UNCHANGED node
  PROVE  CommandsInv'
<1>1. /\ server \in ServerType /\ node \in NodeType /\ ~Idle /\ server.type = "DATA"
      /\ EntryAt(server.index).command = server.command
  BY DEF CommandsInv, Waits, Returns, Idle
<1>2. server.index \in 0..node.commitIndex
  <2>1. server.index \in Nat /\ node.commitIndex \in Nat
    BY <1>1 DEF ServerType, NodeType
  <2>2. node.commitIndex >= server.index
    BY DEF Returns, WaitOver
  <2> QED
    BY <2>1, <2>2
<1>3. /\ server' \in ServerType /\ server'.at = "idle" /\ server'.command = server.command
      /\ server'.type = server.type
  BY <1>1 DEF ReturnOk, ServerType
<1>4. \A i : EntryAt(i)' = EntryAt(i)
  BY DEF EntryAt
<1>5. Waits'
  BY <1>3 DEF CommandsInv, Waits, Idle, LogSize
<1>6. cache' = cache \union {server.command}
  BY DEF CacheResponse
<1>7. handled' \subseteq 0..node'.commitIndex
  BY <1>2 DEF CommandsInv, CacheApplied
<1>8. \A c \in cache' : \E i \in handled' : EntryAt(i).command = c
  BY <1>1, <1>6 DEF CommandsInv, CacheApplied
<1>9. CacheApplied'
  BY <1>4, <1>7, <1>8 DEF CacheApplied
<1>10. OkCached'
  BY <1>3, <1>6 DEF OkCached
<1> QED
  BY <1>5, <1>9, <1>10 DEF CommandsInv

\* A sequence starts with the one it was made from
LEMMA Concatenated ==
  ASSUME NEW S, NEW s \in Seq(S), NEW t \in Seq(S)
  PROVE  /\ s \o t \in Seq(S) /\ Len(s \o t) = Len(s) + Len(t)
         /\ \A k \in 1..Len(s) : (s \o t)[k] = s[k]
  OBVIOUS

\* AppendEntries of another leader keeps what this node has committed
LEMMA AppendEntriesStep ==
  ASSUME CommandsInv, AppendEntriesOfLeader
  PROVE  CommandsInv'
<1>1. PICK term \in {node.term, node.term + 1}, at \in node.commitIndex + 1..LogSize :
        \E entries \in Entries(term) : \E leaderCommit \in node.commitIndex..at + Len(entries) - 1 :
          AppendEntries(term, at, entries, leaderCommit)
  BY DEF AppendEntriesOfLeader
<1> PICK entries \in Entries(term) :
      \E leaderCommit \in node.commitIndex..at + Len(entries) - 1 : AppendEntries(term, at, entries, leaderCommit)
  BY <1>1
<1>2. PICK leaderCommit \in node.commitIndex..at + Len(entries) - 1 :
        AppendEntries(term, at, entries, leaderCommit)
  OBVIOUS
<1> DEFINE log == IF entries = <<>> THEN node.log ELSE SubSeq(node.log, 1, at) \o entries
<1>3. /\ node \in NodeType /\ LogSize \in Nat /\ node.commitIndex \in Nat /\ node.term \in Nat
      /\ node.log \in Seq(AnyEntry) /\ Waits /\ CacheApplied /\ OkCached
  BY DEF CommandsInv, Waits, NodeType, LogSize
<1>4. term \in Nat /\ at \in Nat /\ at <= LogSize /\ node.commitIndex < at
  BY <1>3
<1>5. entries = <<>> \/ \E e \in AnyEntry : entries = <<e>>
  <2>1. \A c \in Commands : Data(term, c) \in AnyEntry
    BY <1>3, <1>4, CommandType DEF Data, AnyEntry, EntryType
  <2>2. NoOp(term) \in AnyEntry /\ Register(term) \in AnyEntry
    BY <1>4 DEF NoOp, Register, NoCommand, AnyEntry, EntryType
  <2> QED
    BY <2>1, <2>2 DEF Entries
<1>6. /\ log \in Seq(AnyEntry) /\ leaderCommit \in Nat /\ leaderCommit < Len(log)
      /\ node.commitIndex <= leaderCommit
      /\ \A k \in 1..node.commitIndex + 1 : log[k] = node.log[k]
  <2>1. CASE entries = <<>>
    BY <1>3, <1>4, <2>1 DEF LogSize
  <2>2. CASE \E e \in AnyEntry : entries = <<e>>
    <3>1. PICK e \in AnyEntry : entries = <<e>>
      BY <2>2
    <3>2. entries # <<>> /\ Len(entries) = 1 /\ entries \in Seq(AnyEntry) /\ at + 1 \in Nat
      BY <1>4, <3>1
    <3>3. /\ SubSeq(node.log, 1, at) \in Seq(AnyEntry) /\ Len(SubSeq(node.log, 1, at)) = at
          /\ \A k \in 1..at : SubSeq(node.log, 1, at)[k] = node.log[k]
      BY <1>3, <1>4 DEF LogSize
    <3>4. /\ log \in Seq(AnyEntry) /\ Len(log) = at + 1
          /\ \A k \in 1..at : log[k] = node.log[k]
      <4>1. log = SubSeq(node.log, 1, at) \o entries
        BY <3>2
      <4>2. /\ log \in Seq(AnyEntry) /\ Len(log) = Len(SubSeq(node.log, 1, at)) + Len(entries)
            /\ \A k \in 1..Len(SubSeq(node.log, 1, at)) : log[k] = SubSeq(node.log, 1, at)[k]
        BY <3>2, <3>3, <4>1, Concatenated, Zenon
      <4> HIDE DEF log
      <4> QED
        BY <3>2, <3>3, <4>2
    <3>5. leaderCommit \in Nat /\ leaderCommit < at + 1 /\ node.commitIndex <= leaderCommit
      BY <1>3, <1>4, <3>2
    <3>6. \A k \in 1..node.commitIndex + 1 : k \in 1..at
      BY <1>3, <1>4
    <3> HIDE DEF log
    <3> QED
      BY <3>4, <3>5, <3>6
  <2> QED
    BY <1>5, <2>1, <2>2
<1>7. /\ node' = [term |-> term, state |-> "FOLLOWER", lease |-> FALSE, log |-> log, commitIndex |-> leaderCommit]
      /\ Idle /\ UNCHANGED <<cache, server, handled>>
  BY <1>2 DEF AppendEntries
<1>8. node'.log = log /\ node'.commitIndex = leaderCommit /\ node' \in NodeType
  BY <1>4, <1>6, <1>7 DEF NodeType
<1>9. Waits'
  BY <1>3, <1>6, <1>7, <1>8 DEF Waits, Idle, LogSize
<1>10. \A i \in 0..node.commitIndex : EntryAt(i)' = EntryAt(i)
  BY <1>3, <1>6, <1>8 DEF EntryAt
<1>11. CacheApplied'
  BY <1>3, <1>6, <1>8, <1>7, <1>10, CommittedStay
<1>12. OkCached'
  BY <1>3, <1>7 DEF OkCached, Idle
<1> QED
  BY <1>9, <1>11, <1>12 DEF CommandsInv

\* Steps that only change the node, its log at most by an entry more
LEMMA NodeStep ==
  ASSUME CommandsInv, node' \in NodeType, node.commitIndex <= node'.commitIndex,
         node'.commitIndex < LogSize,
         node'.log = node.log \/ \E e \in AnyEntry : node'.log = Append(node.log, e),
         UNCHANGED <<cache, handled, server>>
  PROVE  CommandsInv'
<1>1. Waits /\ CacheApplied /\ node \in NodeType /\ LogSize \in Nat /\ node.commitIndex \in Nat
  BY DEF CommandsInv, Waits, NodeType, LogSize
<1>2. LogSize <= LogSize' /\ LogSize' \in Nat /\ \A i \in 0..LogSize - 1 : EntryAt(i)' = EntryAt(i)
  <2>1. CASE node'.log = node.log
    BY <1>1, <2>1 DEF LogSize, EntryAt
  <2>2. CASE \E e \in AnyEntry : node'.log = Append(node.log, e)
    BY <1>1, <2>2, AppendKeeps
  <2> QED
    BY <2>1, <2>2
<1>3. node'.commitIndex \in Nat
  BY DEF NodeType
<1>4. CacheApplied'
  BY <1>1, <1>2, <1>3, CommittedStay DEF CommandsInv, Waits
<1>5. CASE Idle
  BY <1>1, <1>2, <1>3, <1>4, <1>5 DEF CommandsInv, Waits, OkCached, Idle
<1>6. CASE ~Idle
  <2> server.index \in Nat
    BY <1>1 DEF Waits, ServerType
  <2> server.index < LogSize
    BY <1>1, <1>6 DEF Waits
  <2>1. server.index \in 0..LogSize - 1
    BY <1>1
  <2>2. EntryAt(server.index)' = EntryAt(server.index)
    <3>1. \A i \in 0..LogSize - 1 : node'.log[i + 1] = node.log[i + 1]
      BY <1>2 DEF EntryAt
    <3> QED
      BY <2>1, <3>1 DEF EntryAt
  <2>3. server.index < LogSize'
    BY <1>1, <1>2
  <2>4. Waits'
    BY <1>1, <1>2, <1>3, <1>6, <2>2, <2>3 DEF Waits, Idle
  <2> QED
    BY <1>4, <1>6, <2>4 DEF CommandsInv, OkCached, Idle
<1> QED
  BY <1>5, <1>6

\* A commit leaves the entries and at most wakes the server thread
LEMMA UpdateCommitIndexStep ==
  ASSUME CommandsInv, NEW commit \in 0..LogSize - 1, UpdateCommitIndex(commit)
  PROVE  CommandsInv'
<1>1. /\ Waits /\ CacheApplied /\ OkCached /\ node \in NodeType /\ server \in ServerType
      /\ LogSize \in Nat /\ node.commitIndex \in Nat
  BY DEF CommandsInv, Waits, NodeType, LogSize
<1>2. /\ node' = [node EXCEPT !.commitIndex = commit] /\ UNCHANGED <<cache, handled>>
      /\ commit > node.commitIndex /\ (server' = Notified \/ server' = server)
  BY DEF UpdateCommitIndex
<1>3. node'.log = node.log /\ node'.commitIndex = commit /\ node' \in NodeType
  BY <1>1, <1>2 DEF NodeType
<1>4. LogSize' = LogSize /\ \A i : EntryAt(i)' = EntryAt(i)
  BY <1>3 DEF LogSize, EntryAt
<1>5. /\ server' \in ServerType /\ (server'.at = "idle") = (server.at = "idle")
      /\ server'.index = server.index /\ server'.type = server.type
      /\ server'.command = server.command /\ server'.ok = server.ok
  <2>1. CASE server' = Notified
    BY <1>1, <2>1 DEF Notified, ServerType
  <2>2. CASE server' = server
    BY <1>1, <2>2
  <2> QED
    BY <1>2, <2>1, <2>2
<1>6. EntryAt(server.index)' = EntryAt(server.index)
  BY <1>3, <1>5 DEF EntryAt
<1>7. commit \in Nat /\ commit < LogSize /\ node.commitIndex <= commit
  BY <1>1, <1>2
<1>8. Waits'
  BY <1>1, <1>3, <1>4, <1>5, <1>6, <1>7 DEF Waits, Idle
<1>9. CacheApplied'
  BY <1>1, <1>2, <1>3, <1>4, <1>7, CommittedStay
<1>10. OkCached'
  BY <1>1, <1>2, <1>5 DEF OkCached, Idle
<1> QED
  BY <1>8, <1>9, <1>10 DEF CommandsInv

\* The steps of a handler that waits
LEMMA ServerThreadStep ==
  ASSUME CommandsInv, ServerThread
  PROVE  CommandsInv'
<1>1. server \in ServerType
  BY DEF CommandsInv, Waits
<1>2. CASE CheckFails \/ Sleep
  <2>1. /\ server' \in ServerType /\ server'.at # "idle" /\ ~Idle /\ server'.index = server.index
        /\ server'.type = server.type /\ server'.command = server.command
        /\ UNCHANGED <<node, cache, handled>>
    BY <1>1, <1>2 DEF CheckFails, Sleep, Idle, ServerType
  <2> QED
    BY <2>1, ServerStep
<1>3. ASSUME ReturnError \/ (ReturnOk /\ (server.type = "DATA" => Cached)),
             UNCHANGED <<node, cache, handled>>
      PROVE  CommandsInv'
  <2>1. /\ server' \in ServerType /\ server'.at = "idle"
        /\ server'.type = server.type /\ server'.command = server.command
        /\ (server'.ok /\ server'.type = "DATA" => server'.command \in cache)
    <3>1. CASE ReturnError
      BY <1>1, <3>1 DEF ReturnError, ServerType
    <3>2. CASE ReturnOk /\ (server.type = "DATA" => Cached)
      BY <1>1, <3>2 DEF ReturnOk, Cached, ServerType
    <3> QED
      BY <1>3, <3>1, <3>2
  <2> QED
    BY <1>3, <2>1, ServerStep
<1>4. CASE TermChanged
  BY <1>3, <1>4 DEF TermChanged, Abandon
<1>5. CASE RegisterClientReturns
  BY <1>3, <1>5 DEF RegisterClientReturns, Returns
<1>6. CASE ClientRequestReturns
  <2>1. CASE Cached \/ ~SessionExists
    BY <1>3, <1>6, <2>1, HandledStep DEF ClientRequestReturns
  <2>2. CASE ~Cached /\ SessionExists
    BY <1>6, <2>2, HandledStep DEF ClientRequestReturns
  <2> QED
    BY <2>1, <2>2
<1> QED
  BY <1>2, <1>4, <1>5, <1>6 DEF ServerThread

\* The invariant is inductive
LEMMA CommandsInvStep ==
  ASSUME CommandsInv, [Next]_vars
  PROVE  CommandsInv'
<1>1. /\ Waits /\ node \in NodeType /\ LogSize \in Nat /\ node.commitIndex \in Nat
      /\ node.term \in Nat /\ node.commitIndex < LogSize /\ node.log \in Seq(AnyEntry)
  BY DEF CommandsInv, Waits, NodeType, LogSize
<1>2. CASE RegisterClient
  <2>1. Register(node.term) \in AnyEntry /\ Register(node.term).command = NoCommand /\ NoCommand \in Nat \X Nat
    BY <1>1 DEF Register, NoCommand, AnyEntry, EntryType
  <2> QED
    BY <1>2, <2>1, StartWaitStep DEF RegisterClient
<1>3. ASSUME NEW command \in Commands, ClientRequest(command) PROVE CommandsInv'
  <2>1. command \in Nat \X Nat
    BY <1>1, CommandType
  <2>2. Data(node.term, command) \in AnyEntry /\ Data(node.term, command).command = command
    BY <1>1, <2>1 DEF Data, AnyEntry, EntryType
  <2> QED
    BY <1>3, <2>1, <2>2, StartWaitStep DEF ClientRequest
<1>4. ASSUME AcquireLease \/ (\E term \in {node.term + 1, 0} : ResetToFollower(term)) PROVE CommandsInv'
  <2>1. PICK term \in Nat, state \in {"LEADER", "FOLLOWER"}, lease \in BOOLEAN :
          node' = [node EXCEPT !.term = term, !.state = state, !.lease = lease]
    <3>1. CASE AcquireLease
      <4>1. node' = [node EXCEPT !.term = node.term, !.state = node.state, !.lease = TRUE]
        BY <1>1, <3>1 DEF AcquireLease, NodeType
      <4> QED
        BY <1>1, <4>1 DEF NodeType
    <3>2. ASSUME NEW term \in {node.term + 1, 0}, ResetToFollower(term)
          PROVE  \E t \in Nat, state \in {"LEADER", "FOLLOWER"}, lease \in BOOLEAN :
                   node' = [node EXCEPT !.term = t, !.state = state, !.lease = lease]
      <4>1. term \in Nat
        BY <1>1
      <4>2. node' = [node EXCEPT !.term = term, !.state = "FOLLOWER", !.lease = FALSE]
        BY <3>2 DEF ResetToFollower
      <4> QED
        BY <4>1, <4>2
    <3> QED
      BY <1>4, <3>1, <3>2
  <2>2. node' \in NodeType /\ node'.commitIndex = node.commitIndex /\ node'.log = node.log
    BY <1>1, <2>1 DEF NodeType
  <2>3. UNCHANGED <<cache, handled, server>>
    BY <1>4 DEF AcquireLease, ResetToFollower
  <2> QED
    BY <1>1, <2>2, <2>3, NodeStep
<1>5. CASE PromoteToLeader
  <2> DEFINE e == NoOp(node.term + 1)
  <2>1. e \in AnyEntry
    BY <1>1 DEF NoOp, NoCommand, AnyEntry, EntryType
  <2>2. Append(node.log, e) \in Seq(AnyEntry)
    BY <1>1, <2>1
  <2> HIDE DEF e
  <2> DEFINE term == node.term + 1
             log == Append(node.log, e)
  <2>3. node' = [node EXCEPT !.term = term, !.state = "LEADER", !.log = log] /\ term \in Nat /\ log \in Seq(AnyEntry)
    BY <1>1, <1>5, <2>2 DEF PromoteToLeader, e
  <2> HIDE DEF term, log
  <2>4. /\ node' \in NodeType /\ node'.commitIndex = node.commitIndex /\ node'.log = log
    BY <1>1, <2>3 DEF NodeType
  <2> QED
    BY <1>1, <1>5, <2>1, <2>4, NodeStep DEF PromoteToLeader, log
<1>6. CASE UNCHANGED vars
  BY <1>6 DEF vars, CommandsInv, Waits, CacheApplied, OkCached, Idle, LogSize, EntryAt
<1> QED
  BY <1>2, <1>3, <1>4, <1>5, <1>6, ServerThreadStep, AppendEntriesStep, UpdateCommitIndexStep DEF Next

-----------------------------------------------------------------------------
(* The theorems *)

\* The invariant of the proofs holds in every state
LEMMA CommandsInvariant == Spec => []CommandsInv
<1>1. Init => CommandsInv
  <2> SUFFICES ASSUME Init PROVE CommandsInv
    OBVIOUS
  <2>1. InitialLog \in Seq(AnyEntry) /\ Len(InitialLog) = 2
    BY DEF InitialLog, NoOp, NoCommand, AnyEntry, EntryType
  <2>2. /\ node \in NodeType /\ server \in ServerType /\ Idle /\ ~server.ok
        /\ node.commitIndex = 1 /\ LogSize = 2
    BY <2>1 DEF Init, NodeType, ServerType, EntryType, NoCommand, Idle, LogSize
  <2>3. Waits
    BY <2>2 DEF Waits
  <2>4. CacheApplied
    BY DEF Init, CacheApplied
  <2> QED
    BY <2>2, <2>3, <2>4 DEF CommandsInv, OkCached
<1> QED
  BY <1>1, CommandsInvStep, PTL DEF Spec

\* A ClientRequest answered with OK has been applied by a handler
THEOREM OkRequestsApplied == Spec => []OkMeansApplied
<1>1. CommandsInv => OkMeansApplied
  BY DEF CommandsInv, CacheApplied, OkCached, OkMeansApplied
<1> QED
  BY <1>1, CommandsInvariant, PTL

=============================================================================
