--------------------------- MODULE ClientCommands ---------------------------
(***************************************************************************)
(* Client sessions and commands on one node, from the log to the store.    *)
(* The only server thread runs the handlers; while one of them waits for   *)
(* its entry to be committed no other call is handled.  The strand and the *)
(* client thread commit, win and lose elections and get the lease.         *)
(*                                                                         *)
(* A command is the client and the sequence number it was sent with; it is *)
(* all that a DATA entry holds of the request.  Commands write one key, so *)
(* that the store is the last of the entries that were applied.  A call    *)
(* that is refused changes nothing and is left out.                        *)
(***************************************************************************)
EXTENDS Integers, Sequences, FiniteSets

CONSTANTS
  MaxLog,          \* bound: length of the log
  MaxSequence,     \* bound: sequence numbers of a client
  MaxLeaders       \* bound: changes of the leader

ASSUME CommandsAssumption ==
  MaxLog \in Nat /\ MaxSequence \in Nat /\ MaxLeaders \in Nat

VARIABLES
  node,       \* term, state and lease of the ConsensusModule, its log and commit index
  machine,    \* the StateMachine with its store, and the ids of the sessions
  cache,      \* the requests with a cached response
  server,     \* the server thread: the wait it is in, the last reply, and whether a
              \* notification came too early
  leaders,    \* number of changes of the leader
  led,        \* history: the node has been LEADER
  handled     \* history: entries applied by the handler of the client that sent them

vars == <<node, machine, cache, server, leaders, led, handled>>

-----------------------------------------------------------------------------
(* The log.  Its indices start at 0. *)

NoCommand == <<0, 0>>
Command == (0..MaxLog) \X (0..MaxSequence)

NoOp(term) == [term |-> term, type |-> "NO_OP", command |-> NoCommand]
Register(term) == [term |-> term, type |-> "REGISTER_CLIENT", command |-> NoCommand]
Data(term, command) == [term |-> term, type |-> "DATA", command |-> command]

LogSize == Len(node.log)
EntryAt(i) == node.log[i + 1]

\* RegisterClient returned these ids, here or at an earlier leader
Clients == {i \in 0..node.commitIndex : EntryAt(i).type = "REGISTER_CLIENT"}

Commands == Clients \X (1..MaxSequence)

Append1(entry) == node' = [node EXCEPT !.log = Append(@, entry)]

-----------------------------------------------------------------------------
(* StateMachine *)

IncrementLastApplied(m) == [m EXCEPT !.lastApplied = @ + 1]

\* index is what the caller passes for entry i.  SessionCache::AddSession throws
\* for a session that is there, and nothing catches it.
ApplyCommand(m, index, entry, i) ==
  CASE entry.type = "REGISTER_CLIENT" /\ index \in m.sessions -> [m EXCEPT !.thrown = TRUE]
    [] entry.type = "REGISTER_CLIENT" /\ index \notin m.sessions ->
         IncrementLastApplied([m EXCEPT !.sessions = @ \union {index}])
    [] entry.type = "DATA" -> IncrementLastApplied([m EXCEPT !.applied = Append(@, i)])
    [] entry.type = "NO_OP" -> IncrementLastApplied(m)

-----------------------------------------------------------------------------
(* Client calls: append an entry, wait until it is committed, apply it *)

Idle == server.at = "idle"

StartWait(type, command) ==
  server' = [at |-> "check", type |-> type, command |-> command,
             index |-> LogSize, savedTerm |-> node.term, ok |-> FALSE, missed |-> FALSE]

\* An error; which one is not told apart
ReturnError == server' = [server EXCEPT !.at = "idle", !.savedTerm = 0, !.index = 0, !.ok = FALSE, !.missed = FALSE]
ReturnOk == server' = [server EXCEPT !.at = "idle", !.savedTerm = 0, !.index = 0, !.ok = TRUE, !.missed = FALSE]

Calls == Idle /\ ~machine.thrown /\ node.state = "LEADER" /\ LogSize < MaxLog

RegisterClient ==
  /\ Calls
  /\ Append1(Register(node.term))
  /\ StartWait("REGISTER_CLIENT", NoCommand)
  /\ UNCHANGED <<machine, cache, leaders, led, handled>>

ClientRequest(command) ==
  /\ Calls
  /\ Append1(Data(node.term, command))
  /\ StartWait("DATA", command)
  /\ UNCHANGED <<machine, cache, leaders, led, handled>>

\* Mutation: the entry before the one waited for is enough
WaitOverEarly == node.commitIndex >= server.index - 1 \/ node.term # server.savedTerm

WaitOver == node.commitIndex >= server.index \/ node.term # server.savedTerm

\* The predicate of wait() does not hold.  The mutex is a local one, so that a
\* notification may come before the sleep.
CheckFails ==
  /\ server.at = "check" /\ ~WaitOver
  /\ server' = [server EXCEPT !.at = "falling asleep"]
  /\ UNCHANGED <<node, machine, cache, leaders, led, handled>>

Sleep ==
  /\ server.at = "falling asleep"
  /\ server' = [server EXCEPT !.at = "asleep"]
  /\ UNCHANGED <<node, machine, cache, leaders, led, handled>>

\* The wait is over.  The term is read again: a change after the predicate held
\* is the same as one before.
Returns(type) == server.at = "check" /\ WaitOver /\ server.type = type

\* Mutation: the reply of an abandoned request is cached
AbandonCached ==
  machine' = IncrementLastApplied(machine) /\ cache' = cache \union {server.command}

Abandon == machine' = IncrementLastApplied(machine) /\ UNCHANGED cache

TermChanged ==
  /\ server.at = "check" /\ WaitOver /\ node.term # server.savedTerm
  /\ Abandon /\ ReturnError
  /\ UNCHANGED <<node, leaders, led, handled>>

RegisterClientReturns ==
  /\ Returns("REGISTER_CLIENT") /\ node.term = server.savedTerm
  /\ machine' = ApplyCommand(machine, server.index, EntryAt(server.index), server.index)
  /\ ReturnOk
  /\ UNCHANGED <<node, cache, leaders, led, handled>>

SessionExists == server.command[1] \in machine.sessions

\* GetCachedResponse
Cached == server.command \in cache

CacheResponse == cache' = cache \union {server.command}

ClientRequestReturns ==
  /\ Returns("DATA") /\ node.term = server.savedTerm
  /\ \/ /\ ~SessionExists
        /\ machine' = IncrementLastApplied(machine) /\ ReturnError
        /\ UNCHANGED <<cache, handled>>
     \/ /\ SessionExists /\ Cached
        /\ machine' = IncrementLastApplied(machine) /\ ReturnOk
        /\ UNCHANGED <<cache, handled>>
     \/ /\ SessionExists /\ ~Cached
        /\ machine' = ApplyCommand(machine, server.index, EntryAt(server.index), server.index)
        /\ handled' = handled \union {server.index}
        /\ CacheResponse /\ ReturnOk
  /\ UNCHANGED <<node, leaders, led>>

\* A read is answered from the store, in one step
ClientQuery == Idle /\ node.state = "LEADER" /\ node.lease

-----------------------------------------------------------------------------
(* AppendEntries of another leader *)

\* Mutation: sessions are numbered from the start of each call
SessionIdOfCall(saved, i) == i

\* The i-th entry (from 0) is applied as if it were at saved_commit_index + i
SessionIdAt(saved, i) == saved + i

\* What lies between the last applied and the commit index is applied in order
ApplyCommitted(log, saved, commit) ==
  LET last == machine.lastApplied
      after[i \in last..commit] ==
        IF i = last THEN machine
        ELSE IF after[i - 1].thrown THEN after[i - 1]
        ELSE ApplyCommand(after[i - 1], SessionIdAt(saved, i - last - 1), log[i + 1], i)
  IN  IF last < commit THEN after[commit] ELSE machine

\* What a leader of the term sends from its index at on: nothing, or one entry
Entries(term) ==
  {<<>>, <<NoOp(term)>>, <<Register(term)>>} \union {<<Data(term, c)>> : c \in Commands}

\* The sender has every entry this node has committed, and has committed no more
\* than it sends.  A call that leaves the commit index alone applies nothing.
AppendEntries(term, at, entries, leaderCommit) ==
  LET log == IF entries = <<>> THEN node.log ELSE SubSeq(node.log, 1, at) \o entries IN
  /\ Idle /\ ~machine.thrown
  /\ term >= EntryAt(LogSize - 1).term /\ (node.state = "LEADER" => term > node.term)
  /\ leaders' = leaders + (term - node.term) /\ leaders' <= MaxLeaders
  /\ at < LogSize /\ entries # <<>> => EntryAt(at).term # term
  /\ at + Len(entries) <= MaxLog
  /\ node' = [term |-> term, state |-> "FOLLOWER", lease |-> FALSE, log |-> log, commitIndex |-> leaderCommit]
  /\ machine' = IF leaderCommit > node.commitIndex
                THEN ApplyCommitted(log, node.commitIndex, leaderCommit) ELSE machine
  /\ UNCHANGED <<cache, server, led, handled>>

AppendEntriesOfLeader ==
  \E term \in {node.term, node.term + 1}, at \in node.commitIndex + 1..LogSize :
    \E entries \in Entries(term) :
      \E leaderCommit \in node.commitIndex..at + Len(entries) - 1 :
        AppendEntries(term, at, entries, leaderCommit)

-----------------------------------------------------------------------------
(* The strand and the client thread *)

\* Mutation: the first of the entries that are committed is left out
AnnouncedNew(commit) == node.commitIndex + 2..commit

\* The entries CommitEntries goes through
Announced(commit) == machine.lastApplied + 1..commit

\* A notification is lost on a thread that does not sleep yet
Notified ==
  [server EXCEPT !.at = IF @ = "asleep" THEN "check" ELSE @,
                 !.missed = (@ \/ server.at = "falling asleep")]

\* UpdateCommitIndex of a leader: a notify_one for every entry announced
UpdateCommitIndex(commit) ==
  /\ node.state = "LEADER" /\ ~machine.thrown
  /\ commit > node.commitIndex /\ EntryAt(commit).term = node.term
  /\ node' = [node EXCEPT !.commitIndex = commit]
  /\ server' = IF \E i \in Announced(commit) : EntryAt(i).type = server.type THEN Notified ELSE server
  /\ UNCHANGED <<machine, cache, leaders, led, handled>>

\* A majority has answered a heartbeat
AcquireLease ==
  /\ node.state = "LEADER" /\ ~node.lease /\ ~machine.thrown
  /\ node' = [node EXCEPT !.lease = TRUE]
  /\ UNCHANGED <<machine, cache, server, leaders, led, handled>>

\* A higher term, or the lease's expiry, which goes back to the term of the start
ResetToFollower(term) ==
  /\ node.state = "LEADER" /\ leaders < MaxLeaders /\ ~machine.thrown
  /\ leaders' = leaders + 1
  /\ node' = [node EXCEPT !.term = term, !.state = "FOLLOWER", !.lease = FALSE]
  /\ UNCHANGED <<machine, cache, server, led, handled>>

\* An election that is won, up to PromoteToLeader's NO_OP
PromoteToLeader ==
  /\ node.state = "FOLLOWER" /\ leaders < MaxLeaders /\ LogSize < MaxLog /\ ~machine.thrown
  /\ leaders' = leaders + 1 /\ led' = TRUE
  /\ node' = [node EXCEPT !.term = @ + 1, !.state = "LEADER", !.log = Append(@, NoOp(node.term + 1))]
  /\ UNCHANGED <<machine, cache, server, handled>>

-----------------------------------------------------------------------------
\* The log of the bootstrap: its configuration entry, like a NO_OP, is applied
\* without effect.  The node made it itself, or was sent it.
InitialLog == <<NoOp(0), NoOp(0)>>

Init ==
  /\ led \in BOOLEAN
  /\ node = [term |-> 0, state |-> IF led THEN "LEADER" ELSE "FOLLOWER", lease |-> FALSE,
             log |-> InitialLog, commitIndex |-> 1]
  /\ machine = [lastApplied |-> IF led THEN -1 ELSE 1, applied |-> <<>>, sessions |-> {}, thrown |-> FALSE]
  /\ cache = {}
  /\ server = [at |-> "idle", type |-> "NO_OP", command |-> NoCommand, index |-> 0, savedTerm |-> 0,
               ok |-> FALSE, missed |-> FALSE]
  /\ leaders = 0 /\ handled = {}

ServerThread ==
  CheckFails \/ Sleep \/ TermChanged \/ RegisterClientReturns \/ ClientRequestReturns

Next ==
  \/ RegisterClient
  \/ \E command \in Commands : ClientRequest(command)
  \/ ServerThread
  \/ AppendEntriesOfLeader
  \/ \E commit \in 0..LogSize - 1 : UpdateCommitIndex(commit)
  \/ AcquireLease
  \/ \E term \in {node.term + 1, 0} : ResetToFollower(term)
  \/ PromoteToLeader

\* A thread that can go on does
Spec == Init /\ [][Next]_vars /\ WF_vars(ServerThread)

-----------------------------------------------------------------------------
(* Properties *)

Entry == [term : Nat, type : {"NO_OP", "REGISTER_CLIENT", "DATA"}, command : Command]

\* Types
TypeOK ==
  /\ node \in [term : Nat, state : {"LEADER", "FOLLOWER"}, lease : BOOLEAN, log : Seq(Entry), commitIndex : Nat]
  /\ node.commitIndex < LogSize
  /\ machine \in [lastApplied : Int, applied : Seq(Nat), sessions : SUBSET Nat, thrown : BOOLEAN]
  /\ cache \subseteq Command
  /\ server \in [at : {"idle", "check", "falling asleep", "asleep"}, type : {"NO_OP", "REGISTER_CLIENT", "DATA"},
                  command : Command, index : Nat, savedTerm : Nat, ok : BOOLEAN, missed : BOOLEAN]
  /\ leaders \in 0..MaxLeaders /\ led \in BOOLEAN /\ handled \subseteq Nat

Applied == {machine.applied[k] : k \in DOMAIN machine.applied}

\* Only committed entries are applied, by whichever handler: no other leader can
\* remove what the store has
AppliedCommitted ==
  /\ TypeOK
  /\ \A i \in Applied : i <= node.commitIndex /\ EntryAt(i).type = "DATA"
  /\ handled \subseteq Applied

\* A ClientRequest that is answered with OK, also from the cache, has been applied
\* by its own handler or by that of an earlier attempt
OkMeansApplied ==
  Idle /\ server.ok /\ server.type = "DATA" => \E i \in handled : EntryAt(i).command = server.command

\* The exception of AddSession only ends nodes that have been LEADER: those that
\* only follow give every session another id
FollowersNeverThrow == machine.thrown => led

\* A handler whose entry is committed returns, also when the node has lost
\* leadership since, unless a notification was lost before its sleep, or the last
\* applied index is past the entry already: every abandoned request counts as
\* applied, and removed ones are not taken off
CommittedReturns ==
  (~Idle /\ ~server.missed /\ server.index \in machine.lastApplied + 1..node.commitIndex) ~> Idle

\* How often the store has applied a command, by whichever handler
TimesApplied(command) ==
  Cardinality({k \in DOMAIN machine.applied : EntryAt(machine.applied[k]).command = command})

\* A ClientQuery is answered from a store to which every committed command has
\* been applied exactly once, also when the client sent it again after a change
\* of the leader
LinearizableReads ==
  ClientQuery => \A i \in 0..node.commitIndex : EntryAt(i).type = "DATA" => TimesApplied(EntryAt(i).command) = 1

=============================================================================
