----------------------------- MODULE Membership -----------------------------
(***************************************************************************)
(* A membership change on one node.  The server thread runs                *)
(* SetConfiguration: it waits until new servers have caught up, appends    *)
(* the joint configuration and waits until the final one is committed.     *)
(* Meanwhile the strand sends heartbeats and the client thread handles     *)
(* their replies, counts quorums, appends the final configuration, and     *)
(* takes the node out of leadership.  A handler is one step between its    *)
(* waits; the mutex a wait uses is a local one, so that the check and the  *)
(* sleep are two steps and a notification in between is lost.              *)
(*                                                                         *)
(* The other nodes are here by what they answer.  A call is answered or    *)
(* fails before the next one to the same peer (PromptSpec of Consensus).   *)
(***************************************************************************)
EXTENDS ClusterConfiguration, Sequences

CONSTANTS
  Self,            \* the node
  Initial,         \* members of the first configuration
  Live,            \* peers that answer every call
  Requests,        \* sets of members that are asked for
  MaxChanges,      \* bound: SetConfiguration requests
  MaxLeaders       \* bound: changes of the leader

ASSUME MembershipAssumption ==
  /\ Self \in Initial /\ Initial \subseteq Server /\ Live \subseteq Server
  /\ Requests \subseteq (SUBSET Server) \ {{}}
  /\ MaxChanges \in Nat /\ MaxLeaders \in Nat

VARIABLES
  node,       \* what the threads of the node share
  server,     \* the server thread: where it is in SetConfiguration, and its locals
  sent,       \* sent[p]: length of the log in the call to p that is in flight, or 0
  changes, leaders,  \* numbers of requests, and of changes of the leader
  overlapped, \* history: a change was started in a configuration that was not STABLE
  kept        \* history: a removed configuration entry was kept in m_configurations

vars == <<node, server, sent, changes, leaders, overlapped, kept>>

-----------------------------------------------------------------------------
(* The node *)

NoMembers == [prev |-> {}, next |-> {}]
Stable(members) == [prev |-> members, next |-> {}]
Joint(old, new) == [prev |-> old, next |-> new]

\* A NO_OP entry has no members
NoOp(term) == [term |-> term, members |-> NoMembers]
Configuration(term, members) == [term |-> term, members |-> members]

LogSize(nd) == Len(nd.log)

\* Indices of the log start at 0
EntryAt(nd, i) == nd.log[i + 1]

\* What the README's usage section leads to: all members have the entries of the
\* bootstrap and of the first reconfiguration, committed.  Self has won a second
\* election and just appended its NO_OP.
InitialLog == <<NoOp(0), Configuration(0, Stable({Self})),
                Configuration(0, Joint({Self}, Initial)), Configuration(0, Stable(Initial)), NoOp(1)>>

InitialNode ==
  [term |-> 1, state |-> "LEADER", log |-> InitialLog, commitIndex |-> 3,
   matchIndex |-> [p \in Server |-> IF p \in Initial THEN 3 ELSE 0],
   cc |-> [id |-> 3, state |-> "STABLE", current |-> Stable(Initial),
           known |-> [i \in 1..3 |-> InitialLog[i + 1].members], sync |-> NoSync]]

\* ConsensusModule::Append
AppendEntry(nd, entry) ==
  [nd EXCEPT !.log = Append(@, entry),
             !.cc = IF entry.members = NoMembers THEN @
                    ELSE InsertNewConfiguration(@, LogSize(nd), entry.members)]

ResetToFollower(nd, term) == [nd EXCEPT !.state = "FOLLOWER", !.term = term]

Committable(nd, i) ==
  /\ EntryAt(nd, i).term = nd.term
  /\ CheckQuorum(nd.cc, {Self} \union {p \in ServerAddresses(nd.cc) : nd.matchIndex[p] >= i})

\* The first half of UpdateCommitIndex
Commit(nd) ==
  LET new == {i \in nd.commitIndex + 1..LogSize(nd) - 1 : Committable(nd, i)}
  IN  IF new = {} THEN nd
      ELSE [nd EXCEPT !.commitIndex = CHOOSE i \in new : \A j \in new : j <= i]

ConfigurationCommitted(nd) == nd.commitIndex >= nd.cc.id

\* Mutation: the final configuration has the members of before the change
AdvanceToPrev(nd) ==
  IF ~ConfigurationCommitted(nd) THEN nd
  ELSE IF ~KnownServer(nd.cc, Self) THEN ResetToFollower(nd, nd.term + 1)
  ELSE IF nd.cc.state = "JOINT"
       THEN AppendEntry(nd, Configuration(nd.term, Stable(nd.cc.current.prev)))
       ELSE nd

\* The second half: what a committed configuration leads to
Advance(nd) ==
  IF ~ConfigurationCommitted(nd) THEN nd
  ELSE IF ~KnownServer(nd.cc, Self) THEN ResetToFollower(nd, nd.term + 1)
  ELSE IF nd.cc.state = "JOINT"
       THEN AppendEntry(nd, Configuration(nd.term, Stable(nd.cc.current.next)))
       ELSE nd

UpdateCommitIndex(nd) == Advance(Commit(nd))

-----------------------------------------------------------------------------
(* Configuration requests, on the server thread *)

\* ok is that of the last reply; errors are not told apart
IdleServer == [at |-> "idle", new |-> {}, savedTerm |-> 0, jointId |-> 0, ok |-> FALSE]

ReturnError == server' = IdleServer

\* A change that was made stays on record
ReturnOk == server' = [server EXCEPT !.at = "idle", !.savedTerm = 0, !.ok = TRUE]

\* GetConfiguration: the errors it constructs are not returned, so that any node
\* answers in any state with the id of what it has, to be sent back with a change
GetConfiguration == node.cc.id

Accepts(oldId) == node.state = "LEADER" /\ node.cc.id = oldId

Refuse(oldId) ==
  /\ server.at = "idle" /\ ~Accepts(oldId)
  /\ ReturnError
  /\ UNCHANGED <<node, sent, changes, leaders, overlapped, kept>>

\* Up to StartLogSync.  A configuration that is not STABLE does not stop it:
\* the error constructed for it is not returned.
StartChange(new, oldId) ==
  /\ server.at = "idle" /\ changes < MaxChanges
  /\ Accepts(oldId)
  /\ server' = [at |-> "sync", new |-> new, savedTerm |-> node.term, jointId |-> 0, ok |-> FALSE]
  /\ node' = [node EXCEPT !.cc = StartLogSync(@, node.commitIndex, new)]
  /\ overlapped' = (overlapped \/ node.cc.state # "STABLE")
  /\ changes' = changes + 1
  /\ UNCHANGED <<sent, leaders, kept>>

CancelSync ==
  /\ node' = [node EXCEPT !.cc = CancelLogSync(@)]
  /\ ReturnError

SyncTermChanged ==
  /\ server.at = "sync" /\ ~SyncComplete(node.cc)
  /\ node.term # server.savedTerm
  /\ CancelSync
  /\ UNCHANGED <<sent, changes, leaders, overlapped, kept>>

\* wait_for ends without progress; its time may be over at any moment
SyncTimeout ==
  /\ server.at = "sync" /\ ~SyncComplete(node.cc)
  /\ node.term = server.savedTerm /\ ~SyncProgress(node.cc)
  /\ CancelSync
  /\ UNCHANGED <<sent, changes, leaders, overlapped, kept>>

\* The joint configuration gets the term of now, whatever the node has become
AppendJoint ==
  /\ server.at = "sync" /\ SyncComplete(node.cc)
  /\ node' = AppendEntry(node, Configuration(node.term, Joint(node.cc.current.prev, server.new)))
  /\ server' = [server EXCEPT !.at = "check", !.jointId = LogSize(node)]
  /\ UNCHANGED <<sent, changes, leaders, overlapped, kept>>

\* Mutation: it is enough that the latest configuration is committed
FinalCommittedAny == ConfigurationCommitted(node)

FinalCommitted == node.cc.id > server.jointId /\ ConfigurationCommitted(node)

\* The predicate of the wait, and what is done when it holds
CheckFinal ==
  /\ server.at = "check"
  /\ IF FinalCommitted THEN ReturnOk
     ELSE IF node.term # server.savedTerm THEN ReturnError
     ELSE server' = [server EXCEPT !.at = "falling asleep"]
  /\ UNCHANGED <<node, sent, changes, leaders, overlapped, kept>>

Sleep ==
  /\ server.at = "falling asleep"
  /\ server' = [server EXCEPT !.at = "asleep"]
  /\ UNCHANGED <<node, sent, changes, leaders, overlapped, kept>>

\* Mutation: nobody is woken
NotNotified == server

\* m_membership_sync.notify_one()
Notified == IF server.at = "asleep" THEN [server EXCEPT !.at = "check"] ELSE server

-----------------------------------------------------------------------------
(* Heartbeats, on the strand, and their replies, on the client thread *)

Peers == ServerAddresses(node.cc) \ {Self}

\* A node that is alone commits in the callback itself
HeartbeatCallback ==
  /\ node.state = "LEADER"
  /\ sent' = [p \in Server |-> IF p \in Peers /\ sent[p] = 0 THEN LogSize(node) ELSE sent[p]]
  /\ IF ServerAddresses(node.cc) = {Self}
     THEN /\ node' = UpdateCommitIndex(node)
          /\ server' = IF ConfigurationCommitted(Commit(node)) THEN Notified ELSE server
     ELSE UNCHANGED <<node, server>>
  /\ UNCHANGED <<changes, leaders, overlapped, kept>>

Acknowledged(p) ==
  [node EXCEPT !.matchIndex[p] = sent[p] - 1,
               !.cc = UpdateSyncProgress(@, p, sent[p] - 1)]

\* ProcessAppendEntriesServerResponse, success.  The next index needs no state:
\* the call carries the log to its end.
Reply(p) ==
  /\ node.state = "LEADER" /\ sent[p] # 0
  /\ \E acked \in {Acknowledged(p)} : \E committed \in {Commit(acked)} :
       /\ node' = Advance(committed)
       /\ server' = IF \/ ConfigurationCommitted(committed)
                       \/ committed.cc.state = "SYNC" /\ SyncProgress(committed.cc)
                    THEN Notified ELSE server
       /\ sent' = IF node'.state = "LEADER" THEN [sent EXCEPT ![p] = 0]
                  ELSE [q \in Server |-> 0]
  /\ UNCHANGED <<changes, leaders, overlapped, kept>>

\* A peer that is down, or does not have the entry before the ones sent
CallFails(p) ==
  /\ sent[p] # 0 /\ p \notin Live
  /\ sent' = [sent EXCEPT ![p] = 0]
  /\ UNCHANGED <<node, server, changes, leaders, overlapped, kept>>

-----------------------------------------------------------------------------
(* Leadership.  Replies to calls of an earlier term are dropped. *)

\* A reply with a higher term on the client thread, or the lease's expiry on
\* the strand, which goes back to the term of the start, 0
LoseLeadership(term) ==
  /\ node.state = "LEADER" /\ leaders < MaxLeaders
  /\ leaders' = leaders + 1
  /\ node' = ResetToFollower(node, term)
  /\ sent' = [p \in Server |-> 0]
  /\ UNCHANGED <<server, changes, overlapped, kept>>

PromoteToLeader(nd) == AppendEntry([nd EXCEPT !.state = "LEADER"], NoOp(nd.term))

\* A node that a committed configuration leaves out does not stand; one that
\* is alone wins at once
ElectionCallback ==
  /\ node.state # "LEADER" /\ leaders < MaxLeaders
  /\ ~(ConfigurationCommitted(node) /\ ~KnownServer(node.cc, Self))
  /\ leaders' = leaders + 1
  /\ LET candidate == [node EXCEPT !.state = "CANDIDATE", !.term = @ + 1]
     IN  node' = IF ServerAddresses(node.cc) = {Self} THEN PromoteToLeader(candidate) ELSE candidate
  /\ UNCHANGED <<server, sent, changes, overlapped, kept>>

\* The last vote of a majority arrives
WinElection ==
  /\ node.state = "CANDIDATE"
  /\ node' = PromoteToLeader(node)
  /\ UNCHANGED <<server, sent, changes, leaders, overlapped, kept>>

\* ProcessAppendEntriesClientRequest of a leader with a higher term, which has
\* its own NO_OP entry at index i: the server thread must be free for it
FollowLeader(i) ==
  /\ server.at = "idle" /\ leaders < MaxLeaders
  /\ i \in node.commitIndex + 1..LogSize(node)
  /\ leaders' = leaders + 1
  /\ LET truncated == [node EXCEPT !.log = SubSeq(@, 1, i), !.cc = TruncateSuffix(@, i)]
         before == IF i < LogSize(node) THEN truncated ELSE node
     IN  /\ node' = AppendEntry(ResetToFollower(before, node.term + 1), NoOp(node.term + 1))
         /\ kept' = (kept \/ i \in DOMAIN before.cc.known)
  /\ sent' = [p \in Server |-> 0]
  /\ UNCHANGED <<server, changes, overlapped>>

-----------------------------------------------------------------------------
Init ==
  /\ node = InitialNode
  /\ server = IdleServer
  /\ sent = [p \in Server |-> 0]
  /\ changes = 0 /\ leaders = 0
  /\ overlapped = FALSE /\ kept = FALSE

ServerThread == SyncTermChanged \/ SyncTimeout \/ AppendJoint \/ CheckFinal \/ Sleep

Next ==
  \/ \E oldId \in DOMAIN node.cc.known \union {GetConfiguration} :
       Refuse(oldId) \/ \E new \in Requests : StartChange(new, oldId)
  \/ ServerThread
  \/ HeartbeatCallback
  \/ \E p \in Server : Reply(p) \/ CallFails(p)
  \/ \E term \in {node.term + 1, 0} : LoseLeadership(term)
  \/ ElectionCallback \/ WinElection
  \/ \E i \in 0..LogSize(node) : FollowLeader(i)

\* The threads of the node go on and a leader sends its heartbeats; a live
\* peer's answer arrives.  Nothing is said of the other peers.
Fairness ==
  /\ WF_vars(ServerThread) /\ WF_vars(HeartbeatCallback)
  /\ \A p \in Live : WF_vars(Reply(p))

Spec == Init /\ [][Next]_vars /\ Fairness

-----------------------------------------------------------------------------
(* Properties *)

Entry == [term : Nat, members : Members]

\* Types
TypeOK ==
  /\ node.term \in Nat /\ node.state \in {"LEADER", "FOLLOWER", "CANDIDATE"}
  /\ node.log \in Seq(Entry) /\ node.commitIndex \in 0..LogSize(node) - 1
  /\ node.matchIndex \in [Server -> Nat]
  /\ IsClusterConfiguration(node.cc)
  /\ server \in [at : {"idle", "sync", "check", "falling asleep", "asleep"}, new : SUBSET Server,
                 savedTerm : Nat, jointId : Nat, ok : BOOLEAN]
  /\ sent \in [Server -> Nat]
  /\ changes \in 0..MaxChanges /\ leaders \in 0..MaxLeaders
  /\ overlapped \in BOOLEAN /\ kept \in BOOLEAN

ConfigurationIndices == {i \in 0..LogSize(node) - 1 : EntryAt(node, i).members # NoMembers}

\* j is the configuration entry after i
Follows(i, j) == i < j /\ \A k \in ConfigurationIndices : ~(i < k /\ k < j)

\* Configurations of the log change one step at a time: from stable to joint
\* with the same members before, and from joint to its members after.  A change
\* that was started in a configuration that was not STABLE breaks this, and so
\* does a joint configuration that is followed although its entry was removed.
OneStepAtATime ==
  TypeOK /\ (~overlapped /\ ~kept => \A i, j \in ConfigurationIndices : Follows(i, j) =>
    LET a == EntryAt(node, i).members
        b == EntryAt(node, j).members
    IN  IF a.next = {} THEN b.next # {} /\ b.prev = a.prev ELSE b = Stable(a.next))

Stored(i) == {Self} \union {p \in Server : node.matchIndex[p] >= i}

\* The final configuration is in the log only when the joint one before it is on
\* a majority of the old and on a majority of the new members
JointOnBothMajorities ==
  \A i, j \in ConfigurationIndices \ 0..3 :
    LET a == EntryAt(node, i).members IN
      Follows(i, j) /\ a.next # {} /\ EntryAt(node, j).members.next = {} =>
        Majority(Stored(i), a.prev) /\ Majority(Stored(i), a.next)

\* A request is answered with ok only when exactly the members it asked for
\* are the configuration of a committed entry that came after its joint entry
OkMeansCommitted ==
  server.ok => \E i \in server.jointId + 1..node.commitIndex :
                           EntryAt(node, i).members = Stable(server.new)

\* The node works with the last configuration of its log, unless the entry at
\* the index where a log was cut was one (which m_configurations keeps)
ConfigurationOfLog ==
  ~kept =>
    /\ node.cc.id \in ConfigurationIndices
    /\ EntryAt(node, node.cc.id).members = node.cc.current
    /\ \A i \in ConfigurationIndices : i <= node.cc.id

\* Counts on a server that has answered, is behind, and will not answer again
Stalled ==
  /\ server.at = "sync" /\ SyncProgress(node.cc)
  /\ \E p \in DOMAIN node.cc.sync.diff :
       node.cc.sync.diff[p] < node.cc.sync.index /\ p \notin Live \intersect Peers

\* SetConfiguration returns as long as the node stays leader: a notification
\* that is lost before the wait is made up for by the next heartbeat's replies.
\* The one other exception is that it waits, with no timeout once there has
\* been progress, for a server that does not answer any more.
RequestReturns == (server.at # "idle") ~> (server.at = "idle" \/ node.state # "LEADER" \/ Stalled)

=============================================================================
