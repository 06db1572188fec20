----------------------------- MODULE Consensus -----------------------------
(***************************************************************************)
(* Leader election and log replication of ConsensusModule, between nodes   *)
(* that agree on one STABLE configuration.  Each handler and each timer    *)
(* callback is one action.  A node is one record: what the process holds   *)
(* in memory and, in its fields log and metadata, what is on its disk.     *)
(*                                                                         *)
(* The initial state is the one the README's usage section produces: the   *)
(* node created with -l is LEADER in term 0, the others are its FOLLOWERs, *)
(* and the four entries of the bootstrap and of the first reconfiguration  *)
(* are committed everywhere.                                               *)
(***************************************************************************)
EXTENDS Integers, FiniteSets, Sequences

CONSTANTS
  Server,           \* addresses of the nodes
  Bootstrap,        \* the node whose command line has -l (docker-compose.yaml)
  Nil,              \* the empty address ""
  NoTimer,          \* an election timer that is not armed
  MaxElections,     \* bound: elections that candidates start
  MaxHeartbeats,    \* bound: heartbeats that leaders send
  MaxOutstanding,   \* bound: AppendEntries calls in flight between two nodes
  MaxCrashes        \* bound: crashes of nodes

ASSUME ServerAssumption ==
  /\ IsFiniteSet(Server)
  /\ Bootstrap \in Server
  /\ Nil \notin Server

ASSUME NoTimerAssumption == NoTimer \notin Int

ASSUME BoundAssumption ==
  /\ MaxElections \in Nat /\ MaxHeartbeats \in Nat /\ MaxCrashes \in Nat
  /\ MaxOutstanding \in Nat \ {0}

VARIABLES
  node,         \* node[n]: the record of node n
  voteCalls,    \* RequestVote calls in flight
  appendCalls,  \* AppendEntries calls in flight
  ballots,      \* history: every vote cast
  elected,      \* history: every promotion, with the votes that were counted
  elections,    \* number of elections started so far
  heartbeats,   \* number of heartbeats sent so far
  crashes       \* number of crashes so far

vars == <<node, voteCalls, appendCalls, ballots, elected, elections, heartbeats, crashes>>

-----------------------------------------------------------------------------
(* A node *)

\* by stands for what the entry holds: only node by creates entries of this kind
Entry == [term : Nat, by : Server]

Metadata == [term : Nat, vote : Server \cup {Nil}]

\* An index of the log for each node, of next_index and match_index
PeerIndex == [Server -> Int]

Node == [
  up             : BOOLEAN,
  term           : Nat,
  state          : {"LEADER", "CANDIDATE", "FOLLOWER"},
  vote           : Server \cup {Nil},
  votesReceived  : Nat,
  voters         : SUBSET Server,   \* history: whose votes votesReceived counts
  commitIndex    : Int,
  lastApplied    : Int,
  nextIndex      : PeerIndex,
  matchIndex     : PeerIndex,
  servers        : SUBSET Server,   \* ServerAddresses() of the STABLE configuration
  configId       : Int,
  configsKnown   : BOOLEAN,         \* m_configurations is not empty
  electionTimer  : Nat \cup {NoTimer},  \* term bound to the armed ElectionCallback
  heardLeader    : BOOLEAN,         \* now <= m_election_deadline
  startupTerm    : Nat,             \* term bound to the lease timer's callback
  leaseHolder    : BOOLEAN,         \* also: the lease timer is armed
  leaseCallback  : BOOLEAN,         \* the expired lease's callback is on the strand
  renewLease     : BOOLEAN,
  respondingPeers: SUBSET Server,
  log            : Seq(Entry),
  metadata       : Metadata]

LogSize(nd) == Len(nd.log)

LastLogIndex(nd) == LogSize(nd) - 1

LastLogTerm(nd) == IF LogSize(nd) > 0 THEN nd.log[LogSize(nd)].term ELSE -1

StoreState(nd) == [nd EXCEPT !.metadata = [term |-> nd.term, vote |-> nd.vote]]

\* Mutation: the timer is armed with the term before
ScheduleElectionLate(nd, term) == [nd EXCEPT !.electionTimer = term - 1]

ScheduleElection(nd, term) == [nd EXCEPT !.electionTimer = term]

ResetToFollower(nd, term) ==
  ScheduleElection(
    StoreState([nd EXCEPT !.state = "FOLLOWER", !.renewLease = FALSE,
                          !.respondingPeers = {}, !.leaseHolder = FALSE, !.term = term, !.vote = Nil,
                          !.votesReceived = 0, !.voters = {}]),
    term)

\* The heartbeat timer is armed exactly while a node is LEADER
PromoteToLeader(n, nd) ==
  [nd EXCEPT !.state = "LEADER", !.votesReceived = 0, !.electionTimer = NoTimer,
             !.log = Append(@, [term |-> nd.term, by |-> n])]

\* CheckQuorum of a configuration that is not JOINT: the votes are counted,
\* not looked up in the configuration
CheckQuorum(nd, peerVotes) == Cardinality(peerVotes) * 2 > Cardinality(nd.servers)

KnownServer(nd, n) == n \in nd.servers

Peers(n, nd) == nd.servers \ {n}

\* The memory of a process that is not running; log and metadata are on disk
Crashed(nd) ==
  [nd EXCEPT !.up = FALSE, !.term = 0, !.state = "CANDIDATE", !.vote = Nil,
             !.votesReceived = 0, !.voters = {}, !.commitIndex = -1,
             !.lastApplied = -1, !.nextIndex = [p \in Server |-> 0],
             !.matchIndex = [p \in Server |-> 0], !.servers = {},
             !.configId = -1, !.configsKnown = FALSE,
             !.electionTimer = NoTimer, !.heardLeader = FALSE,
             !.startupTerm = 0, !.leaseHolder = FALSE, !.leaseCallback = FALSE,
             !.renewLease = FALSE, !.respondingPeers = {}]

-----------------------------------------------------------------------------
(* Remote calls.  A call is a "request" until the peer's server thread has *)
(* handled it and a "reply" until the caller's client thread has.  The     *)
(* request of a process that died is an "orphan": its reply goes nowhere.  *)

Phase == {"request", "orphan", "reply"}

VoteCall == [from : Server, to : Server, term : Nat, lastLogIndex : Int,
             lastLogTerm : Int, phase : Phase, replyTerm : Nat, ok : BOOLEAN]

AppendCall == [from : Server, to : Server, slot : 1..MaxOutstanding, term : Nat,
               prevLogIndex : Nat \cup {-1}, prevLogTerm : Int, entries : Seq(Entry),
               leaderCommit : Int, phase : Phase, replyTerm : Nat, ok : BOOLEAN]

RequestVote(n, nd, p) ==
  [from |-> n, to |-> p, term |-> nd.term, lastLogIndex |-> LastLogIndex(nd),
   lastLogTerm |-> LastLogTerm(nd), phase |-> "request", replyTerm |-> 0, ok |-> FALSE]

FreeSlots(n, p) ==
  {s \in 1..MaxOutstanding : ~ \E c \in appendCalls : c.from = n /\ c.to = p /\ c.slot = s}

AppendEntries(n, nd, p) ==
  LET next == nd.nextIndex[p] IN
  [from |-> n, to |-> p, slot |-> CHOOSE s \in FreeSlots(n, p) : TRUE,
   term |-> nd.term, prevLogIndex |-> next - 1,
   prevLogTerm |-> IF next - 1 >= 0 THEN nd.log[next].term ELSE -1,
   entries |-> SubSeq(nd.log, next + 1, LogSize(nd)),
   leaderCommit |-> nd.commitIndex, phase |-> "request", replyTerm |-> 0, ok |-> FALSE]

\* What the server thread leaves in flight once it has handled call c
Replied(c, term, ok) ==
  IF c.phase = "orphan" THEN {}
  ELSE {[c EXCEPT !.phase = "reply", !.replyTerm = term, !.ok = ok]}

\* Connections of a process that dies: requests to it fail, requests it sent
\* may still be handled, replies to it are lost
DropCalls(calls, n) ==
  {IF c.from = n THEN [c EXCEPT !.phase = "orphan"] ELSE c :
     c \in {d \in calls : /\ d.from = n => d.phase # "reply"
                          /\ d.to = n => d.phase = "reply"}}

\* Node n dies holding nd: a crash, or an exception no thread catches
Die(n, nd) ==
  /\ node' = [node EXCEPT ![n] = Crashed(nd)]
  /\ voteCalls' = DropCalls(voteCalls, n)
  /\ appendCalls' = DropCalls(appendCalls, n)
  /\ UNCHANGED <<ballots, elected>>

\* Node n casts its vote of term t for a candidate
Cast(t, n, candidate) ==
  ballots' = ballots \cup {[term |-> t, voter |-> n, candidate |-> candidate]}

Elect(n, nd) == elected' = elected \cup {[term |-> nd.term, leader |-> n, voters |-> nd.voters]}

-----------------------------------------------------------------------------
(* Timer callbacks, on the strand of the node *)

BecomeCandidate(n, nd) ==
  StoreState([nd EXCEPT !.state = "CANDIDATE", !.term = @ + 1, !.vote = n,
                        !.votesReceived = 1, !.voters = {n}])

\* The election timer fires and ElectionCallback(term) has nothing to do:
\* the node is LEADER, or its term is not the one the timer was armed with
ElectionCallbackIgnored(n) ==
  LET nd == node[n] IN
  /\ nd.up /\ nd.electionTimer # NoTimer
  /\ nd.state = "LEADER" \/ nd.electionTimer # nd.term
  /\ node' = [node EXCEPT ![n].electionTimer = NoTimer]
  /\ UNCHANGED <<voteCalls, appendCalls, ballots, elected, elections, heartbeats, crashes>>

ElectionCallback(n) ==
  LET nd == node[n]
      candidate == BecomeCandidate(n, nd)
  IN
  /\ nd.up /\ nd.electionTimer # NoTimer
  /\ nd.state # "LEADER" /\ nd.electionTimer = nd.term
  /\ \* a node outside its committed configuration only re-arms the timer
     ~ (nd.commitIndex >= nd.configId /\ ~KnownServer(nd, n))
  /\ elections < MaxElections
  /\ elections' = elections + 1
  /\ Cast(candidate.term, n, n)
  /\ IF nd.servers = {n}
       THEN /\ node' = [node EXCEPT ![n] = PromoteToLeader(n, candidate)]
            /\ Elect(n, candidate)
            /\ UNCHANGED voteCalls
       ELSE /\ node' = [node EXCEPT ![n] = ScheduleElection(candidate, candidate.term)]
            /\ voteCalls' = voteCalls \cup {RequestVote(n, candidate, p) : p \in Peers(n, nd)}
            /\ UNCHANGED elected
  /\ UNCHANGED <<appendCalls, heartbeats, crashes>>

InRange(nd, p) == nd.nextIndex[p] \in 0..LogSize(nd)

HeartbeatInRange(n, nd) == \A p \in Peers(n, nd) : InRange(nd, p)

\* Entry() and Entries() throw for an index outside the log and no frame of
\* the strand catches it.  Peers that come before in the loop may have been
\* sent their call.
HeartbeatCallbackThrows(n) ==
  LET nd == node[n] IN
  /\ nd.up /\ nd.state = "LEADER"
  /\ ~HeartbeatInRange(n, nd)
  /\ node' = [node EXCEPT ![n] = Crashed(nd)]
  /\ voteCalls' = DropCalls(voteCalls, n)
  /\ \E before \in SUBSET {p \in Peers(n, nd) : InRange(nd, p) /\ FreeSlots(n, p) # {}} :
       appendCalls' = DropCalls(appendCalls \cup {AppendEntries(n, nd, p) : p \in before}, n)
  /\ UNCHANGED <<ballots, elected, elections, heartbeats, crashes>>

-----------------------------------------------------------------------------
(* UpdateCommitIndex *)

MatchPeers(n, nd, i) == {n} \cup {p \in nd.servers : nd.matchIndex[p] >= i}

Committable(n, nd) ==
  {i \in nd.commitIndex + 1 .. LastLogIndex(nd) :
     nd.log[i + 1].term = nd.term /\ CheckQuorum(nd, MatchPeers(n, nd, i))}

\* The highest committable index: one more for every index up to it
NewCommitIndex(n, nd) ==
  nd.commitIndex + Cardinality({i \in nd.commitIndex + 1 .. LastLogIndex(nd) :
                                  \E j \in Committable(n, nd) : i <= j})

UpdateCommitIndex(n, nd) ==
  LET committed == [nd EXCEPT !.commitIndex = NewCommitIndex(n, nd)] IN
  IF committed.commitIndex >= nd.configId /\ ~KnownServer(nd, n)
    THEN ResetToFollower(committed, nd.term + 1)
    ELSE committed

HeartbeatCallback(n) ==
  LET nd == node[n]
      sent == [nd EXCEPT !.renewLease = TRUE, !.respondingPeers = {n}]
  IN
  /\ nd.up /\ nd.state = "LEADER"
  /\ HeartbeatInRange(n, nd)
  /\ \A p \in Peers(n, nd) : FreeSlots(n, p) # {}
  /\ heartbeats < MaxHeartbeats
  /\ heartbeats' = heartbeats + 1
  /\ appendCalls' = appendCalls \cup {AppendEntries(n, nd, p) : p \in Peers(n, nd)}
  /\ node' = [node EXCEPT ![n] = IF nd.servers = {n} THEN UpdateCommitIndex(n, sent) ELSE sent]
  /\ UNCHANGED <<voteCalls, ballots, elected, elections, crashes>>

-----------------------------------------------------------------------------
(* RPC handlers of the server thread *)

\* Mutation: the terms of the last entries are not compared, and a log that
\* lacks one entry is good enough
UpToDateByLength(c, nd) == c.lastLogIndex >= LastLogIndex(nd) - 1

UpToDate(c, nd) ==
  \/ c.lastLogTerm > LastLogTerm(nd)
  \/ c.lastLogTerm = LastLogTerm(nd) /\ c.lastLogIndex >= LastLogIndex(nd)

\* Mutation: the vote is answered before it is stored
GrantVoteUnstored(nd, candidate) == ScheduleElection([nd EXCEPT !.vote = candidate], nd.term)

GrantVote(nd, candidate) ==
  ScheduleElection(StoreState([nd EXCEPT !.vote = candidate]), nd.term)

\* Mutation: a call of the node's own term resets it too
ObserveSameTerm(nd, term) == IF term >= nd.term THEN ResetToFollower(nd, term) ELSE nd

\* Mutation: a call of any other term resets the node
ObserveAnyTerm(nd, term) == IF term # nd.term THEN ResetToFollower(nd, term) ELSE nd

ObserveTerm(nd, term) == IF term > nd.term THEN ResetToFollower(nd, term) ELSE nd

\* Mutation: m_vote is not looked at
VoteGrantedTwice(c, nd) == c.term = nd.term /\ UpToDate(c, nd)

VoteGranted(c, nd) ==
  /\ c.term = nd.term
  /\ nd.vote \in {Nil, c.from}
  /\ UpToDate(c, nd)

\* A node that heard from a leader, or is one, answers without looking further
RejectRequestVote(c) ==
  LET nd == node[c.to] IN
  /\ nd.up /\ c.phase # "reply"
  /\ nd.heardLeader \/ nd.state = "LEADER"
  /\ voteCalls' = (voteCalls \ {c}) \cup Replied(c, nd.term, FALSE)
  /\ UNCHANGED <<node, appendCalls, ballots, elected, elections, heartbeats, crashes>>

\* m_election_deadline has passed; it passes when the handler looks at it, as
\* nothing else does
ProcessRequestVoteClientRequest(c) ==
  LET current == ObserveTerm([node[c.to] EXCEPT !.heardLeader = FALSE], c.term)
      granted == VoteGranted(c, current)
      after == IF granted THEN GrantVote(current, c.from) ELSE current
  IN
  /\ node[c.to].up /\ c.phase # "reply"
  /\ node[c.to].state # "LEADER"
  /\ node' = [node EXCEPT ![c.to] = after]
  /\ voteCalls' = (voteCalls \ {c}) \cup Replied(c, after.term, granted)
  /\ IF granted THEN Cast(c.term, c.to, c.from) ELSE UNCHANGED ballots
  /\ UNCHANGED <<appendCalls, elected, elections, heartbeats, crashes>>

LogsAgree(c, nd) ==
  c.prevLogIndex # -1 =>
    /\ c.prevLogIndex < LogSize(nd)
    /\ c.prevLogTerm = nd.log[c.prevLogIndex + 1].term

\* The log holds the first k entries of the call
Holds(c, nd, k) ==
  \A j \in 1..k : /\ c.prevLogIndex + 1 + j <= LogSize(nd)
                  /\ nd.log[c.prevLogIndex + 1 + j].term = c.entries[j].term

\* How many of the call's entries the log already holds
Held(c, nd) == Cardinality({k \in 1..Len(c.entries) : Holds(c, nd, k)})

Truncates(c, nd) ==
  /\ Held(c, nd) < Len(c.entries)
  /\ c.prevLogIndex + 1 + Held(c, nd) < LogSize(nd)

TruncatedLog(c, nd) == SubSeq(nd.log, 1, c.prevLogIndex + 1 + Held(c, nd))

\* Mutation: entries the log already holds are appended again
MergedLogRepeats(c, nd) == nd.log \o c.entries

MergedLog(c, nd) ==
  IF Held(c, nd) = Len(c.entries) THEN nd.log
  ELSE TruncatedLog(c, nd) \o SubSeq(c.entries, Held(c, nd) + 1, Len(c.entries))

\* The follower commits and applies what its leader has committed
FollowerCommit(c, nd) ==
  IF c.leaderCommit <= nd.commitIndex THEN nd
  ELSE LET newCommit == IF c.leaderCommit < LogSize(nd) THEN c.leaderCommit ELSE LogSize(nd)
       IN [nd EXCEPT !.commitIndex = newCommit,
                     !.lastApplied = IF newCommit > @ THEN newCommit ELSE @]

HearLeader(nd, term) == [ScheduleElection(nd, term) EXCEPT !.heardLeader = TRUE]

FollowTerm(c, nd) ==
  IF nd.state # "FOLLOWER" THEN ResetToFollower(nd, c.term) ELSE HearLeader(nd, c.term)

\* ClusterConfiguration::TruncateSuffix dereferences rbegin() of m_configurations,
\* which is empty after a restart: the process dies with its log truncated
ConfigurationLost(c, nd) == Truncates(c, nd) /\ ~nd.configsKnown

\* The handler reads an entry past the end of the log to apply it
CommitsPastLog(c, nd) ==
  LET size == Len(MergedLog(c, nd)) IN
  c.leaderCommit > nd.commitIndex /\ c.leaderCommit >= size /\ nd.lastApplied < size

ProcessAppendEntriesThrows(c) ==
  LET current == ObserveTerm(node[c.to], c.term)
      log == IF ConfigurationLost(c, current) THEN TruncatedLog(c, current)
             ELSE MergedLog(c, current)
  IN
  /\ current.up /\ c.phase # "reply"
  /\ c.term = current.term /\ LogsAgree(c, current)
  /\ ConfigurationLost(c, current) \/ CommitsPastLog(c, current)
  /\ Die(c.to, [FollowTerm(c, current) EXCEPT !.log = log])
  /\ UNCHANGED <<elections, heartbeats, crashes>>

ProcessAppendEntriesClientRequest(c) ==
  LET current == ObserveTerm(node[c.to], c.term)
      follower == FollowTerm(c, current)
      merged == [follower EXCEPT !.log = MergedLog(c, current)]
      accepted == c.term = current.term /\ LogsAgree(c, current)
      after == IF accepted THEN FollowerCommit(c, merged)
               ELSE IF c.term = current.term THEN follower ELSE current
  IN
  /\ current.up /\ c.phase # "reply"
  /\ accepted => ~ConfigurationLost(c, current) /\ ~CommitsPastLog(c, current)
  /\ node' = [node EXCEPT ![c.to] = HearLeader(after, c.term)]
  /\ appendCalls' = (appendCalls \ {c}) \cup Replied(c, after.term, accepted)
  /\ UNCHANGED <<voteCalls, ballots, elected, elections, heartbeats, crashes>>

-----------------------------------------------------------------------------
(* Reply handlers of the client thread *)

\* A granted vote of the term the call was sent in counts, whatever the term
\* of the node is by now
CountVote(c, nd) == [nd EXCEPT !.votesReceived = @ + 1, !.voters = @ \cup {c.to}]

WinsElection(nd) == nd.votesReceived * 2 > Cardinality(nd.servers)

ProcessRequestVoteServerResponse(c) ==
  LET n == c.from
      nd == node[n]
      counted == CountVote(c, nd)
      become(after) == node' = [node EXCEPT ![n] = after] /\ UNCHANGED elected
  IN
  /\ nd.up /\ c.phase = "reply"
  /\ IF nd.state # "CANDIDATE" THEN become(nd)
     ELSE IF c.replyTerm > c.term THEN become(ResetToFollower(nd, c.replyTerm))
     ELSE IF c.replyTerm < c.term \/ ~c.ok THEN become(nd)
     ELSE IF WinsElection(counted)
       THEN /\ node' = [node EXCEPT ![n] = PromoteToLeader(n, counted)]
            /\ Elect(n, counted)
     ELSE become(counted)
  /\ voteCalls' = voteCalls \ {c}
  /\ UNCHANGED <<appendCalls, ballots, elections, heartbeats, crashes>>

\* m_responding_peers is not read again until the next heartbeat resets it
RenewLease(c, nd) ==
  LET responding == nd.respondingPeers \cup {c.to} IN
  IF ~nd.renewLease THEN nd
  ELSE IF CheckQuorum(nd, responding)
    THEN [nd EXCEPT !.leaseHolder = TRUE, !.renewLease = FALSE, !.respondingPeers = {}]
  ELSE [nd EXCEPT !.respondingPeers = responding]

\* Mutation: the next index is one too high
AdvancePeerSkips(c, nd) ==
  LET next == nd.nextIndex[c.to] + Len(c.entries) + 1 IN
  [nd EXCEPT !.nextIndex[c.to] = next, !.matchIndex[c.to] = next - 2]

\* The indices move on from what they are now, not from what the request held
AdvancePeer(c, nd) ==
  LET next == nd.nextIndex[c.to] + Len(c.entries) IN
  [nd EXCEPT !.nextIndex[c.to] = next, !.matchIndex[c.to] = next - 1]

BackUpPeer(c, nd) == [nd EXCEPT !.nextIndex[c.to] = @ - 1]

AfterAppendReply(c, nd) ==
  IF nd.state # "LEADER" \/ c.replyTerm # nd.term THEN nd
  ELSE IF c.ok THEN UpdateCommitIndex(c.from, AdvancePeer(c, RenewLease(c, nd)))
  ELSE BackUpPeer(c, nd)

\* UpdateCommitIndex asks Entries() for a range that starts past the log
CommitIndexPastLog(c, nd) ==
  /\ nd.state = "LEADER" /\ c.replyTerm = nd.term /\ c.ok
  /\ nd.commitIndex > LastLogIndex(nd)

\* The caller first looks whether the peer has moved on to a later term
CallerAtReply(c) ==
  IF c.replyTerm > c.term THEN ResetToFollower(node[c.from], c.replyTerm) ELSE node[c.from]

ProcessAppendEntriesServerResponse(c) ==
  LET current == CallerAtReply(c) IN
  /\ node[c.from].up /\ c.phase = "reply"
  /\ IF CommitIndexPastLog(c, current)
       THEN Die(c.from, current)
       ELSE /\ node' = [node EXCEPT ![c.from] = AfterAppendReply(c, current)]
            /\ appendCalls' = appendCalls \ {c}
            /\ UNCHANGED <<voteCalls, ballots, elected>>
  /\ UNCHANGED <<elections, heartbeats, crashes>>

-----------------------------------------------------------------------------
(* The environment of the handlers: time, the network, the process *)

\* The lease timer fires: its callback is queued on the strand, where Cancel
\* no longer reaches it
LeaseExpires(n) ==
  /\ node[n].leaseHolder /\ ~node[n].leaseCallback
  /\ node' = [node EXCEPT ![n].leaseCallback = TRUE]
  /\ UNCHANGED <<voteCalls, appendCalls, ballots, elected, elections, heartbeats, crashes>>

LeaseCallback(n) ==
  /\ node[n].leaseCallback
  /\ node' = [node EXCEPT ![n] = [ResetToFollower(@, @.startupTerm) EXCEPT !.leaseCallback = FALSE]]
  /\ UNCHANGED <<voteCalls, appendCalls, ballots, elected, elections, heartbeats, crashes>>

\* The client thread drops a call whose status is not OK.  A RequestVote call
\* that is lost is one nobody handles any more.
LoseAppendCall(c) ==
  /\ appendCalls' = appendCalls \ {c}
  /\ UNCHANGED <<node, voteCalls, ballots, elected, elections, heartbeats, crashes>>

Crash(n) ==
  /\ node[n].up /\ crashes < MaxCrashes
  /\ crashes' = crashes + 1
  /\ Die(n, node[n])
  /\ UNCHANGED <<elections, heartbeats>>

\* GlobalCtxManager, StateMachineInit and, for the node with -l,
\* InitializeConfiguration.  LatestConfiguration() returns the first
\* configuration of the newest page that has one: the bootstrap's own, at index 1
StateMachineInit(n, nd) ==
  [nd EXCEPT !.up = TRUE, !.term = nd.metadata.term, !.vote = nd.metadata.vote,
             !.startupTerm = nd.metadata.term,
             !.servers = {Bootstrap}, !.configId = 1,
             !.matchIndex = [p \in Server |-> IF p \in {Bootstrap} \ {n} THEN -1 ELSE 0]]

Restart(n) ==
  LET nd == StateMachineInit(n, node[n]) IN
  /\ ~node[n].up
  /\ IF n = Bootstrap
       THEN /\ node' = [node EXCEPT ![n] = PromoteToLeader(n, nd)]
            /\ Elect(n, nd)
       ELSE /\ node' = [node EXCEPT ![n] = nd]
            /\ UNCHANGED elected
  /\ UNCHANGED <<voteCalls, appendCalls, ballots, elections, heartbeats, crashes>>

-----------------------------------------------------------------------------
(* The specification *)

BootLog == [i \in 1..4 |-> [term |-> 0, by |-> Bootstrap]]

BootNode(n) ==
  LET leads == n = Bootstrap IN
  [up |-> TRUE, term |-> 0, state |-> IF leads THEN "LEADER" ELSE "FOLLOWER",
   vote |-> Nil, votesReceived |-> 0, voters |-> {},
   commitIndex |-> 3, lastApplied |-> IF leads THEN -1 ELSE 3,
   nextIndex |-> [p \in Server |-> IF leads /\ p # n THEN 4 ELSE 0],
   matchIndex |-> [p \in Server |-> IF leads /\ p # n THEN 3 ELSE 0],
   servers |-> Server, configId |-> 3, configsKnown |-> TRUE,
   electionTimer |-> IF leads THEN NoTimer ELSE 0, heardLeader |-> ~leads,
   startupTerm |-> 0, leaseHolder |-> leads, leaseCallback |-> FALSE,
   renewLease |-> FALSE, respondingPeers |-> {},
   log |-> BootLog, metadata |-> [term |-> 0, vote |-> Nil]]

Init ==
  /\ node = [n \in Server |-> BootNode(n)]
  /\ voteCalls = {} /\ appendCalls = {}
  /\ ballots = {}
  /\ elected = {[term |-> 0, leader |-> Bootstrap, voters |-> {}]}
  /\ elections = 0 /\ heartbeats = 0 /\ crashes = 0

\* Steps every environment allows
HandlerStep ==
  \/ \E n \in Server : ElectionCallback(n) \/ HeartbeatCallback(n)
  \/ \E c \in voteCalls : RejectRequestVote(c) \/ ProcessRequestVoteClientRequest(c)
  \/ \E c \in appendCalls : ProcessAppendEntriesClientRequest(c) \/ LoseAppendCall(c)

\* The caller is still in the term it sent the call in
Prompt(c) == node[c.from].term = c.term

\* No reply outlives the term it was asked for, no lease expires, no process
\* dies (NoHandlerThrows: nothing a handler meets here would kill it)
PromptNext ==
  \/ HandlerStep
  \/ \E c \in voteCalls : Prompt(c) /\ ProcessRequestVoteServerResponse(c)
  \/ \E c \in appendCalls : /\ Prompt(c) /\ ~CommitIndexPastLog(c, CallerAtReply(c))
                           /\ ProcessAppendEntriesServerResponse(c)

Next ==
  \/ HandlerStep
  \/ \E c \in voteCalls : ProcessRequestVoteServerResponse(c)
  \/ \E c \in appendCalls : \/ ProcessAppendEntriesServerResponse(c)
                           \/ ProcessAppendEntriesThrows(c)
  \/ \E n \in Server : \/ ElectionCallbackIgnored(n) \/ HeartbeatCallbackThrows(n)
                       \/ LeaseExpires(n) \/ LeaseCallback(n)
                       \/ Crash(n) \/ Restart(n)

Spec == Init /\ [][Next]_vars

PromptSpec == Init /\ [][PromptNext]_vars

-----------------------------------------------------------------------------
(* Properties *)

\* The types of the variables, which the bounds of the counters are part of
TypeOK ==
  /\ node \in [Server -> Node]
  /\ voteCalls \subseteq VoteCall
  /\ appendCalls \subseteq AppendCall
  /\ ballots \subseteq [term : Nat, voter : Server, candidate : Server]
  /\ elected \subseteq [term : Nat, leader : Server, voters : SUBSET Server]
  /\ elections \in 0..MaxElections
  /\ heartbeats \in 0..MaxHeartbeats
  /\ crashes \in 0..MaxCrashes

\* consensus_module.h:44: a term has at most one LEADER, ever
OneLeaderPerTerm ==
  \A e, f \in elected : e.term = f.term => e.leader = f.leader

\* Two logs that hold entries of one term at one index are equal up to there:
\* what the prevLogTerm comparison of the AppendEntries handler rests on
LogMatching ==
  \A m, n \in Server : \A i \in DOMAIN node[m].log \cap DOMAIN node[n].log :
    node[m].log[i].term = node[n].log[i].term =>
      SubSeq(node[m].log, 1, i) = SubSeq(node[n].log, 1, i)

\* Two nodes never commit different entries at one index
CommittedLogsAgree ==
  \A m, n \in Server : \A i \in 0 .. node[m].commitIndex :
    i <= node[n].commitIndex =>
      /\ i < LogSize(node[m]) /\ i < LogSize(node[n])
      /\ node[m].log[i + 1] = node[n].log[i + 1]

\* consensus_module.h:342: the match index of a LEADER's peer is an index up
\* to which the peer's log is the LEADER's
MatchIndexReplicated ==
  \A n \in Server : \A p \in Peers(n, node[n]) :
    node[n].state = "LEADER" /\ node[p].term = node[n].term =>
      LET upTo == node[n].matchIndex[p] + 1 IN
      /\ upTo <= LogSize(node[p]) /\ upTo <= LogSize(node[n])
      /\ SubSeq(node[p].log, 1, upTo) = SubSeq(node[n].log, 1, upTo)

\* The term and the vote a process works with are the ones a restart would find
DurableVote ==
  \A n \in Server : node[n].up =>
    node[n].metadata = [term |-> node[n].term, vote |-> node[n].vote]

\* No heartbeat, no AppendEntries request and no reply to one makes its handler
\* read the log outside its bounds: the indices a leader keeps and the commit
\* index it sends stay inside the logs they are used on
NoHandlerThrows ==
  /\ \A n \in Server : node[n].state = "LEADER" => HeartbeatInRange(n, node[n])
  /\ \A c \in appendCalls :
       IF c.phase = "reply" THEN ~CommitIndexPastLog(c, CallerAtReply(c))
       ELSE LET current == ObserveTerm(node[c.to], c.term) IN
            c.term = current.term /\ LogsAgree(c, current) =>
              ~ConfigurationLost(c, current) /\ ~CommitsPastLog(c, current)

\* What a node has committed is in the log of every LEADER of its term or a
\* later one: what the log comparison of the RequestVote handler is for
LeaderCompleteness ==
  \A m, n \in Server : node[n].state = "LEADER" /\ node[n].term >= node[m].term =>
    \A i \in 0 .. node[m].commitIndex :
      i < LogSize(node[n]) /\ i < LogSize(node[m]) /\ node[n].log[i + 1] = node[m].log[i + 1]

\* What a running node has committed stays committed, and no leader, of
\* whatever term, makes the AppendEntries handler cut or change it in the log
CommittedKept ==
  [][\A n \in Server : node[n].up /\ node'[n].up =>
       LET size == node[n].commitIndex + 1 IN
       /\ node'[n].commitIndex >= node[n].commitIndex
       /\ LogSize(node'[n]) >= size
       /\ SubSeq(node'[n].log, 1, size) = SubSeq(node[n].log, 1, size)]_vars

\* A node never returns to a term it has left
TermMonotonic ==
  [][\A n \in Server : node'[n].term >= node[n].term]_vars

-----------------------------------------------------------------------------
(* Why PromptSpec keeps OneLeaderPerTerm: the parts of an inductive invariant *)

\* Every node runs and has the whole cluster in its configuration
Settled == \A n \in Server : node[n].up /\ node[n].servers = Server

\* A ballot for another node is the vote its caster still holds in that term,
\* as a FOLLOWER; a node that cast one for itself and holds it is not a FOLLOWER
BallotsHeld ==
  \A b \in ballots :
    LET nd == node[b.voter] IN
    /\ 0 < b.term /\ b.term <= nd.term
    /\ b.term = nd.term /\ b.candidate # b.voter =>
         nd.vote = b.candidate /\ nd.state = "FOLLOWER"

\* A node gives at most one other node its vote of a term
OneBallot ==
  \A b, d \in ballots :
    /\ b.term = d.term /\ b.voter = d.voter
    /\ b.candidate # b.voter /\ d.candidate # d.voter
    => b.candidate = d.candidate

\* A CANDIDATE votes for itself and counts each vote it got in its term once
VotesCounted ==
  \A n \in Server : node[n].state = "CANDIDATE" =>
    /\ node[n].vote = n
    /\ node[n].votesReceived = Cardinality(node[n].voters)
    /\ \A p \in node[n].voters :
         [term |-> node[n].term, voter |-> p, candidate |-> n] \in ballots

\* A RequestVote call is of a term its caller reached; a vote that is granted
\* but not counted yet is a ballot
VoteCallsSound ==
  \A c \in voteCalls :
    /\ c.phase # "orphan" /\ c.from # c.to
    /\ 0 < c.term /\ c.term <= node[c.from].term
    /\ c.phase = "reply" /\ c.ok =>
         /\ c.replyTerm = c.term
         /\ [term |-> c.term, voter |-> c.to, candidate |-> c.from] \in ballots
    /\ node[c.from].state = "CANDIDATE" /\ c.term = node[c.from].term =>
         c.to \notin node[c.from].voters

\* A node asks another one for its vote of a term once
OneVoteCall ==
  \A c, d \in voteCalls : c.from = d.from /\ c.to = d.to /\ c.term = d.term => c = d

\* After term 0 a promotion has a majority of ballots, and the promoted node
\* leads while it is in that term
ElectedSound ==
  \A e \in elected :
    /\ e.term <= node[e.leader].term
    /\ e.term = node[e.leader].term => node[e.leader].state = "LEADER"
    /\ IF e.term = 0 THEN e.leader = Bootstrap
       ELSE /\ Cardinality(e.voters) * 2 > Cardinality(Server)
            /\ \A p \in e.voters :
                 [term |-> e.term, voter |-> p, candidate |-> e.leader] \in ballots

\* A node that gave another one its vote of a term was not promoted in it
NotBoth ==
  \A b \in ballots, e \in elected :
    b.term = e.term /\ b.candidate # b.voter => e.leader # b.voter

\* Only a promoted node leads in a term
LeadersElected ==
  \A n \in Server : node[n].state = "LEADER" =>
    \E e \in elected : e.term = node[n].term /\ e.leader = n

\* Only a promoted node sends entries in a term
SendersElected ==
  \A c \in appendCalls :
    /\ c.phase # "orphan" /\ c.from # c.to
    /\ \E e \in elected : e.term = c.term /\ e.leader = c.from

ElectionInv ==
  /\ Settled /\ BallotsHeld /\ OneBallot /\ VotesCounted /\ VoteCallsSound
  /\ OneVoteCall /\ ElectedSound /\ NotBoth /\ LeadersElected /\ SendersElected
  /\ OneLeaderPerTerm

-----------------------------------------------------------------------------
(* Why PromptSpec keeps LogMatching *)

\* The terms of a log, and the part of one that an AppendEntries call tells of:
\* the entry before the new ones and the new ones
LogTerms(log) == [i \in DOMAIN log |-> log[i].term]

CallTerms(c) ==
  [i \in (c.prevLogIndex + 1 .. c.prevLogIndex + 1 + Len(c.entries)) \ {0} |->
     IF i = c.prevLogIndex + 1 THEN c.prevLogTerm ELSE c.entries[i - (c.prevLogIndex + 1)].term]

Pieces == {LogTerms(node[n].log) : n \in Server} \cup {CallTerms(c) : c \in appendCalls}

\* Where two pieces have one term at one index they agree below, as far as both go
PiecesMatch ==
  \A f, g \in Pieces : \A i, j \in DOMAIN f \cap DOMAIN g :
    j <= i /\ f[i] = g[i] => f[j] = g[j]

\* The LEADER of its term made the entry
Made(entry) == \E e \in elected : e.term = entry.term /\ e.leader = entry.by

EntriesElected ==
  /\ \A f \in Pieces : \A i \in DOMAIN f : \E e \in elected : e.term = f[i]
  /\ \A n \in Server : \A i \in DOMAIN node[n].log : Made(node[n].log[i])
  /\ \A c \in appendCalls : \A i \in DOMAIN c.entries : Made(c.entries[i])

LogInv == PiecesMatch /\ EntriesElected

=============================================================================
