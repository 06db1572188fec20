-------------------------- MODULE ConsensusProofs --------------------------
(***************************************************************************)
(* Proofs about Consensus, for any set of servers and any bounds:          *)
(*   - every variable keeps its type;                                      *)
(*   - a running process's term and vote are always the ones on its disk.  *)
(* The first lemmas say what the functions on a node's record do to the    *)
(* fields an election depends on; the theorems use nothing else of them.   *)
(* The last ones say what the handlers do to a log, for PromptProofs.      *)
(***************************************************************************)
EXTENDS Consensus, FiniteSetTheorems, SequenceTheorems, TLAPS

\* The fields an election depends on
ElectionPart(nd) ==
  <<nd.up, nd.term, nd.state, nd.vote, nd.votesReceived, nd.voters, nd.servers>>

\* What a restart would find is what the process works with
Durable(nd) == nd.metadata = [term |-> nd.term, vote |-> nd.vote]

-----------------------------------------------------------------------------
(* Functions on the record of a node *)

\* StoreState writes term and vote to disk and changes nothing else
LEMMA StoreStateFacts ==
  ASSUME NEW nd \in Node
  PROVE  /\ StoreState(nd) \in Node
         /\ ElectionPart(StoreState(nd)) = ElectionPart(nd)
         /\ Durable(StoreState(nd))
BY SMTT(30) DEF StoreState, Node, Metadata, ElectionPart, Durable

\* Arming the election timer changes nothing else
LEMMA ScheduleElectionFacts ==
  ASSUME NEW nd \in Node, NEW t \in Nat
  PROVE  /\ ScheduleElection(nd, t) \in Node
         /\ ElectionPart(ScheduleElection(nd, t)) = ElectionPart(nd)
         /\ Durable(nd) => Durable(ScheduleElection(nd, t))
BY SMTT(30) DEF ScheduleElection, Node, ElectionPart, Durable

\* ResetToFollower enters the given term without a vote, and stores that
LEMMA ResetToFollowerFacts ==
  ASSUME NEW nd \in Node, NEW t \in Nat
  PROVE  /\ ResetToFollower(nd, t) \in Node
         /\ ElectionPart(ResetToFollower(nd, t)) =
              <<nd.up, t, "FOLLOWER", Nil, 0, {}, nd.servers>>
         /\ Durable(ResetToFollower(nd, t))
<1> DEFINE r == [nd EXCEPT !.state = "FOLLOWER", !.renewLease = FALSE,
                           !.respondingPeers = {}, !.leaseHolder = FALSE,
                           !.term = t, !.vote = Nil,
                           !.votesReceived = 0, !.voters = {}]
<1>1. r \in Node /\ ElectionPart(r) = <<nd.up, t, "FOLLOWER", Nil, 0, {}, nd.servers>>
  BY Zenon DEF Node, ElectionPart
<1>2. ResetToFollower(nd, t) = ScheduleElection(StoreState(r), t)
  BY DEF ResetToFollower
<1> HIDE DEF r
<1>3. QED
  BY <1>1, <1>2, StoreStateFacts, ScheduleElectionFacts, Zenon

\* PromoteToLeader keeps term and vote and drops the count of the votes
LEMMA PromoteToLeaderFacts ==
  ASSUME NEW n \in Server, NEW nd \in Node
  PROVE  /\ PromoteToLeader(n, nd) \in Node
         /\ ElectionPart(PromoteToLeader(n, nd)) =
              <<nd.up, nd.term, "LEADER", nd.vote, 0, nd.voters, nd.servers>>
         /\ Durable(nd) => Durable(PromoteToLeader(n, nd))
<1> DEFINE l == Append(nd.log, [term |-> nd.term, by |-> n])
           r == [nd EXCEPT !.state = "LEADER", !.votesReceived = 0,
                           !.electionTimer = NoTimer, !.log = l]
<1>1. PromoteToLeader(n, nd) = r
  BY DEF PromoteToLeader
<1>2. nd.log \in Seq(Entry) /\ nd.term \in Nat
  BY DEF Node
<1>3. l \in Seq(Entry)
  <2>1. [term |-> nd.term, by |-> n] \in Entry
    BY <1>2 DEF Entry
  <2>2. QED
    BY <1>2, <2>1, AppendProperties
<1> HIDE DEF l
<1>4. r \in Node
  BY <1>3, Zenon DEF Node
<1>5. ElectionPart(r) = <<nd.up, nd.term, "LEADER", nd.vote, 0, nd.voters, nd.servers>>
  BY DEF Node, ElectionPart
<1>6. Durable(nd) => Durable(r)
  BY DEF Node, Durable
<1>7. QED
  BY <1>1, <1>4, <1>5, <1>6

\* A candidate enters the next term with its own vote, and stores that
LEMMA BecomeCandidateFacts ==
  ASSUME NEW n \in Server, NEW nd \in Node
  PROVE  /\ BecomeCandidate(n, nd) \in Node
         /\ ElectionPart(BecomeCandidate(n, nd)) =
              <<nd.up, nd.term + 1, "CANDIDATE", n, 1, {n}, nd.servers>>
         /\ Durable(BecomeCandidate(n, nd))
<1> DEFINE next == nd.term + 1
           one == 1
           r == [nd EXCEPT !.state = "CANDIDATE", !.term = next, !.vote = n,
                           !.votesReceived = one, !.voters = {n}]
<1>1. BecomeCandidate(n, nd) = StoreState(r)
  BY DEF BecomeCandidate
<1>2. next \in Nat /\ one \in Nat
  BY DEF Node
<1>3. r \in Node /\ ElectionPart(r) = <<nd.up, next, "CANDIDATE", n, one, {n}, nd.servers>>
  <2> HIDE DEF next, one
  <2>1. r \in Node
    BY <1>2, Zenon DEF Node
  <2>2. ElectionPart(r) = <<nd.up, next, "CANDIDATE", n, one, {n}, nd.servers>>
    BY DEF Node, ElectionPart
  <2>3. QED
    BY <2>1, <2>2
<1> HIDE DEF r
<1>4. QED
  BY <1>1, <1>3, StoreStateFacts

\* A granted vote is stored
LEMMA GrantVoteFacts ==
  ASSUME NEW nd \in Node, NEW p \in Server
  PROVE  /\ GrantVote(nd, p) \in Node
         /\ ElectionPart(GrantVote(nd, p)) =
              <<nd.up, nd.term, nd.state, p, nd.votesReceived, nd.voters, nd.servers>>
         /\ Durable(GrantVote(nd, p))
<1> DEFINE r == [nd EXCEPT !.vote = p]
<1>1. /\ r \in Node /\ nd.term \in Nat
      /\ ElectionPart(r) = <<nd.up, nd.term, nd.state, p, nd.votesReceived, nd.voters, nd.servers>>
  BY DEF Node, ElectionPart
<1>2. GrantVote(nd, p) = ScheduleElection(StoreState(r), nd.term)
  BY DEF GrantVote
<1> HIDE DEF r
<1>3. QED
  BY <1>1, <1>2, StoreStateFacts, ScheduleElectionFacts, ZenonT(60)

\* A process that is not running keeps its disk
LEMMA CrashedFacts ==
  ASSUME NEW nd \in Node
  PROVE  Crashed(nd) \in Node /\ Crashed(nd).up = FALSE
<1> DEFINE zero == [p \in Server |-> 0]
           none == -1
           r == [nd EXCEPT !.up = FALSE, !.term = 0, !.state = "CANDIDATE", !.vote = Nil,
                           !.votesReceived = 0, !.voters = {}, !.commitIndex = none,
                           !.lastApplied = none, !.nextIndex = zero, !.matchIndex = zero,
                           !.servers = {}, !.configId = none, !.configsKnown = FALSE,
                           !.electionTimer = NoTimer, !.heardLeader = FALSE,
                           !.startupTerm = 0, !.leaseHolder = FALSE, !.leaseCallback = FALSE,
                           !.renewLease = FALSE, !.respondingPeers = {}]
<1>1. zero \in PeerIndex /\ none \in Int
  BY DEF PeerIndex
<1>2. Crashed(nd) = r
  BY DEF Crashed
<1> HIDE DEF zero, none
<1>3. r \in Node
  BY <1>1, ZenonT(60) DEF Node
<1>4. r.up = FALSE
  BY DEF Node
<1>5. QED
  BY <1>2, <1>3, <1>4

\* A restart works with the term and the vote on disk
LEMMA StateMachineInitFacts ==
  ASSUME NEW n \in Server, NEW nd \in Node
  PROVE  StateMachineInit(n, nd) \in Node /\ Durable(StateMachineInit(n, nd))
<1> DEFINE m == [p \in Server |-> IF p \in {Bootstrap} \ {n} THEN -1 ELSE 0]
           t == nd.metadata.term
           v == nd.metadata.vote
           one == 1
           r == [nd EXCEPT !.up = TRUE, !.term = t, !.vote = v, !.startupTerm = t,
                           !.servers = {Bootstrap}, !.configId = one, !.matchIndex = m]
<1>1. m \in PeerIndex /\ one \in Int
  BY DEF PeerIndex
<1>2. t \in Nat /\ v \in Server \cup {Nil} /\ nd.metadata = [term |-> t, vote |-> v]
  BY DEF Node, Metadata
<1>3. StateMachineInit(n, nd) = r
  BY DEF StateMachineInit
<1> HIDE DEF m, t, v, one
<1>4. r \in Node
  BY <1>1, <1>2, ServerAssumption, Zenon DEF Node
<1>5. Durable(r)
  BY <1>2 DEF Node, Durable
<1>6. QED
  BY <1>3, <1>4, <1>5

\* What a function of the record leaves to an election and to a restart
SameElection(after, nd) ==
  /\ after \in Node
  /\ ElectionPart(after) = ElectionPart(nd)
  /\ Durable(nd) => Durable(after)

\* A new log does not matter to an election
LEMMA LogUpdate ==
  ASSUME NEW nd \in Node, NEW l \in Seq(Entry)
  PROVE  SameElection([nd EXCEPT !.log = l], nd)
<1> DEFINE r == [nd EXCEPT !.log = l]
<1>1. r \in Node
  BY SMTT(30) DEF Node
<1>2. ElectionPart(r) = ElectionPart(nd)
  BY DEF Node, ElectionPart
<1>3. Durable(nd) => Durable(r)
  BY DEF Node, Durable
<1>4. QED
  BY <1>1, <1>2, <1>3 DEF SameElection

\* Neither does what a node commits and applies
LEMMA CommitUpdate ==
  ASSUME NEW nd \in Node, NEW i \in Int, NEW j \in Int
  PROVE  /\ SameElection([nd EXCEPT !.commitIndex = i], nd)
         /\ SameElection([nd EXCEPT !.commitIndex = i, !.lastApplied = j], nd)
<1> DEFINE r == [nd EXCEPT !.commitIndex = i]
           q == [nd EXCEPT !.commitIndex = i, !.lastApplied = j]
<1>1. r \in Node /\ q \in Node
  BY Zenon DEF Node
<1>2. ElectionPart(r) = ElectionPart(nd) /\ ElectionPart(q) = ElectionPart(nd)
  BY DEF Node, ElectionPart
<1>3. Durable(nd) => Durable(r) /\ Durable(q)
  BY DEF Node, Durable
<1>4. QED
  BY <1>1, <1>2, <1>3 DEF SameElection

\* Neither do the lease and the peers that responded
LEMMA LeaseUpdate ==
  ASSUME NEW nd \in Node, NEW holder \in BOOLEAN, NEW renew \in BOOLEAN,
         NEW responding \in SUBSET Server
  PROVE  /\ SameElection([nd EXCEPT !.leaseHolder = holder, !.renewLease = renew,
                                    !.respondingPeers = responding], nd)
         /\ SameElection([nd EXCEPT !.renewLease = renew, !.respondingPeers = responding], nd)
         /\ SameElection([nd EXCEPT !.respondingPeers = responding], nd)
         /\ SameElection([nd EXCEPT !.leaseCallback = renew], nd)
<1> DEFINE r1 == [nd EXCEPT !.leaseHolder = holder, !.renewLease = renew,
                            !.respondingPeers = responding]
           r2 == [nd EXCEPT !.renewLease = renew, !.respondingPeers = responding]
           r3 == [nd EXCEPT !.respondingPeers = responding]
           r4 == [nd EXCEPT !.leaseCallback = renew]
<1>1. r1 \in Node /\ r2 \in Node /\ r3 \in Node /\ r4 \in Node
  BY ZenonT(60) DEF Node
<1>2. /\ ElectionPart(r1) = ElectionPart(nd) /\ ElectionPart(r2) = ElectionPart(nd)
      /\ ElectionPart(r3) = ElectionPart(nd) /\ ElectionPart(r4) = ElectionPart(nd)
  BY DEF Node, ElectionPart
<1>3. Durable(nd) => Durable(r1) /\ Durable(r2) /\ Durable(r3) /\ Durable(r4)
  BY DEF Node, Durable
<1>4. QED
  BY <1>1, <1>2, <1>3 DEF SameElection

\* Neither do the election timer and the election deadline
LEMMA TimerUpdate ==
  ASSUME NEW nd \in Node, NEW heard \in BOOLEAN, NEW timer \in Nat \cup {NoTimer}
  PROVE  /\ SameElection([nd EXCEPT !.heardLeader = heard], nd)
         /\ SameElection([nd EXCEPT !.electionTimer = timer], nd)
<1> DEFINE r == [nd EXCEPT !.heardLeader = heard]
           q == [nd EXCEPT !.electionTimer = timer]
<1>1. r \in Node /\ q \in Node
  BY Zenon DEF Node
<1>2. ElectionPart(r) = ElectionPart(nd) /\ ElectionPart(q) = ElectionPart(nd)
  BY DEF Node, ElectionPart
<1>3. Durable(nd) => Durable(r) /\ Durable(q)
  BY DEF Node, Durable
<1>4. QED
  BY <1>1, <1>2, <1>3 DEF SameElection

\* Neither do the indices a leader keeps of its peers
LEMMA PeerUpdate ==
  ASSUME NEW nd \in Node, NEW next \in PeerIndex, NEW match \in PeerIndex
  PROVE  /\ SameElection([nd EXCEPT !.nextIndex = next], nd)
         /\ SameElection([nd EXCEPT !.nextIndex = next, !.matchIndex = match], nd)
<1> DEFINE r == [nd EXCEPT !.nextIndex = next]
           q == [nd EXCEPT !.nextIndex = next, !.matchIndex = match]
<1>1. r \in Node /\ q \in Node
  BY Zenon DEF Node
<1>2. ElectionPart(r) = ElectionPart(nd) /\ ElectionPart(q) = ElectionPart(nd)
  BY DEF Node, ElectionPart
<1>3. Durable(nd) => Durable(r) /\ Durable(q)
  BY DEF Node, Durable
<1>4. QED
  BY <1>1, <1>2, <1>3 DEF SameElection

\* A set of indices of an interval of length k has at most k members
LEMMA IndicesBounded ==
  ASSUME NEW a \in Int, NEW b \in Int, NEW S \in SUBSET (a..b)
  PROVE  /\ Cardinality(S) \in Nat
         /\ a <= b + 1 => Cardinality(S) <= b - a + 1
<1>1. IsFiniteSet(a..b) /\ Cardinality(a..b) = IF a > b THEN 0 ELSE b - a + 1
  BY FS_Interval
<1>2. IsFiniteSet(S) /\ Cardinality(S) <= Cardinality(a..b)
  BY <1>1, FS_Subset, Zenon
<1>3. Cardinality(S) \in Nat
  BY <1>2, FS_CardinalityType
<1>4. QED
  BY <1>1, <1>2, <1>3

\* The commit index a leader computes is never below the one it has
LEMMA NewCommitIndexFacts ==
  ASSUME NEW n \in Server, NEW nd \in Node
  PROVE  NewCommitIndex(n, nd) \in Int /\ NewCommitIndex(n, nd) >= nd.commitIndex
<1> DEFINE first == nd.commitIndex + 1
           last == LastLogIndex(nd)
           S == {i \in first..last : \E j \in Committable(n, nd) : i <= j}
<1>1. nd.commitIndex \in Int /\ nd.log \in Seq(Entry)
  BY DEF Node
<1>2. first \in Int /\ last \in Int
  BY <1>1 DEF LastLogIndex, LogSize
<1>3. NewCommitIndex(n, nd) = nd.commitIndex + Cardinality(S)
  BY DEF NewCommitIndex
<1> HIDE DEF first, last
<1>4. S \in SUBSET (first..last)
  OBVIOUS
<1> HIDE DEF S
<1>5. Cardinality(S) \in Nat
  BY <1>2, <1>4, IndicesBounded, Zenon
<1>6. QED
  BY <1>1, <1>3, <1>5

\* Committing does not touch an election, unless the leader left the cluster
LEMMA UpdateCommitIndexFacts ==
  ASSUME NEW n \in Server, NEW nd \in Node
  PROVE  /\ UpdateCommitIndex(n, nd) \in Node
         /\ Durable(nd) => Durable(UpdateCommitIndex(n, nd))
         /\ n \in nd.servers => SameElection(UpdateCommitIndex(n, nd), nd)
<1> DEFINE r == [nd EXCEPT !.commitIndex = NewCommitIndex(n, nd)]
<1>1. SameElection(r, nd)
  BY NewCommitIndexFacts, CommitUpdate, Zenon
<1>2. nd.term + 1 \in Nat
  BY DEF Node
<1>3. UpdateCommitIndex(n, nd) = IF r.commitIndex >= nd.configId /\ n \notin nd.servers
                                   THEN ResetToFollower(r, nd.term + 1) ELSE r
  BY DEF UpdateCommitIndex, KnownServer
<1> HIDE DEF r
<1>4. ResetToFollower(r, nd.term + 1) \in Node /\ Durable(ResetToFollower(r, nd.term + 1))
  BY <1>1, <1>2, ResetToFollowerFacts, Zenon DEF SameElection
<1>5. QED
  BY <1>1, <1>3, <1>4 DEF SameElection

\* A node moves to a higher term as a FOLLOWER that has not voted
LEMMA ObserveTermFacts ==
  ASSUME NEW nd \in Node, NEW t \in Nat
  PROVE  /\ ObserveTerm(nd, t) \in Node
         /\ Durable(nd) => Durable(ObserveTerm(nd, t))
         /\ ElectionPart(ObserveTerm(nd, t)) =
              IF t > nd.term THEN <<nd.up, t, "FOLLOWER", Nil, 0, {}, nd.servers>>
              ELSE ElectionPart(nd)
BY ResetToFollowerFacts, Zenon DEF ObserveTerm

\* Hearing from a leader re-arms the election timer
LEMMA HearLeaderFacts ==
  ASSUME NEW nd \in Node, NEW t \in Nat
  PROVE  SameElection(HearLeader(nd, t), nd)
<1> DEFINE r == ScheduleElection(nd, t)
<1>1. r \in Node /\ ElectionPart(r) = ElectionPart(nd) /\ (Durable(nd) => Durable(r))
  BY ScheduleElectionFacts
<1>2. HearLeader(nd, t) = [r EXCEPT !.heardLeader = TRUE]
  BY DEF HearLeader
<1> HIDE DEF r
<1>3. SameElection([r EXCEPT !.heardLeader = TRUE], r)
  BY <1>1, TimerUpdate, Zenon
<1>4. QED
  BY <1>1, <1>2, <1>3 DEF SameElection

\* A node that is not a FOLLOWER becomes one in the term of the call
LEMMA FollowTermFacts ==
  ASSUME NEW nd \in Node, NEW c, c.term \in Nat
  PROVE  /\ FollowTerm(c, nd) \in Node
         /\ Durable(nd) => Durable(FollowTerm(c, nd))
         /\ ElectionPart(FollowTerm(c, nd)) =
              IF nd.state # "FOLLOWER" THEN <<nd.up, c.term, "FOLLOWER", Nil, 0, {}, nd.servers>>
              ELSE ElectionPart(nd)
BY ResetToFollowerFacts, HearLeaderFacts, Zenon DEF FollowTerm, SameElection

\* Applying what the leader has committed does not touch an election
LEMMA FollowerCommitFacts ==
  ASSUME NEW nd \in Node, NEW c, c.leaderCommit \in Int
  PROVE  SameElection(FollowerCommit(c, nd), nd)
<1> DEFINE new == IF c.leaderCommit < LogSize(nd) THEN c.leaderCommit ELSE LogSize(nd)
           applied == IF new > nd.lastApplied THEN new ELSE nd.lastApplied
<1>1. nd.log \in Seq(Entry) /\ nd.lastApplied \in Int
  BY DEF Node
<1>2. new \in Int
  BY <1>1 DEF LogSize
<1>3. applied \in Int
  BY <1>1, <1>2
<1>4. FollowerCommit(c, nd) = IF c.leaderCommit <= nd.commitIndex THEN nd
                              ELSE [nd EXCEPT !.commitIndex = new, !.lastApplied = applied]
  BY SMTT(30) DEF FollowerCommit
<1> HIDE DEF new, applied
<1>5. SameElection([nd EXCEPT !.commitIndex = new, !.lastApplied = applied], nd)
  BY <1>2, <1>3, CommitUpdate, Zenon
<1>6. SameElection(nd, nd)
  BY DEF SameElection
<1>7. QED
  BY <1>4, <1>5, <1>6

\* A counted vote is one more vote, from the node that was asked
LEMMA CountVoteFacts ==
  ASSUME NEW nd \in Node, NEW c, c.to \in Server
  PROVE  /\ CountVote(c, nd) \in Node
         /\ Durable(nd) => Durable(CountVote(c, nd))
         /\ ElectionPart(CountVote(c, nd)) =
              <<nd.up, nd.term, nd.state, nd.vote, nd.votesReceived + 1,
                nd.voters \cup {c.to}, nd.servers>>
<1> DEFINE k == nd.votesReceived + 1
           V == nd.voters \cup {c.to}
           r == [nd EXCEPT !.votesReceived = k, !.voters = V]
<1>1. k \in Nat /\ V \in SUBSET Server
  BY DEF Node
<1>2. CountVote(c, nd) = r
  BY DEF CountVote
<1> HIDE DEF k, V
<1>3. r \in Node
  BY <1>1, ZenonT(60) DEF Node
<1>4. ElectionPart(r) = <<nd.up, nd.term, nd.state, nd.vote, k, V, nd.servers>>
  BY DEF Node, ElectionPart
<1>5. Durable(nd) => Durable(r)
  BY DEF Node, Durable
<1>6. QED
  BY <1>2, <1>3, <1>4, <1>5 DEF k, V

\* Renewing the lease does not touch an election
LEMMA RenewLeaseFacts ==
  ASSUME NEW nd \in Node, NEW c, c.to \in Server
  PROVE  /\ SameElection(RenewLease(c, nd), nd)
<1> DEFINE responding == nd.respondingPeers \cup {c.to}
<1>1. responding \in SUBSET Server
  BY DEF Node
<1>2. RenewLease(c, nd) =
        IF ~nd.renewLease THEN nd
        ELSE IF CheckQuorum(nd, responding)
          THEN [nd EXCEPT !.leaseHolder = TRUE, !.renewLease = FALSE, !.respondingPeers = {}]
        ELSE [nd EXCEPT !.respondingPeers = responding]
  BY DEF RenewLease
<1> HIDE DEF responding
<1>3. SameElection([nd EXCEPT !.leaseHolder = TRUE, !.renewLease = FALSE, !.respondingPeers = {}], nd)
  BY LeaseUpdate, Zenon
<1>4. SameElection([nd EXCEPT !.respondingPeers = responding], nd)
  BY <1>1, LeaseUpdate, Zenon
<1>5. SameElection(nd, nd)
  BY DEF SameElection
<1>6. QED
  BY <1>2, <1>3, <1>4, <1>5

\* Moving a peer's indices does not touch an election
LEMMA AdvancePeerFacts ==
  ASSUME NEW nd \in Node, NEW c, c.to \in Server, c.entries \in Seq(Entry)
  PROVE  SameElection(AdvancePeer(c, nd), nd) /\ SameElection(BackUpPeer(c, nd), nd)
<1> DEFINE next == nd.nextIndex[c.to] + Len(c.entries)
           nexts == [nd.nextIndex EXCEPT ![c.to] = next]
           matches == [nd.matchIndex EXCEPT ![c.to] = next - 1]
           backed == [nd.nextIndex EXCEPT ![c.to] = @ - 1]
<1>1. nd.nextIndex \in PeerIndex /\ nd.matchIndex \in PeerIndex
  BY DEF Node
<1>2. Len(c.entries) \in Nat
  BY LenProperties
<1>3. nexts \in PeerIndex /\ matches \in PeerIndex /\ backed \in PeerIndex
  BY <1>1, <1>2 DEF PeerIndex
<1>4. /\ AdvancePeer(c, nd) = [nd EXCEPT !.nextIndex = nexts, !.matchIndex = matches]
      /\ BackUpPeer(c, nd) = [nd EXCEPT !.nextIndex = backed]
  BY DEF AdvancePeer, BackUpPeer, Node
<1> HIDE DEF nexts, matches, backed
<1>5. QED
  BY <1>3, <1>4, PeerUpdate, ZenonT(60)

\* The reply to a heartbeat does not touch an election
LEMMA AfterAppendReplyFacts ==
  ASSUME NEW nd \in Node, NEW c \in AppendCall
  PROVE  /\ AfterAppendReply(c, nd) \in Node
         /\ Durable(nd) => Durable(AfterAppendReply(c, nd))
         /\ c.from \in nd.servers => SameElection(AfterAppendReply(c, nd), nd)
<1> DEFINE r == RenewLease(c, nd)
           a == AdvancePeer(c, r)
<1>1. c.from \in Server /\ c.to \in Server /\ c.entries \in Seq(Entry)
  BY DEF AppendCall
<1>2. SameElection(r, nd)
  BY <1>1, RenewLeaseFacts
<1>3. SameElection(a, r) /\ SameElection(BackUpPeer(c, nd), nd)
  BY <1>1, <1>2, AdvancePeerFacts DEF SameElection
<1>4. SameElection(a, nd)
  BY <1>2, <1>3 DEF SameElection
<1>5. AfterAppendReply(c, nd) =
        IF nd.state # "LEADER" \/ c.replyTerm # nd.term THEN nd
        ELSE IF c.ok THEN UpdateCommitIndex(c.from, a) ELSE BackUpPeer(c, nd)
  BY DEF AfterAppendReply
<1> HIDE DEF r, a
<1>6. a.servers = nd.servers
  BY <1>4 DEF SameElection, ElectionPart
<1>7. /\ UpdateCommitIndex(c.from, a) \in Node
      /\ Durable(nd) => Durable(UpdateCommitIndex(c.from, a))
      /\ c.from \in nd.servers => SameElection(UpdateCommitIndex(c.from, a), a)
  BY <1>1, <1>4, <1>6, UpdateCommitIndexFacts DEF SameElection
<1>8. QED
  BY <1>3, <1>4, <1>5, <1>7 DEF SameElection

\* The entries of a call that the log holds end inside the log
LEMMA HeldFacts ==
  ASSUME NEW nd \in Node, NEW c \in AppendCall, LogsAgree(c, nd)
  PROVE  /\ Held(c, nd) \in 0..Len(c.entries)
         /\ c.prevLogIndex + 1 + Held(c, nd) \in 0..LogSize(nd)
<1> DEFINE S == {k \in 1..Len(c.entries) : Holds(c, nd, k)}
           room == LogSize(nd) - (c.prevLogIndex + 1)
           sent == Len(c.entries)
<1>1. nd.log \in Seq(Entry)
  BY DEF Node
<1>2. c.prevLogIndex \in Nat \cup {-1} /\ c.entries \in Seq(Entry)
  BY DEF AppendCall
<1>3. LogSize(nd) \in Nat /\ sent \in Nat
  BY <1>1, <1>2 DEF LogSize
<1>4. room \in Nat
  BY <1>2, <1>3 DEF LogsAgree
<1>5. S \in SUBSET (1..sent) /\ S \in SUBSET (1..room)
  BY <1>2, <1>3, <1>4 DEF Holds
<1>6. Held(c, nd) = Cardinality(S)
  BY DEF Held
<1> HIDE DEF S
<1>7. Cardinality(S) \in Nat /\ Cardinality(S) <= sent /\ Cardinality(S) <= room
  <2> HIDE DEF sent, room
  <2>1. Cardinality(S) \in Nat /\ (1 <= sent + 1 => Cardinality(S) <= sent - 1 + 1)
    BY <1>3, <1>5, IndicesBounded
  <2>2. 1 <= room + 1 => Cardinality(S) <= room - 1 + 1
    BY <1>4, <1>5, IndicesBounded
  <2>3. QED
    BY <1>3, <1>4, <2>1, <2>2
<1>8. QED
  BY <1>2, <1>3, <1>6, <1>7

\* What the handler leaves of the log and adds to it are entries
LEMMA MergedLogFacts ==
  ASSUME NEW nd \in Node, NEW c \in AppendCall, LogsAgree(c, nd)
  PROVE  TruncatedLog(c, nd) \in Seq(Entry) /\ MergedLog(c, nd) \in Seq(Entry)
<1> DEFINE h == Held(c, nd)
           upTo == c.prevLogIndex + 1 + h
           rest == SubSeq(c.entries, h + 1, Len(c.entries))
<1>1. nd.log \in Seq(Entry) /\ c.entries \in Seq(Entry)
  BY DEF Node, AppendCall
<1>2. h \in 0..Len(c.entries) /\ upTo \in 0..Len(nd.log)
  BY HeldFacts DEF LogSize
<1>3. /\ TruncatedLog(c, nd) = SubSeq(nd.log, 1, upTo)
      /\ MergedLog(c, nd) = IF h = Len(c.entries) THEN nd.log ELSE TruncatedLog(c, nd) \o rest
  BY DEF TruncatedLog, MergedLog
<1> HIDE DEF h, upTo
<1>4. SubSeq(nd.log, 1, upTo) \in Seq(Entry)
  BY <1>1, <1>2, SubSeqProperties
<1>5. rest \in Seq(Entry)
  BY <1>1, <1>2, SubSeqProperties
<1> HIDE DEF rest
<1>6. QED
  BY <1>1, <1>3, <1>4, <1>5, ConcatProperties

-----------------------------------------------------------------------------
(* Calls *)

\* A call stays a call when it is answered
LEMMA RepliedType ==
  ASSUME NEW c, NEW t \in Nat, NEW ok \in BOOLEAN
  PROVE  /\ c \in VoteCall => Replied(c, t, ok) \subseteq VoteCall
         /\ c \in AppendCall => Replied(c, t, ok) \subseteq AppendCall
<1> DEFINE r == [c EXCEPT !.phase = "reply", !.replyTerm = t, !.ok = ok]
<1>1. c \in VoteCall => r \in VoteCall
  BY Zenon DEF VoteCall, Phase
<1>2. c \in AppendCall => r \in AppendCall
  BY Zenon DEF AppendCall, Phase
<1>3. QED
  BY <1>1, <1>2 DEF Replied

\* A call stays a call when its caller dies
LEMMA DropCallsType ==
  ASSUME NEW calls, NEW n \in Server
  PROVE  /\ calls \subseteq VoteCall => DropCalls(calls, n) \subseteq VoteCall
         /\ calls \subseteq AppendCall => DropCalls(calls, n) \subseteq AppendCall
<1>1. \A d \in VoteCall : [d EXCEPT !.phase = "orphan"] \in VoteCall
  BY DEF VoteCall, Phase
<1>2. \A d \in AppendCall : [d EXCEPT !.phase = "orphan"] \in AppendCall
  BY DEF AppendCall, Phase
<1>3. QED
  BY <1>1, <1>2 DEF DropCalls

\* The calls a node sends have the fields their handlers read
LEMMA RequestVoteType ==
  ASSUME NEW n \in Server, NEW p \in Server, NEW nd \in Node
  PROVE  RequestVote(n, nd, p) \in VoteCall
<1>1. nd.log \in Seq(Entry) /\ nd.term \in Nat
  BY DEF Node
<1>2. LastLogIndex(nd) \in Int
  BY <1>1 DEF LastLogIndex, LogSize
<1>3. LastLogTerm(nd) \in Int
  <2>1. LogSize(nd) > 0 => nd.log[LogSize(nd)] \in Entry
    BY <1>1 DEF LogSize
  <2>2. QED
    BY <2>1 DEF LastLogTerm, Entry
<1>4. QED
  BY <1>1, <1>2, <1>3 DEF RequestVote, VoteCall, Phase

\* A heartbeat inside the bounds of the log yields a call
LEMMA AppendEntriesType ==
  ASSUME NEW n \in Server, NEW p \in Server, NEW nd \in Node,
         nd.nextIndex[p] \in 0..LogSize(nd), FreeSlots(n, p) # {}
  PROVE  AppendEntries(n, nd, p) \in AppendCall
<1> DEFINE next == nd.nextIndex[p]
           slot == CHOOSE s \in FreeSlots(n, p) : TRUE
           prev == next - 1
           prevTerm == IF prev >= 0 THEN nd.log[next].term ELSE -1
           new == SubSeq(nd.log, next + 1, LogSize(nd))
<1>1. nd.log \in Seq(Entry) /\ nd.term \in Nat /\ nd.commitIndex \in Int
  BY DEF Node
<1>2. slot \in 1..MaxOutstanding
  BY DEF FreeSlots
<1>3. prev \in Nat \cup {-1}
  BY <1>1 DEF LogSize
<1>4. prevTerm \in Int
  <2>1. next > 0 => nd.log[next] \in Entry
    BY <1>1 DEF LogSize
  <2>2. QED
    BY <1>1, <2>1 DEF Entry, LogSize
<1>5. new \in Seq(Entry)
  BY <1>1, SubSeqProperties DEF LogSize
<1>6. AppendEntries(n, nd, p) =
        [from |-> n, to |-> p, slot |-> slot, term |-> nd.term, prevLogIndex |-> prev,
         prevLogTerm |-> prevTerm, entries |-> new, leaderCommit |-> nd.commitIndex,
         phase |-> "request", replyTerm |-> 0, ok |-> FALSE]
  BY DEF AppendEntries
<1> HIDE DEF slot, prev, prevTerm, new
<1>7. QED
  BY <1>1, <1>2, <1>3, <1>4, <1>5, <1>6 DEF AppendCall, Phase

-----------------------------------------------------------------------------
(* Type correctness and the durable vote *)

\* The two together: what the handlers keep of every node's record
DurableInv == TypeOK /\ DurableVote

\* A step that replaces the record of one node by a good one keeps the records good
LEMMA OneNodeChanges ==
  ASSUME DurableInv, NEW n \in Server, NEW r \in Node,
         r.up => Durable(r), node' = [node EXCEPT ![n] = r]
  PROVE  node' \in [Server -> Node] /\ DurableVote'
BY DEF DurableInv, TypeOK, DurableVote, Durable

\* A process that dies leaves good records and good calls behind
LEMMA DieFacts ==
  ASSUME DurableInv, NEW n \in Server, NEW nd \in Node, Die(n, nd)
  PROVE  /\ node' \in [Server -> Node] /\ DurableVote'
         /\ voteCalls' \subseteq VoteCall /\ appendCalls' \subseteq AppendCall
         /\ UNCHANGED <<ballots, elected>>
<1>1. node' \in [Server -> Node] /\ DurableVote'
  BY CrashedFacts, OneNodeChanges, Zenon DEF Die
<1>2. voteCalls' \subseteq VoteCall
  BY DropCallsType DEF Die, DurableInv, TypeOK
<1>3. appendCalls' \subseteq AppendCall
  BY DropCallsType DEF Die, DurableInv, TypeOK
<1>4. QED
  BY <1>1, <1>2, <1>3 DEF Die

\* Every handler, callback and failure keeps the types and the durable vote
LEMMA DurableStep ==
  ASSUME DurableInv, [Next]_vars
  PROVE  DurableInv'
<1>1. /\ \A n \in Server : node[n] \in Node /\ (node[n].up => Durable(node[n]))
      /\ voteCalls \subseteq VoteCall /\ appendCalls \subseteq AppendCall
  BY DEF DurableInv, TypeOK, DurableVote, Durable
<1>2. ASSUME NEW n \in Server, ElectionCallback(n)
      PROVE  DurableInv'
  <2> DEFINE nd == node[n]
             b == BecomeCandidate(n, nd)
             s == ScheduleElection(b, b.term)
             p == PromoteToLeader(n, b)
  <2>1. nd \in Node
    BY <1>1
  <2>2. /\ b \in Node /\ Durable(b) /\ b.term = nd.term + 1 /\ b.voters = {n}
        /\ b.term \in Nat
    BY <2>1, BecomeCandidateFacts, SMTT(30) DEF ElectionPart, Node
  <2>3. s \in Node /\ Durable(s) /\ p \in Node /\ Durable(p)
    <3> HIDE DEF b
    <3>1. QED
      BY <2>2, ScheduleElectionFacts, PromoteToLeaderFacts
  <2>4. /\ elections < MaxElections /\ elections' = elections + 1
        /\ Cast(b.term, n, n)
        /\ \/ node' = [node EXCEPT ![n] = p] /\ Elect(n, b) /\ UNCHANGED voteCalls
           \/ /\ node' = [node EXCEPT ![n] = s]
              /\ voteCalls' = voteCalls \cup {RequestVote(n, b, q) : q \in Peers(n, nd)}
              /\ UNCHANGED elected
        /\ UNCHANGED <<appendCalls, heartbeats, crashes>>
    BY <1>2 DEF ElectionCallback
  <2> HIDE DEF b, s, p
  <2>5. node' \in [Server -> Node] /\ DurableVote'
    BY <2>3, <2>4, OneNodeChanges
  <2>6. voteCalls' \subseteq VoteCall
    <3>1. \A q \in Peers(n, nd) : RequestVote(n, b, q) \in VoteCall
      BY <2>1, <2>2, RequestVoteType, SMTT(30) DEF Peers, Node
    <3>2. QED
      BY <1>1, <2>4, <3>1
  <2>7. /\ ballots' \subseteq [term : Nat, voter : Server, candidate : Server]
        /\ elected' \subseteq [term : Nat, leader : Server, voters : SUBSET Server]
    BY <2>2, <2>4 DEF Cast, Elect, DurableInv, TypeOK
  <2>8. elections' \in 0..MaxElections
    BY <2>4, BoundAssumption DEF DurableInv, TypeOK
  <2>9. QED
    BY <2>4, <2>5, <2>6, <2>7, <2>8 DEF DurableInv, TypeOK
<1>3. ASSUME NEW n \in Server, HeartbeatCallback(n)
      PROVE  DurableInv'
  <2> DEFINE nd == node[n]
             sent == [nd EXCEPT !.renewLease = TRUE, !.respondingPeers = {n}]
             r == IF nd.servers = {n} THEN UpdateCommitIndex(n, sent) ELSE sent
  <2>1. nd \in Node /\ nd.up /\ Durable(nd) /\ nd.servers \subseteq Server
    BY <1>1, <1>3 DEF HeartbeatCallback, Node
  <2>2. sent \in Node /\ Durable(sent)
    BY <2>1, LeaseUpdate, Zenon DEF SameElection
  <2>3. r \in Node /\ Durable(r)
    <3> HIDE DEF sent
    <3>1. QED
      BY <2>2, UpdateCommitIndexFacts
  <2>4. /\ heartbeats < MaxHeartbeats /\ heartbeats' = heartbeats + 1
        /\ HeartbeatInRange(n, nd) /\ \A p \in Peers(n, nd) : FreeSlots(n, p) # {}
        /\ node' = [node EXCEPT ![n] = r]
        /\ appendCalls' = appendCalls \cup {AppendEntries(n, nd, p) : p \in Peers(n, nd)}
        /\ UNCHANGED <<voteCalls, ballots, elected, elections, crashes>>
    BY <1>3 DEF HeartbeatCallback
  <2> HIDE DEF sent, r
  <2>5. node' \in [Server -> Node] /\ DurableVote'
    BY <2>3, <2>4, OneNodeChanges, Zenon
  <2>6. appendCalls' \subseteq AppendCall
    <3>1. \A p \in Peers(n, nd) : AppendEntries(n, nd, p) \in AppendCall
      BY <2>1, <2>4, AppendEntriesType DEF HeartbeatInRange, InRange, Peers
    <3>2. QED
      BY <1>1, <2>4, <3>1
  <2>7. heartbeats' \in 0..MaxHeartbeats
    BY <2>4, BoundAssumption DEF DurableInv, TypeOK
  <2>8. QED
    BY <2>4, <2>5, <2>6, <2>7 DEF DurableInv, TypeOK
<1>4. ASSUME NEW c \in voteCalls, RejectRequestVote(c)
      PROVE  DurableInv'
  <2>1. c \in VoteCall /\ node[c.to].term \in Nat
    BY <1>1 DEF VoteCall, Node
  <2>2. voteCalls' \subseteq VoteCall
    BY <1>1, <1>4, <2>1, RepliedType, Zenon DEF RejectRequestVote
  <2>3. QED
    BY <1>4, <2>2, Zenon DEF RejectRequestVote, DurableInv, TypeOK, DurableVote
<1>5. ASSUME NEW c \in voteCalls, ProcessRequestVoteClientRequest(c)
      PROVE  DurableInv'
  <2> DEFINE n == c.to
             heard == [node[n] EXCEPT !.heardLeader = FALSE]
             current == ObserveTerm(heard, c.term)
             granted == VoteGranted(c, current)
             after == IF granted THEN GrantVote(current, c.from) ELSE current
  <2>1. c \in VoteCall /\ n \in Server /\ c.from \in Server /\ c.term \in Nat
    BY <1>1 DEF VoteCall
  <2>2. node[n] \in Node /\ Durable(node[n])
    BY <1>1, <1>5, <2>1 DEF ProcessRequestVoteClientRequest
  <2>3. heard \in Node /\ Durable(heard)
    BY <2>2, TimerUpdate, Zenon DEF SameElection
  <2>4. /\ node' = [node EXCEPT ![n] = after]
        /\ voteCalls' = (voteCalls \ {c}) \cup Replied(c, after.term, granted)
        /\ IF granted THEN Cast(c.term, n, c.from) ELSE UNCHANGED ballots
        /\ UNCHANGED <<appendCalls, elected, elections, heartbeats, crashes>>
        /\ granted \in BOOLEAN
    BY <1>5 DEF ProcessRequestVoteClientRequest, VoteGranted
  <2> HIDE DEF heard
  <2>5. current \in Node /\ Durable(current)
    BY <2>1, <2>3, ObserveTermFacts
  <2> HIDE DEF current, granted
  <2>6. after \in Node /\ Durable(after)
    BY <2>1, <2>5, GrantVoteFacts
  <2> HIDE DEF after
  <2>7. node' \in [Server -> Node] /\ DurableVote'
    BY <2>1, <2>4, <2>6, OneNodeChanges, Zenon
  <2>8. voteCalls' \subseteq VoteCall
    <3>1. after.term \in Nat
      BY <2>6 DEF Node
    <3>2. QED
      BY <1>1, <2>1, <2>4, <3>1, RepliedType
  <2>9. ballots' \subseteq [term : Nat, voter : Server, candidate : Server]
    BY <2>1, <2>4 DEF Cast, DurableInv, TypeOK
  <2>10. QED
    BY <2>4, <2>7, <2>8, <2>9 DEF DurableInv, TypeOK
<1>6. ASSUME NEW c \in appendCalls, ProcessAppendEntriesClientRequest(c)
      PROVE  DurableInv'
  <2> DEFINE n == c.to
             current == ObserveTerm(node[n], c.term)
             follower == FollowTerm(c, current)
             merged == [follower EXCEPT !.log = MergedLog(c, current)]
             accepted == c.term = current.term /\ LogsAgree(c, current)
             after == IF accepted THEN FollowerCommit(c, merged)
                      ELSE IF c.term = current.term THEN follower ELSE current
  <2>1. /\ c \in AppendCall /\ n \in Server /\ c.term \in Nat /\ c.leaderCommit \in Int
        /\ node[n] \in Node
    BY <1>1 DEF AppendCall
  <2>2. /\ node' = [node EXCEPT ![n] = HearLeader(after, c.term)]
        /\ appendCalls' = (appendCalls \ {c}) \cup Replied(c, after.term, accepted)
        /\ UNCHANGED <<voteCalls, ballots, elected, elections, heartbeats, crashes>>
        /\ current.up /\ accepted \in BOOLEAN
    BY <1>6 DEF ProcessAppendEntriesClientRequest
  <2>3. current \in Node /\ Durable(current)
    <3>1. current \in Node /\ current.up = node[n].up
      BY <2>1, ObserveTermFacts, Zenon DEF ElectionPart
    <3>2. Durable(node[n])
      BY <1>1, <2>1, <2>2, <3>1
    <3>3. QED
      BY <2>1, <3>1, <3>2, ObserveTermFacts
  <2> HIDE DEF current
  <2>4. follower \in Node /\ Durable(follower)
    BY <2>1, <2>3, FollowTermFacts
  <2> HIDE DEF follower
  <2>5. accepted => merged \in Node /\ Durable(merged)
    <3>1. accepted => MergedLog(c, current) \in Seq(Entry)
      BY <2>1, <2>3, MergedLogFacts
    <3>2. QED
      BY <2>4, <3>1, LogUpdate DEF SameElection
  <2> HIDE DEF merged, accepted
  <2>6. after \in Node /\ Durable(after)
    <3>1. accepted => FollowerCommit(c, merged) \in Node /\ Durable(FollowerCommit(c, merged))
      BY <2>1, <2>5, FollowerCommitFacts DEF SameElection
    <3>2. QED
      BY <2>3, <2>4, <3>1
  <2> HIDE DEF after
  <2>7. HearLeader(after, c.term) \in Node /\ Durable(HearLeader(after, c.term))
    BY <2>1, <2>6, HearLeaderFacts DEF SameElection
  <2>8. node' \in [Server -> Node] /\ DurableVote'
    BY <2>1, <2>2, <2>7, OneNodeChanges, Zenon
  <2>9. appendCalls' \subseteq AppendCall
    <3>1. after.term \in Nat
      BY <2>6 DEF Node
    <3>2. QED
      BY <1>1, <2>1, <2>2, <3>1, RepliedType
  <2>10. QED
    BY <2>2, <2>8, <2>9 DEF DurableInv, TypeOK
<1>7. ASSUME NEW c \in appendCalls, LoseAppendCall(c)
      PROVE  DurableInv'
  BY <1>7 DEF LoseAppendCall, DurableInv, TypeOK, DurableVote
<1>8. ASSUME NEW c \in voteCalls, ProcessRequestVoteServerResponse(c)
      PROVE  DurableInv'
  <2> DEFINE n == c.from
             nd == node[n]
             counted == CountVote(c, nd)
             reset == ResetToFollower(nd, c.replyTerm)
             promoted == PromoteToLeader(n, counted)
  <2>1. c \in VoteCall /\ n \in Server /\ c.to \in Server /\ c.replyTerm \in Nat
    BY <1>1 DEF VoteCall
  <2>2. nd \in Node /\ Durable(nd)
    BY <1>1, <1>8, <2>1 DEF ProcessRequestVoteServerResponse
  <2>3. /\ \/ \E r \in {nd, reset, counted} : node' = [node EXCEPT ![n] = r] /\ UNCHANGED elected
           \/ node' = [node EXCEPT ![n] = promoted] /\ Elect(n, counted)
        /\ voteCalls' = voteCalls \ {c}
        /\ UNCHANGED <<appendCalls, ballots, elections, heartbeats, crashes>>
    BY <1>8 DEF ProcessRequestVoteServerResponse
  <2>4. counted \in Node /\ Durable(counted) /\ reset \in Node /\ Durable(reset)
    BY <2>1, <2>2, CountVoteFacts, ResetToFollowerFacts
  <2> HIDE DEF counted, reset
  <2>5. promoted \in Node /\ Durable(promoted)
    BY <2>1, <2>4, PromoteToLeaderFacts
  <2> HIDE DEF promoted
  <2>6. node' \in [Server -> Node] /\ DurableVote'
    BY <2>1, <2>2, <2>3, <2>4, <2>5, OneNodeChanges
  <2>7. elected' \subseteq [term : Nat, leader : Server, voters : SUBSET Server]
    <3>1. counted.term \in Nat /\ counted.voters \in SUBSET Server
      BY <2>4 DEF Node
    <3>2. QED
      BY <2>1, <2>3, <3>1 DEF Elect, DurableInv, TypeOK
  <2>8. QED
    BY <2>3, <2>6, <2>7 DEF DurableInv, TypeOK
<1>9. ASSUME NEW c \in appendCalls, ProcessAppendEntriesServerResponse(c)
      PROVE  DurableInv'
  <2> DEFINE n == c.from
             current == CallerAtReply(c)
             after == AfterAppendReply(c, current)
  <2>1. c \in AppendCall /\ n \in Server /\ c.replyTerm \in Nat
    BY <1>1 DEF AppendCall
  <2>2. node[n] \in Node /\ Durable(node[n])
    BY <1>1, <1>9, <2>1 DEF ProcessAppendEntriesServerResponse
  <2>3. current \in Node /\ Durable(current)
    BY <2>1, <2>2, ResetToFollowerFacts, Zenon DEF CallerAtReply
  <2> HIDE DEF current
  <2>4. after \in Node /\ Durable(after)
    BY <2>1, <2>3, AfterAppendReplyFacts
  <2>5. CASE ~CommitIndexPastLog(c, current)
    <3>1. /\ node' = [node EXCEPT ![n] = after]
          /\ appendCalls' = appendCalls \ {c}
          /\ UNCHANGED <<voteCalls, ballots, elected, elections, heartbeats, crashes>>
      BY <1>9, <2>5 DEF ProcessAppendEntriesServerResponse, current
    <3> HIDE DEF after
    <3>2. node' \in [Server -> Node] /\ DurableVote'
      BY <2>1, <2>4, <3>1, OneNodeChanges, Zenon
    <3>3. QED
      BY <3>1, <3>2 DEF DurableInv, TypeOK
  <2>6. CASE CommitIndexPastLog(c, current)
    <3>1. Die(n, current) /\ UNCHANGED <<elections, heartbeats, crashes>>
      BY <1>9, <2>6 DEF ProcessAppendEntriesServerResponse, current
    <3>2. QED
      BY <2>1, <2>3, <3>1, DieFacts DEF DurableInv, TypeOK
  <2>7. QED
    BY <2>5, <2>6
<1>10. ASSUME NEW c \in appendCalls, ProcessAppendEntriesThrows(c)
       PROVE  DurableInv'
  <2> DEFINE n == c.to
             current == ObserveTerm(node[n], c.term)
             log == IF ConfigurationLost(c, current) THEN TruncatedLog(c, current)
                    ELSE MergedLog(c, current)
             r == [FollowTerm(c, current) EXCEPT !.log = log]
  <2>1. c \in AppendCall /\ n \in Server /\ c.term \in Nat /\ node[n] \in Node
    BY <1>1 DEF AppendCall
  <2>2. /\ LogsAgree(c, current) /\ Die(n, r)
        /\ UNCHANGED <<elections, heartbeats, crashes>>
    BY <1>10 DEF ProcessAppendEntriesThrows
  <2>3. current \in Node
    BY <2>1, ObserveTermFacts
  <2> HIDE DEF current
  <2>4. log \in Seq(Entry)
    BY <2>1, <2>2, <2>3, MergedLogFacts
  <2> HIDE DEF log
  <2>5. r \in Node
    BY <2>1, <2>3, <2>4, FollowTermFacts, LogUpdate DEF SameElection
  <2> HIDE DEF r
  <2>6. QED
    BY <2>1, <2>2, <2>5, DieFacts DEF DurableInv, TypeOK
<1>11. ASSUME NEW n \in Server, ElectionCallbackIgnored(n)
       PROVE  DurableInv'
  <2>1. node[n] \in Node /\ node[n].up /\ Durable(node[n])
    BY <1>1, <1>11 DEF ElectionCallbackIgnored
  <2> DEFINE r == [node[n] EXCEPT !.electionTimer = NoTimer]
  <2>2. r \in Node /\ Durable(r)
    BY <2>1, TimerUpdate, Zenon DEF SameElection
  <2>3. node' = [node EXCEPT ![n] = r]
    BY <1>11 DEF ElectionCallbackIgnored
  <2> HIDE DEF r
  <2>4. QED
    BY <1>11, <2>2, <2>3, OneNodeChanges, Zenon DEF ElectionCallbackIgnored, DurableInv, TypeOK
<1>12. ASSUME NEW n \in Server, HeartbeatCallbackThrows(n)
       PROVE  DurableInv'
  <2> DEFINE nd == node[n]
             servable == {p \in Peers(n, nd) : InRange(nd, p) /\ FreeSlots(n, p) # {}}
             calls(before) == appendCalls \cup {AppendEntries(n, nd, p) : p \in before}
  <2>1. nd \in Node
    BY <1>1
  <2>2. PICK before \in SUBSET servable : appendCalls' = DropCalls(calls(before), n)
    BY <1>12 DEF HeartbeatCallbackThrows
  <2>3. \A p \in before : AppendEntries(n, nd, p) \in AppendCall
    <3>1. \A p \in before : p \in Server /\ nd.nextIndex[p] \in 0..LogSize(nd) /\ FreeSlots(n, p) # {}
      BY <2>1 DEF InRange, Peers, Node
    <3>2. QED
      BY <2>1, <3>1, AppendEntriesType
  <2>4. calls(before) \subseteq AppendCall
    BY <1>1, <2>3
  <2>5. appendCalls' \subseteq AppendCall
    BY <2>2, <2>4, DropCallsType
  <2>6. voteCalls' \subseteq VoteCall
    BY <1>1, <1>12, DropCallsType DEF HeartbeatCallbackThrows
  <2>7. node' \in [Server -> Node] /\ DurableVote'
    BY <1>12, <2>1, CrashedFacts, OneNodeChanges, Zenon DEF HeartbeatCallbackThrows
  <2>8. QED
    BY <1>12, <2>5, <2>6, <2>7 DEF HeartbeatCallbackThrows, DurableInv, TypeOK
<1>13. ASSUME NEW n \in Server, LeaseExpires(n)
       PROVE  DurableInv'
  <2> DEFINE r == [node[n] EXCEPT !.leaseCallback = TRUE]
  <2>1. node[n] \in Node
    BY <1>1
  <2>2. SameElection(r, node[n]) /\ node' = [node EXCEPT ![n] = r]
    BY <1>13, <2>1, LeaseUpdate, Zenon DEF LeaseExpires
  <2>3. r \in Node /\ (r.up => Durable(r))
    <3> HIDE DEF r
    <3>1. r.up = node[n].up
      BY <2>2 DEF SameElection, ElectionPart
    <3>2. QED
      BY <1>1, <2>2, <3>1 DEF SameElection
  <2> HIDE DEF r
  <2>4. QED
    BY <1>13, <2>2, <2>3, OneNodeChanges, Zenon DEF LeaseExpires, DurableInv, TypeOK
<1>14. ASSUME NEW n \in Server, LeaseCallback(n)
       PROVE  DurableInv'
  <2> DEFINE f == ResetToFollower(node[n], node[n].startupTerm)
             r == [f EXCEPT !.leaseCallback = FALSE]
  <2>1. node[n] \in Node /\ node[n].startupTerm \in Nat
    BY <1>1 DEF Node
  <2>2. node' = [node EXCEPT ![n] = r]
    BY <1>14 DEF LeaseCallback
  <2>3. f \in Node /\ Durable(f)
    BY <2>1, ResetToFollowerFacts, Zenon
  <2> HIDE DEF f
  <2>4. r \in Node /\ Durable(r)
    BY <2>3, LeaseUpdate, Zenon DEF SameElection
  <2> HIDE DEF r
  <2>5. QED
    BY <1>14, <2>2, <2>4, OneNodeChanges, Zenon DEF LeaseCallback, DurableInv, TypeOK
<1>15. ASSUME NEW n \in Server, Crash(n)
       PROVE  DurableInv'
  <2>1. crashes' \in 0..MaxCrashes
    BY <1>15, BoundAssumption DEF Crash, DurableInv, TypeOK
  <2>2. QED
    BY <1>1, <1>15, <2>1, DieFacts DEF Crash, DurableInv, TypeOK
<1>16. ASSUME NEW n \in Server, Restart(n)
       PROVE  DurableInv'
  <2> DEFINE nd == StateMachineInit(n, node[n])
             promoted == PromoteToLeader(n, nd)
  <2>1. nd \in Node /\ Durable(nd)
    BY <1>1, StateMachineInitFacts
  <2>2. /\ \/ node' = [node EXCEPT ![n] = promoted] /\ Elect(n, nd)
           \/ node' = [node EXCEPT ![n] = nd] /\ UNCHANGED elected
        /\ UNCHANGED <<voteCalls, appendCalls, ballots, elections, heartbeats, crashes>>
    BY <1>16 DEF Restart
  <2> HIDE DEF nd
  <2>3. promoted \in Node /\ Durable(promoted) /\ nd.term \in Nat /\ nd.voters \in SUBSET Server
    BY <2>1, PromoteToLeaderFacts, Zenon DEF Node
  <2> HIDE DEF promoted
  <2>4. node' \in [Server -> Node] /\ DurableVote'
    BY <2>1, <2>2, <2>3, OneNodeChanges
  <2>5. elected' \subseteq [term : Nat, leader : Server, voters : SUBSET Server]
    BY <2>2, <2>3 DEF Elect, DurableInv, TypeOK
  <2>6. QED
    BY <2>2, <2>4, <2>5 DEF DurableInv, TypeOK
<1>17. CASE UNCHANGED vars
  BY <1>17 DEF vars, DurableInv, TypeOK, DurableVote
<1>18. QED
  BY <1>2, <1>3, <1>4, <1>5, <1>6, <1>7, <1>8, <1>9, <1>10, <1>11, <1>12, <1>13, <1>14,
     <1>15, <1>16, <1>17 DEF Next, HandlerStep

\* The boot configuration is well typed and on disk
LEMMA DurableInit == Init => DurableInv
<1> SUFFICES ASSUME Init PROVE DurableInv
  OBVIOUS
<1>1. BootLog \in Seq(Entry)
  <2>1. \A i \in 1..4 : [term |-> 0, by |-> Bootstrap] \in Entry
    BY ServerAssumption DEF Entry
  <2>2. QED
    BY <2>1, SeqDef DEF BootLog
<1>2. ASSUME NEW n \in Server
      PROVE  BootNode(n) \in Node /\ Durable(BootNode(n))
  <2> DEFINE next == [p \in Server |-> IF n = Bootstrap /\ p # n THEN 4 ELSE 0]
             match == [p \in Server |-> IF n = Bootstrap /\ p # n THEN 3 ELSE 0]
  <2>1. next \in PeerIndex /\ match \in PeerIndex
    BY DEF PeerIndex
  <2>2. [term |-> 0, vote |-> Nil] \in Metadata
    BY DEF Metadata
  <2>3. BootNode(n) =
          [up |-> TRUE, term |-> 0, state |-> IF n = Bootstrap THEN "LEADER" ELSE "FOLLOWER",
           vote |-> Nil, votesReceived |-> 0, voters |-> {},
           commitIndex |-> 3, lastApplied |-> IF n = Bootstrap THEN -1 ELSE 3,
           nextIndex |-> next, matchIndex |-> match,
           servers |-> Server, configId |-> 3, configsKnown |-> TRUE,
           electionTimer |-> IF n = Bootstrap THEN NoTimer ELSE 0, heardLeader |-> n # Bootstrap,
           startupTerm |-> 0, leaseHolder |-> n = Bootstrap, leaseCallback |-> FALSE,
           renewLease |-> FALSE, respondingPeers |-> {},
           log |-> BootLog, metadata |-> [term |-> 0, vote |-> Nil]]
    BY DEF BootNode
  <2> HIDE DEF next, match
  <2>4. BootNode(n) \in Node
    BY <1>1, <2>1, <2>2, <2>3 DEF Node
  <2>5. Durable(BootNode(n))
    BY <2>3 DEF Durable
  <2>6. QED
    BY <2>4, <2>5
<1>3. node \in [Server -> Node] /\ DurableVote
  BY <1>2, Zenon DEF Init, DurableVote, Durable
<1>4. QED
  BY <1>3, ServerAssumption, BoundAssumption DEF Init, DurableInv, TypeOK

\* Every variable keeps its type, in every environment
THEOREM TypeCorrect == Spec => []TypeOK
<1>1. Init => DurableInv
  BY DurableInit
<1>2. DurableInv /\ [Next]_vars => DurableInv'
  BY DurableStep
<1>3. DurableInv => TypeOK
  BY DEF DurableInv
<1>4. QED
  BY <1>1, <1>2, <1>3, PTL DEF Spec

\* The term and the vote a running process works with are always on its disk
\* (StoreState is called before every reply that depends on them), whatever is
\* lost and whoever crashes: a restart never forgets a vote that was answered
THEOREM VoteDurable == Spec => []DurableVote
<1>1. Init => DurableInv
  BY DurableInit
<1>2. DurableInv /\ [Next]_vars => DurableInv'
  BY DurableStep
<1>3. DurableInv => DurableVote
  BY DEF DurableInv
<1>4. QED
  BY <1>1, <1>2, <1>3, PTL DEF Spec

-----------------------------------------------------------------------------
(* What the handlers do to a log *)

\* A piece of a log: terms of consecutive indices
IsPiece(f) ==
  /\ DOMAIN f \subseteq Nat
  /\ \A i, j \in DOMAIN f : \A k \in Nat : j <= k /\ k <= i => k \in DOMAIN f

Matching(f, g) ==
  \A i, j \in DOMAIN f \cap DOMAIN g : j <= i /\ f[i] = g[i] => f[j] = g[j]

\* What a log and a call tell of
LEMMA PieceOfLog ==
  ASSUME NEW l \in Seq(Entry)
  PROVE  /\ DOMAIN LogTerms(l) = 1..Len(l) /\ IsPiece(LogTerms(l))
         /\ \A i \in 1..Len(l) : LogTerms(l)[i] = l[i].term /\ l[i] \in Entry
BY DEF LogTerms, IsPiece

\* What an AppendEntries call tells of is a piece of a log
LEMMA PieceOfCall ==
  ASSUME NEW c \in AppendCall
  PROVE  /\ DOMAIN CallTerms(c) =
              (c.prevLogIndex + 1 .. c.prevLogIndex + 1 + Len(c.entries)) \ {0}
         /\ IsPiece(CallTerms(c))
         /\ c.prevLogIndex \in Nat => CallTerms(c)[c.prevLogIndex + 1] = c.prevLogTerm
         /\ \A i \in 1..Len(c.entries) :
              CallTerms(c)[c.prevLogIndex + 1 + i] = c.entries[i].term
<1>1. c.prevLogIndex \in Nat \cup {-1} /\ c.entries \in Seq(Entry) /\ Len(c.entries) \in Nat
  BY DEF AppendCall
<1> DEFINE p == c.prevLogIndex + 1
           n == Len(c.entries)
           D == (p .. p + n) \ {0}
<1>2. p \in Nat /\ n \in Nat
  BY <1>1
<1>3. CallTerms(c) = [i \in D |-> IF i = p THEN c.prevLogTerm ELSE c.entries[i - p].term]
  BY DEF CallTerms
<1>4. \A i \in 1..n : p + i \in D /\ p + i # p /\ (p + i) - p = i
  BY <1>2
<1>5. c.prevLogIndex \in Nat => p \in D
  BY <1>2
<1>6. D \subseteq Nat /\ \A i, j \in D : \A k \in Nat : j <= k /\ k <= i => k \in D
  BY <1>2
<1> HIDE DEF D, p, n
<1>7. DOMAIN CallTerms(c) = D
  BY <1>3
<1>8. IsPiece(CallTerms(c))
  BY <1>6, <1>7, ZenonT(60) DEF IsPiece
<1>9. c.prevLogIndex \in Nat => CallTerms(c)[p] = c.prevLogTerm
  BY <1>3, <1>5
<1>10. \A i \in 1..n : CallTerms(c)[p + i] = c.entries[i].term
  BY <1>3, <1>4
<1>11. QED
  BY <1>7, <1>8, <1>9, <1>10 DEF D, p, n

\* m is piece g, of indices a to b, on top of what f has before it
Takes(m, f, g, a, b) ==
  /\ DOMAIN g = (a..b) \ {0} /\ DOMAIN m = 1..b
  /\ \A i \in 1..b : i < a => i \in DOMAIN f /\ m[i] = f[i]
  /\ \A i \in 1..b : a <= i => m[i] = g[i]
  /\ 1 <= a => a \in DOMAIN f /\ f[a] = g[a]

\* A log that takes the entries of a call it agrees with matches what both match
LEMMA MergedMatches ==
  ASSUME NEW f, NEW g, NEW h, NEW m, NEW a \in Nat, NEW b \in Nat, Takes(m, f, g, a, b),
         IsPiece(h), Matching(f, h), Matching(g, h)
  PROVE  Matching(m, h) /\ Matching(h, m)
<1>1. SUFFICES ASSUME NEW i \in DOMAIN m \cap DOMAIN h, NEW j \in DOMAIN m \cap DOMAIN h,
                      j <= i, m[i] = h[i]
               PROVE  m[j] = h[j]
  BY DEF Matching
<1>2. i \in 1..b /\ j \in 1..b
  BY DEF Takes
<1>3. CASE i < a
  BY <1>1, <1>2, <1>3 DEF Matching, Takes
<1>4. CASE a <= j
  BY <1>1, <1>2, <1>4 DEF Matching, Takes
<1>5. CASE j < a /\ a <= i
  <2>1. a \in DOMAIN h /\ a \in DOMAIN f /\ a \in DOMAIN g /\ f[a] = g[a]
    BY <1>1, <1>2, <1>5 DEF IsPiece, Takes
  <2>2. g[a] = h[a]
    BY <1>1, <1>2, <1>5, <2>1 DEF Matching, Takes
  <2>3. QED
    BY <1>1, <1>2, <1>5, <2>1, <2>2 DEF Matching, Takes
<1>6. QED
  BY <1>2, <1>3, <1>4, <1>5

\* The handler's count of entries the log already holds is exact
LEMMA HeldAgree ==
  ASSUME NEW nd \in Node, NEW c \in AppendCall, LogsAgree(c, nd),
         NEW j \in 1..Held(c, nd)
  PROVE  nd.log[c.prevLogIndex + 1 + j].term = c.entries[j].term
<1> DEFINE S == {k \in 1..Len(c.entries) : Holds(c, nd, k)}
           h == Cardinality(S)
<1>1. c.prevLogIndex \in Nat \cup {-1} /\ Len(c.entries) \in Nat
  BY DEF AppendCall
<1>2. Held(c, nd) = h /\ h \in 0..Len(c.entries)
  BY HeldFacts DEF Held
<1>3. IsFiniteSet(S)
  <2> DEFINE all == 1..Len(c.entries)
  <2>1. IsFiniteSet(all)
    <3> DEFINE n == Len(c.entries)
    <3>1. n \in Int /\ 1 \in Int
      BY <1>1
    <3> HIDE DEF n
    <3>2. IsFiniteSet(1..n)
      BY <3>1, FS_Interval
    <3>3. QED
      BY <3>2 DEF n
  <2>2. S \in SUBSET all
    OBVIOUS
  <2> HIDE DEF S, all
  <2>3. QED
    BY <2>1, <2>2, FS_Subset
<1>4. \A k \in S : k <= h
  <2>1. SUFFICES ASSUME NEW k \in S PROVE k <= h
    OBVIOUS
  <2>2. k \in Nat /\ k >= 1 /\ 1..k \in SUBSET S
    BY <1>1 DEF Holds
  <2>3. Cardinality(1..k) = k
    BY <2>2, FS_Interval
  <2> HIDE DEF S
  <2>4. QED
    BY <1>3, <2>2, <2>3, FS_Subset
<1>5. S \in SUBSET (1..h)
  BY <1>1, <1>4
<1>6. IsFiniteSet(1..h) /\ Cardinality(1..h) = h
  BY <1>2, FS_Interval
<1>7. S = 1..h
  <2> HIDE DEF S
  <2>1. Cardinality(1..h) = Cardinality(S)
    BY <1>6
  <2>2. QED
    BY <1>5, <1>6, <2>1, FS_Subset, ZenonT(60)
<1>8. j \in S
  BY <1>2, <1>7
<1>9. QED
  BY <1>1, <1>8 DEF Holds

\* The log after an AppendEntries request: the handler's own, or the call's
\* entries on top of what lies before them
LEMMA MergedLogIs ==
  ASSUME NEW nd \in Node, NEW c \in AppendCall, LogsAgree(c, nd),
         MergedLog(c, nd) # nd.log,
         NEW l, l = MergedLog(c, nd), NEW a, a = c.prevLogIndex + 1
  PROVE  /\ l \in Seq(Entry) /\ a \in Nat /\ Len(l) = a + Len(c.entries)
         /\ \A i \in 1..Len(l) : i < a => i \in DOMAIN nd.log /\ l[i] = nd.log[i]
         /\ \A i \in 1..Len(l) : a <= i => l[i].term = CallTerms(c)[i]
         /\ \A i \in 1..Len(l) : \/ i \in DOMAIN nd.log /\ l[i] = nd.log[i]
                                 \/ i - a \in DOMAIN c.entries /\ l[i] = c.entries[i - a]
         /\ 1 <= a => a \in DOMAIN nd.log /\ nd.log[a].term = CallTerms(c)[a]
<1> DEFINE h == Held(c, nd)
           s == Len(c.entries)
           old == SubSeq(nd.log, 1, a + h)
           new == SubSeq(c.entries, h + 1, s)
<1>1. /\ nd.log \in Seq(Entry) /\ c.entries \in Seq(Entry) /\ s \in Nat /\ a \in Nat
      /\ c.prevLogIndex \in Nat \cup {-1}
  BY SMTT(30) DEF Node, AppendCall
<1>2. h \in 0..s /\ a + h \in 0..Len(nd.log)
  BY HeldFacts DEF LogSize
<1>3. a \in Int /\ h \in Int /\ s \in Int /\ 0 <= a /\ 0 <= h /\ h <= s
  BY <1>1, <1>2
<1>4. l = old \o new
  BY Zenon DEF MergedLog, TruncatedLog
<1>5. \A j \in 1..h : nd.log[a + j].term = c.entries[j].term
  BY HeldAgree
<1>6. 1 <= a => nd.log[a].term = CallTerms(c)[a] /\ a \in DOMAIN nd.log
  <2>1. 1 <= a => CallTerms(c)[a] = c.prevLogTerm
    <3>1. 1 <= a => c.prevLogIndex \in Nat
      BY <1>1
    <3>2. QED
      BY <3>1, PieceOfCall, Zenon
  <2>2. 1 <= a => c.prevLogIndex # -1
    BY <1>1
  <2>3. QED
    BY <1>1, <1>2, <2>1, <2>2 DEF LogsAgree
<1>7. \A i \in 1..s : CallTerms(c)[a + i] = c.entries[i].term
  BY PieceOfCall, ZenonT(60)
<1> HIDE DEF h, s
<1>8. /\ old \in Seq(Entry) /\ Len(old) = a + h
      /\ \A i \in 1..(a + h) : old[i] = nd.log[i]
  BY <1>1, <1>2, SubSeqProperties
<1>9. /\ new \in Seq(Entry) /\ Len(new) = s - h
      /\ \A i \in 1..(s - h) : new[i] = c.entries[h + i]
  BY <1>1, <1>2, SubSeqProperties DEF s
<1> HIDE DEF old, new
<1>10. /\ l \in Seq(Entry) /\ Len(l) = a + s
      /\ \A i \in 1..(a + s) : l[i] = IF i <= a + h THEN nd.log[i] ELSE c.entries[i - a]
  <2>1. /\ l \in Seq(Entry) /\ Len(l) = Len(old) + Len(new)
        /\ \A i \in 1..(Len(old) + Len(new)) :
             l[i] = IF i <= Len(old) THEN old[i] ELSE new[i - Len(old)]
    BY <1>4, <1>8, <1>9, ConcatProperties, SMTT(30)
  <2>2. Len(old) + Len(new) = a + s
    BY <1>1, <1>2, <1>8, <1>9
  <2>3. ASSUME NEW i \in 1..(a + s)
        PROVE  l[i] = IF i <= a + h THEN nd.log[i] ELSE c.entries[i - a]
    <3>1. CASE i <= a + h
      <4>1. i \in 1..(a + h)
        BY <1>3, <3>1
      <4>2. QED
        BY <1>8, <2>1, <2>2, <3>1, <4>1
    <3>2. CASE ~(i <= a + h)
      <4>1. i - (a + h) \in 1..(s - h) /\ h + (i - (a + h)) = i - a
        BY <1>3, <3>2
      <4>2. QED
        BY <1>8, <1>9, <2>1, <2>2, <3>2, <4>1
    <3>3. QED
      BY <3>1, <3>2
  <2>4. QED
    BY <2>1, <2>2, <2>3
<1>11. \A i \in 1..(a + s) : i < a => i \in DOMAIN nd.log /\ l[i] = nd.log[i]
  BY <1>1, <1>2, <1>10
<1>12. ASSUME NEW i \in 1..(a + s), a <= i
       PROVE  l[i].term = CallTerms(c)[i]
  <2>1. CASE i = a
    <3>1. i <= a + h /\ 1 <= a
      BY <1>3, <2>1
    <3>2. QED
      BY <1>6, <1>10, <2>1, <3>1
  <2>2. CASE i # a
    <3>1. i - a \in 1..s /\ a + (i - a) = i
      BY <1>1, <1>12, <2>2
    <3>2. CallTerms(c)[i] = c.entries[i - a].term
      BY <1>7, <3>1
    <3>3. i <= a + h => nd.log[i].term = c.entries[i - a].term
      <4>1. i <= a + h => i - a \in 1..h
        BY <1>1, <1>2, <3>1
      <4>2. QED
        BY <1>5, <3>1, <4>1
    <3>4. QED
      BY <1>10, <3>2, <3>3
  <2>3. QED
    BY <2>1, <2>2
<1>13. \A i \in 1..(a + s) : \/ i \in DOMAIN nd.log /\ l[i] = nd.log[i]
                             \/ i - a \in DOMAIN c.entries /\ l[i] = c.entries[i - a]
  BY <1>1, <1>2, <1>10, SMTT(30) DEF s
<1>14. QED
  BY <1>1, <1>6, <1>10, <1>11, <1>12, <1>13 DEF s

\* The functions on a node's record that leave its log alone
LEMMA StepDownKeepsLog ==
  ASSUME NEW nd \in Node, NEW t
  PROVE  /\ StoreState(nd).log = nd.log
         /\ ScheduleElection(nd, t).log = nd.log
         /\ ResetToFollower(nd, t).log = nd.log
         /\ HearLeader(nd, t).log = nd.log
         /\ ObserveTerm(nd, t).log = nd.log
BY DEF StoreState, ScheduleElection, ResetToFollower, HearLeader, ObserveTerm, Node

\* Nor does becoming a candidate
LEMMA ElectionKeepsLog ==
  ASSUME NEW nd \in Node, NEW n, NEW c
  PROVE  /\ BecomeCandidate(n, nd).log = nd.log
         /\ GrantVote(nd, n).log = nd.log
         /\ CountVote(c, nd).log = nd.log
BY DEF BecomeCandidate, GrantVote, CountVote, StoreState, ScheduleElection, Node

\* A promotion appends the NO_OP entry
LEMMA PromotionAppends ==
  ASSUME NEW nd \in Node, NEW n
  PROVE  PromoteToLeader(n, nd).log = Append(nd.log, [term |-> nd.term, by |-> n])
BY DEF PromoteToLeader, Node

\* Following the leader of a call keeps the log
LEMMA FollowingKeepsLog ==
  ASSUME NEW nd \in Node, NEW c
  PROVE  FollowTerm(c, nd).log = nd.log /\ FollowerCommit(c, nd).log = nd.log
BY StepDownKeepsLog DEF FollowTerm, FollowerCommit, Node

\* So does committing
LEMMA CommitKeepsLog ==
  ASSUME NEW nd \in Node, NEW n \in Server
  PROVE  UpdateCommitIndex(n, nd).log = nd.log
<1> DEFINE r == [nd EXCEPT !.commitIndex = NewCommitIndex(n, nd)]
<1>1. r \in Node
  BY NewCommitIndexFacts, CommitUpdate, Zenon DEF SameElection
<1>2. r.log = nd.log
  BY DEF Node
<1>3. UpdateCommitIndex(n, nd) = IF r.commitIndex >= nd.configId /\ n \notin nd.servers
                                   THEN ResetToFollower(r, nd.term + 1) ELSE r
  BY DEF UpdateCommitIndex, KnownServer
<1> HIDE DEF r
<1>4. QED
  BY <1>1, <1>2, <1>3, StepDownKeepsLog

\* So does what a leader does with a reply
LEMMA AppendReplyKeepsLog ==
  ASSUME NEW nd \in Node, NEW c \in AppendCall
  PROVE  AfterAppendReply(c, nd).log = nd.log
<1> DEFINE r == RenewLease(c, nd)
           a == AdvancePeer(c, r)
<1>1. c.from \in Server /\ c.to \in Server /\ c.entries \in Seq(Entry)
  BY DEF AppendCall
<1>2. r \in Node /\ r.log = nd.log
  BY <1>1, RenewLeaseFacts, ZenonT(60) DEF RenewLease, SameElection, Node
<1> HIDE DEF r
<1>3. a \in Node /\ a.log = r.log
  BY <1>1, <1>2, AdvancePeerFacts, Zenon DEF AdvancePeer, SameElection, Node
<1>4. BackUpPeer(c, nd).log = nd.log
  BY DEF BackUpPeer, Node
<1> HIDE DEF a
<1>5. QED
  BY <1>1, <1>2, <1>3, <1>4, CommitKeepsLog DEF AfterAppendReply, r, a

=============================================================================
