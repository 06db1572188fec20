---------------------------- MODULE PromptProofs ----------------------------
(***************************************************************************)
(* PromptSpec for any number of servers: a term has at most one LEADER,    *)
(* logs match, and terms never decrease.                                   *)
(*                                                                         *)
(* The invariant of the elections is ElectionInv.  A majority of ballots   *)
(* stands behind every promotion after term 0, and two majorities share a  *)
(* voter.  That voter cast a ballot for both leaders: as a third node it   *)
(* would have given two ballots to others (OneBallot), as the node being   *)
(* promoted it would be a FOLLOWER (BallotsHeld), as the one promoted      *)
(* before it would have been both (NotBoth).                               *)
(*                                                                         *)
(* The invariant of the logs is LogInv.  The logs and the parts of logs in *)
(* flight agree below every index at which they have one term, and the     *)
(* LEADER of its term made every entry.  A follower's merged log is its    *)
(* own below the entry the call names and the call's from there on, and    *)
(* the two agree at that entry.  A promotion adds an entry of a term that  *)
(* was not led before, so no piece has an entry of it.                     *)
(***************************************************************************)
EXTENDS ConsensusProofs

PromptInv == DurableInv /\ ElectionInv

Ballot == [term : Nat, voter : Server, candidate : Server]

Promotion == [term : Nat, leader : Server, voters : SUBSET Server]

\* The types of what an election is about
LEMMA Typed ==
  ASSUME PromptInv
  PROVE  /\ node \in [Server -> Node]
         /\ \A n \in Server : node[n] \in Node /\ node[n].term \in Nat
         /\ voteCalls \subseteq VoteCall /\ appendCalls \subseteq AppendCall
         /\ \A c \in voteCalls : c.from \in Server /\ c.to \in Server /\ c.term \in Nat
         /\ \A c \in appendCalls : c.from \in Server /\ c.to \in Server /\ c.term \in Nat
         /\ ballots \subseteq Ballot /\ elected \subseteq Promotion
         /\ \A b \in ballots : b.term \in Nat /\ b.voter \in Server /\ b.candidate \in Server
         /\ \A e \in elected : e.term \in Nat /\ e.leader \in Server
<1>1. /\ node \in [Server -> Node] /\ ballots \subseteq Ballot /\ elected \subseteq Promotion
      /\ voteCalls \subseteq VoteCall /\ appendCalls \subseteq AppendCall
  BY DEF PromptInv, DurableInv, TypeOK, Ballot, Promotion
<1>2. \A n \in Server : node[n] \in Node /\ node[n].term \in Nat
  BY <1>1 DEF Node
<1>3. /\ \A c \in voteCalls : c.from \in Server /\ c.to \in Server /\ c.term \in Nat
      /\ \A c \in appendCalls : c.from \in Server /\ c.to \in Server /\ c.term \in Nat
  BY <1>1 DEF VoteCall, AppendCall
<1>4. /\ \A b \in ballots : b.term \in Nat /\ b.voter \in Server /\ b.candidate \in Server
      /\ \A e \in elected : e.term \in Nat /\ e.leader \in Server
  BY <1>1 DEF Ballot, Promotion
<1>5. QED
  BY <1>1, <1>2, <1>3, <1>4

\* A step that changes no field an election depends on
LEMMA KeepElection ==
  ASSUME PromptInv, NEW n \in Server, NEW r \in Node,
         ElectionPart(r) = ElectionPart(node[n]),
         node' = [node EXCEPT ![n] = r],
         voteCalls' \subseteq voteCalls, UNCHANGED <<ballots, elected>>,
         SendersElected'
  PROVE  ElectionInv'
<1>1. \A m \in Server :
        /\ node'[m].up = node[m].up /\ node'[m].term = node[m].term
        /\ node'[m].state = node[m].state /\ node'[m].vote = node[m].vote
        /\ node'[m].votesReceived = node[m].votesReceived
        /\ node'[m].voters = node[m].voters /\ node'[m].servers = node[m].servers
  BY Typed DEF ElectionPart
<1>2. Settled' /\ VotesCounted' /\ LeadersElected'
  BY <1>1 DEF PromptInv, ElectionInv, Settled, VotesCounted, LeadersElected
<1>3. BallotsHeld' /\ ElectedSound'
  BY <1>1, Typed DEF PromptInv, ElectionInv, BallotsHeld, ElectedSound
<1>4. VoteCallsSound' /\ OneVoteCall'
  BY <1>1, Typed DEF PromptInv, ElectionInv, VoteCallsSound, OneVoteCall
<1>5. OneBallot' /\ NotBoth' /\ OneLeaderPerTerm'
  BY DEF PromptInv, ElectionInv, OneBallot, NotBoth, OneLeaderPerTerm
<1>6. QED
  BY <1>2, <1>3, <1>4, <1>5 DEF ElectionInv

\* A node that becomes a FOLLOWER without a vote, of a later term or of the
\* term it is CANDIDATE in, takes no ballot and no promotion back
LEMMA StepDown ==
  ASSUME PromptInv, NEW n \in Server, NEW r \in Node, NEW t \in Nat,
         ElectionPart(r) = <<node[n].up, t, "FOLLOWER", Nil, 0, {}, node[n].servers>>,
         t > node[n].term \/ (t = node[n].term /\ node[n].state = "CANDIDATE"),
         node' = [node EXCEPT ![n] = r],
         voteCalls' \subseteq voteCalls, UNCHANGED <<ballots, elected>>,
         SendersElected'
  PROVE  ElectionInv'
<1>1. /\ node'[n].up = node[n].up /\ node'[n].term = t /\ node'[n].state = "FOLLOWER"
      /\ node'[n].servers = node[n].servers
      /\ \A m \in Server \ {n} : node'[m] = node[m]
      /\ t >= node[n].term
  BY Typed DEF ElectionPart
<1>2. Settled' /\ VotesCounted' /\ LeadersElected'
  BY <1>1 DEF PromptInv, ElectionInv, Settled, VotesCounted, LeadersElected
<1>3. BallotsHeld'
  BY <1>1, Typed DEF PromptInv, ElectionInv, BallotsHeld
<1>4. ElectedSound'
  BY <1>1, Typed DEF PromptInv, ElectionInv, ElectedSound
<1>5. VoteCallsSound' /\ OneVoteCall'
  BY <1>1, Typed DEF PromptInv, ElectionInv, VoteCallsSound, OneVoteCall
<1>6. OneBallot' /\ NotBoth' /\ OneLeaderPerTerm'
  BY DEF PromptInv, ElectionInv, OneBallot, NotBoth, OneLeaderPerTerm
<1>7. QED
  BY <1>2, <1>3, <1>4, <1>5, <1>6 DEF ElectionInv

\* A node starts an election: it has no ballot and no call of the next term yet
LEMMA ElectionCallbackKeeps ==
  ASSUME PromptInv, NEW n \in Server, ElectionCallback(n)
  PROVE  ElectionInv'
<1> DEFINE nd == node[n]
           b == BecomeCandidate(n, nd)
           t == nd.term + 1
           new == [term |-> t, voter |-> n, candidate |-> n]
<1>1. /\ nd \in Node /\ nd.term \in Nat /\ nd.up /\ nd.servers = Server
      /\ t \in Nat /\ t > 0 /\ t > nd.term
  BY Typed DEF PromptInv, ElectionInv, Settled
<1>2. /\ b \in Node
      /\ ElectionPart(b) = <<nd.up, t, "CANDIDATE", n, 1, {n}, nd.servers>>
      /\ b.term = t /\ b.voters = {n}
  <2>1. b \in Node /\ ElectionPart(b) = <<nd.up, t, "CANDIDATE", n, 1, {n}, nd.servers>>
    BY <1>1, BecomeCandidateFacts, Zenon
  <2>2. QED
    BY <2>1 DEF ElectionPart
<1>3. Cardinality({n}) = 1 /\ IsFiniteSet({n})
  BY FS_Singleton
<1>4. ballots' = ballots \cup {new} /\ UNCHANGED appendCalls
  BY <1>2 DEF ElectionCallback, Cast
<1>5. /\ BallotsHeld /\ OneBallot /\ VotesCounted /\ VoteCallsSound /\ OneVoteCall
      /\ ElectedSound /\ NotBoth /\ LeadersElected /\ SendersElected /\ OneLeaderPerTerm
      /\ Settled
  BY DEF PromptInv, ElectionInv
<1>6. OneBallot'
  BY <1>4, <1>5 DEF OneBallot
<1>7. \A c \in voteCalls : c.from = n => c.term < t
  <2>1. \A c \in voteCalls : c.from = n => c.term <= nd.term
    BY <1>5, Zenon DEF VoteCallsSound
  <2>2. QED
    BY <1>1, <2>1, Typed
<1>8. CASE Server = {n}
  <2> DEFINE p == PromoteToLeader(n, b)
             won == [term |-> t, leader |-> n, voters |-> {n}]
  <2>1. node' = [node EXCEPT ![n] = p] /\ elected' = elected \cup {won} /\ UNCHANGED voteCalls
    BY <1>1, <1>2, <1>8 DEF ElectionCallback, Elect
  <2>2. ElectionPart(p) = <<nd.up, t, "LEADER", n, 0, {n}, nd.servers>>
    BY <1>2, PromoteToLeaderFacts DEF ElectionPart
  <2>3. /\ node'[n].up /\ node'[n].term = t /\ node'[n].state = "LEADER"
        /\ node'[n].servers = Server
        /\ \A m \in Server : m = n
    BY <1>1, <1>8, <2>1, <2>2, Typed, Zenon DEF ElectionPart
  <2>4. won.term = t /\ won.leader = n /\ won.voters = {n} /\ won \in elected'
    BY <2>1
  <2> HIDE DEF p, won, b, t
  <2>5. Settled' /\ VotesCounted' /\ LeadersElected'
    <3>1. Settled'
      BY <2>3 DEF Settled
    <3>2. VotesCounted'
      BY <2>3 DEF VotesCounted
    <3>3. LeadersElected'
      BY <2>3, <2>4 DEF LeadersElected
    <3>4. QED
      BY <3>1, <3>2, <3>3
  <2>6. BallotsHeld'
    BY <1>1, <1>4, <1>5, <2>3, Typed DEF BallotsHeld
  <2>7. VoteCallsSound' /\ OneVoteCall'
    BY <1>1, <1>5, <2>1, <2>3, Typed DEF VoteCallsSound, OneVoteCall
  <2>8. ElectedSound'
    <3>1. ASSUME NEW e \in elected
          PROVE  /\ e.term <= t /\ e.term # t
                 /\ e.leader = n
      BY <1>1, <1>5, <2>3, Typed DEF ElectedSound
    <3>2. Cardinality({n}) * 2 > Cardinality(Server)
      BY <1>3, <1>8
    <3>3. \A q \in {n} : [term |-> t, voter |-> q, candidate |-> n] \in ballots'
      BY <1>4
    <3> DEFINE Sound(e) ==
                 /\ e.term <= node'[e.leader].term
                 /\ e.term = node'[e.leader].term => node'[e.leader].state = "LEADER"
                 /\ IF e.term = 0 THEN e.leader = Bootstrap
                    ELSE /\ Cardinality(e.voters) * 2 > Cardinality(Server)
                         /\ \A q \in e.voters :
                              [term |-> e.term, voter |-> q, candidate |-> e.leader] \in ballots'
    <3>4. Sound(won)
      BY <1>1, <2>3, <2>4, <3>2, <3>3
    <3>5. ASSUME NEW e \in elected PROVE Sound(e)
      BY <1>4, <1>5, <2>3, <3>1 DEF ElectedSound
    <3>6. QED
      BY <2>1, <3>4, <3>5 DEF ElectedSound
  <2>9. NotBoth' /\ OneLeaderPerTerm'
    <3>1. \A d \in ballots' : d.voter = n /\ d.candidate = n
      BY <1>4, <2>3, Typed
    <3>2. \A e \in elected' : e.leader = n
      BY <2>1, <2>3, <2>4, Typed
    <3>3. QED
      BY <3>1, <3>2 DEF NotBoth, OneLeaderPerTerm
  <2>10. SendersElected'
    BY <1>4, <1>5, <2>1 DEF SendersElected
  <2>11. QED
    BY <1>6, <2>5, <2>6, <2>7, <2>8, <2>9, <2>10 DEF ElectionInv
<1>9. CASE Server # {n}
  <2> DEFINE s == ScheduleElection(b, b.term)
             asked == {RequestVote(n, b, q) : q \in Peers(n, nd)}
  <2>1. node' = [node EXCEPT ![n] = s] /\ voteCalls' = voteCalls \cup asked /\ UNCHANGED elected
    BY <1>1, <1>9 DEF ElectionCallback
  <2>2. ElectionPart(s) = <<nd.up, t, "CANDIDATE", n, 1, {n}, nd.servers>>
    BY <1>1, <1>2, ScheduleElectionFacts, Zenon
  <2>3. /\ node'[n].up /\ node'[n].term = t /\ node'[n].state = "CANDIDATE"
        /\ node'[n].vote = n /\ node'[n].votesReceived = 1 /\ node'[n].voters = {n}
        /\ node'[n].servers = Server
        /\ \A m \in Server \ {n} : node'[m] = node[m]
    BY <1>1, <2>1, <2>2, Typed, Zenon DEF ElectionPart
  <2>4. \A c \in asked : /\ c.from = n /\ c.to # n /\ c.term = t /\ c.phase = "request"
                         /\ c = RequestVote(n, b, c.to)
    BY <1>2 DEF RequestVote, Peers
  <2> HIDE DEF asked, s, b, t
  <2>5. Settled' /\ LeadersElected'
    BY <1>5, <2>1, <2>3 DEF Settled, LeadersElected
  <2>6. VotesCounted'
    <3>1. \A q \in {n} : [term |-> t, voter |-> q, candidate |-> n] \in ballots'
      BY <1>4
    <3>2. ASSUME NEW m \in Server \ {n}, node'[m].state = "CANDIDATE"
          PROVE  /\ node'[m].vote = m
                 /\ node'[m].votesReceived = Cardinality(node'[m].voters)
                 /\ \A q \in node'[m].voters :
                      [term |-> node'[m].term, voter |-> q, candidate |-> m] \in ballots'
      BY <1>4, <1>5, <2>3, <3>2 DEF VotesCounted
    <3>3. QED
      BY <1>3, <2>3, <3>1, <3>2 DEF VotesCounted
  <2>7. BallotsHeld'
    BY <1>1, <1>4, <1>5, <2>3, Typed DEF BallotsHeld
  <2>8. VoteCallsSound'
    <3>1. ASSUME NEW c \in asked
          PROVE  /\ c.phase # "orphan" /\ c.from # c.to /\ 0 < c.term
                 /\ c.term <= node'[c.from].term /\ c.phase # "reply"
                 /\ c.to \notin node'[c.from].voters
      BY <1>1, <2>3, <2>4
    <3>2. ASSUME NEW c \in voteCalls, c.from = n
          PROVE  c.term <= node'[c.from].term /\ c.term # node'[c.from].term
      BY <1>1, <1>7, <2>3, <3>2, Typed
    <3>3. QED
      BY <1>4, <1>5, <2>1, <2>3, <3>1, <3>2, Typed, ZenonT(60) DEF VoteCallsSound
  <2>9. OneVoteCall'
    BY <1>1, <1>5, <1>7, <2>1, <2>4, Typed DEF OneVoteCall
  <2>10. ElectedSound'
    BY <1>1, <1>4, <1>5, <2>1, <2>3, Typed DEF ElectedSound
  <2>11. NotBoth' /\ OneLeaderPerTerm' /\ SendersElected'
    BY <1>4, <1>5, <2>1 DEF NotBoth, OneLeaderPerTerm, SendersElected
  <2>12. QED
    BY <1>6, <2>5, <2>6, <2>7, <2>8, <2>9, <2>10, <2>11 DEF ElectionInv
<1>10. QED
  BY <1>8, <1>9

\* A leader's heartbeat
LEMMA HeartbeatCallbackKeeps ==
  ASSUME PromptInv, NEW n \in Server, HeartbeatCallback(n)
  PROVE  ElectionInv'
<1> DEFINE nd == node[n]
           sent == [nd EXCEPT !.renewLease = TRUE, !.respondingPeers = {n}]
           r == IF nd.servers = {n} THEN UpdateCommitIndex(n, sent) ELSE sent
           calls == {AppendEntries(n, nd, p) : p \in Peers(n, nd)}
<1>1. nd \in Node /\ nd.state = "LEADER"
  BY Typed DEF HeartbeatCallback
<1>2. SameElection(sent, nd)
  BY <1>1, LeaseUpdate, Zenon
<1>3. /\ node' = [node EXCEPT ![n] = r] /\ appendCalls' = appendCalls \cup calls
      /\ UNCHANGED <<voteCalls, ballots, elected>>
  BY DEF HeartbeatCallback
<1>4. r \in Node /\ ElectionPart(r) = ElectionPart(nd)
  <2> HIDE DEF sent
  <2>1. sent \in Node /\ sent.servers = nd.servers
    BY <1>2 DEF SameElection, ElectionPart
  <2>2. QED
    BY <1>2, <2>1, UpdateCommitIndexFacts DEF SameElection
<1>5. SendersElected'
  <2>1. \A c \in calls : c.from = n /\ c.to # n /\ c.term = nd.term /\ c.phase = "request"
    BY DEF AppendEntries, Peers
  <2>2. \E e \in elected : e.term = nd.term /\ e.leader = n
    BY <1>1 DEF PromptInv, ElectionInv, LeadersElected
  <2> HIDE DEF calls
  <2>3. QED
    BY <1>3, <2>1, <2>2 DEF PromptInv, ElectionInv, SendersElected
<1> HIDE DEF r
<1>6. QED
  BY <1>3, <1>4, <1>5, KeepElection, Zenon

\* A vote that is refused without a look at the terms
LEMMA RejectRequestVoteKeeps ==
  ASSUME PromptInv, NEW c \in voteCalls, RejectRequestVote(c)
  PROVE  ElectionInv'
<1> DEFINE r == [c EXCEPT !.phase = "reply", !.replyTerm = node[c.to].term, !.ok = FALSE]
<1>1. c \in VoteCall /\ c.phase # "orphan"
  BY Typed, Zenon DEF PromptInv, ElectionInv, VoteCallsSound
<1>2. /\ voteCalls' = (voteCalls \ {c}) \cup {r}
      /\ UNCHANGED <<node, appendCalls, ballots, elected>>
  BY <1>1 DEF RejectRequestVote, Replied
<1>3. /\ r.from = c.from /\ r.to = c.to /\ r.term = c.term
      /\ r.phase = "reply" /\ r.ok = FALSE
  BY <1>1 DEF VoteCall
<1> HIDE DEF r
<1>4. VoteCallsSound'
  BY <1>2, <1>3, ZenonT(60) DEF PromptInv, ElectionInv, VoteCallsSound
<1>5. OneVoteCall'
  BY <1>2, <1>3 DEF PromptInv, ElectionInv, OneVoteCall
<1>6. QED
  BY <1>2, <1>4, <1>5
  DEF PromptInv, ElectionInv, Settled, BallotsHeld, OneBallot, VotesCounted, ElectedSound,
      NotBoth, LeadersElected, SendersElected, OneLeaderPerTerm

\* A vote that is considered.  The voter is not LEADER, so it was not promoted
\* in the term it is in, and a vote it gave in that term is the one it holds.
LEMMA ProcessRequestVoteKeeps ==
  ASSUME PromptInv, NEW c \in voteCalls, ProcessRequestVoteClientRequest(c)
  PROVE  ElectionInv'
<1> DEFINE n == c.to
           nd == node[n]
           heard == [nd EXCEPT !.heardLeader = FALSE]
           current == ObserveTerm(heard, c.term)
           granted == VoteGranted(c, current)
           after == IF granted THEN GrantVote(current, c.from) ELSE current
           r == [c EXCEPT !.phase = "reply", !.replyTerm = after.term, !.ok = granted]
           new == [term |-> c.term, voter |-> n, candidate |-> c.from]
<1>1. /\ c \in VoteCall /\ n \in Server /\ c.from \in Server /\ c.term \in Nat
      /\ nd \in Node /\ nd.term \in Nat
  BY Typed
<1>2. /\ BallotsHeld /\ OneBallot /\ VotesCounted /\ VoteCallsSound /\ OneVoteCall
      /\ ElectedSound /\ NotBoth /\ LeadersElected /\ SendersElected /\ OneLeaderPerTerm
      /\ Settled
  BY DEF PromptInv, ElectionInv
<1>3. c.phase # "orphan" /\ c.from # n /\ 0 < c.term
  BY <1>2, Zenon DEF VoteCallsSound
<1>4. /\ nd.state # "LEADER"
      /\ node' = [node EXCEPT ![n] = after]
      /\ voteCalls' = (voteCalls \ {c}) \cup {r}
      /\ ballots' = IF granted THEN ballots \cup {new} ELSE ballots
      /\ UNCHANGED <<appendCalls, elected>>
  BY <1>3 DEF ProcessRequestVoteClientRequest, Replied, Cast
<1>5. heard \in Node /\ ElectionPart(heard) = ElectionPart(nd)
  BY <1>1, TimerUpdate, Zenon DEF SameElection
<1>6. granted <=> /\ c.term = current.term /\ current.vote \in {Nil, c.from}
                  /\ UpToDate(c, current)
  BY DEF VoteGranted
<1> HIDE DEF heard
<1>7. /\ current \in Node
      /\ ElectionPart(current) =
           IF c.term > nd.term THEN <<nd.up, c.term, "FOLLOWER", Nil, 0, {}, nd.servers>>
           ELSE ElectionPart(nd)
  <2>1. heard.term = nd.term /\ heard.up = nd.up /\ heard.servers = nd.servers
    BY <1>5 DEF ElectionPart
  <2>2. QED
    BY <1>1, <1>5, <2>1, ObserveTermFacts, Zenon
<1> HIDE DEF current
<1>8. /\ current.up = nd.up /\ current.servers = nd.servers
      /\ current.term >= nd.term /\ current.term \in Nat
      /\ \/ /\ current.term > nd.term /\ current.state = "FOLLOWER"
         \/ /\ current.term = nd.term /\ current.state = nd.state /\ current.vote = nd.vote
            /\ current.votesReceived = nd.votesReceived /\ current.voters = nd.voters
  BY <1>1, <1>7 DEF ElectionPart
<1>9. granted => current.state = "FOLLOWER"
  <2>1. CASE nd.state = "CANDIDATE" /\ current.term = nd.term
    <3>1. nd.vote = n
      BY <1>1, <1>2, <2>1 DEF VotesCounted
    <3>2. QED
      BY <1>1, <1>3, <1>6, <1>8, <2>1, <3>1, ServerAssumption
  <2>2. CASE ~(nd.state = "CANDIDATE" /\ current.term = nd.term)
    <3>1. nd.state \in {"CANDIDATE", "FOLLOWER"}
      BY <1>1, <1>4 DEF Node
    <3>2. QED
      BY <1>8, <2>2, <3>1
  <2>3. QED
    BY <2>1, <2>2
<1>10. /\ after \in Node
       /\ ElectionPart(after) =
            IF granted THEN <<current.up, current.term, current.state, c.from,
                              current.votesReceived, current.voters, current.servers>>
            ELSE ElectionPart(current)
  <2> HIDE DEF granted
  <2>1. QED
    BY <1>1, <1>7, GrantVoteFacts, Zenon
<1>11. /\ after.up = nd.up /\ after.servers = nd.servers
       /\ after.term = current.term /\ after.state = current.state
       /\ after.vote = IF granted THEN c.from ELSE current.vote
       /\ after.votesReceived = current.votesReceived /\ after.voters = current.voters
  <2> HIDE DEF granted, after
  <2>1. QED
    BY <1>8, <1>10 DEF ElectionPart
<1>12. /\ r.from = c.from /\ r.to = c.to /\ r.term = c.term /\ r.phase = "reply"
       /\ r.replyTerm = after.term /\ (r.ok <=> granted)
  BY <1>1 DEF VoteCall
<1> HIDE DEF granted, after, r
<1>13. node'[n] = after /\ \A m \in Server \ {n} : node'[m] = node[m]
  BY <1>1, <1>4, Typed
<1>14. after.state # "LEADER"
  BY <1>4, <1>8, <1>11
<1>15. Settled' /\ LeadersElected' /\ SendersElected' /\ OneLeaderPerTerm'
  <2>1. Settled'
    BY <1>2, <1>11, <1>13 DEF Settled
  <2>2. LeadersElected'
    BY <1>2, <1>4, <1>13, <1>14 DEF LeadersElected
  <2>3. QED
    BY <1>2, <1>4, <2>1, <2>2 DEF SendersElected, OneLeaderPerTerm
<1>16. \A b \in ballots : b \in ballots'
  BY <1>4
<1>17. VotesCounted'
  <2>1. ASSUME after.state = "CANDIDATE"
        PROVE  /\ ~granted /\ nd.state = "CANDIDATE" /\ after.term = nd.term
               /\ after.vote = nd.vote /\ after.votesReceived = nd.votesReceived
               /\ after.voters = nd.voters
    BY <1>8, <1>9, <1>11, <2>1
  <2>2. QED
    BY <1>2, <1>13, <1>16, <2>1 DEF VotesCounted
\* A ballot the voter gave in the term it is now in
<1>18. ASSUME NEW b \in ballots, b.voter = n, b.term = after.term, b.candidate # n
       PROVE  /\ nd.vote = b.candidate /\ after.state = "FOLLOWER" /\ after.vote = b.candidate
  <2>1. b.term <= nd.term /\ b.candidate \in Server /\ b.candidate # Nil
    BY <1>2, <1>18, Typed, ServerAssumption DEF BallotsHeld
  <2>2. after.term = nd.term
    BY <1>1, <1>8, <1>11, <1>18, <2>1
  <2>3. nd.vote = b.candidate /\ nd.state = "FOLLOWER"
    BY <1>2, <1>18, <2>2 DEF BallotsHeld
  <2>4. current.state = "FOLLOWER" /\ current.vote = b.candidate
    BY <1>1, <1>8, <1>11, <2>2, <2>3
  <2>5. QED
    BY <1>6, <1>11, <2>1, <2>3, <2>4
<1>19. BallotsHeld'
  <2>1. ASSUME NEW b \in ballots
        PROVE  /\ 0 < b.term /\ b.term <= node'[b.voter].term
               /\ b.term = node'[b.voter].term /\ b.candidate # b.voter =>
                    node'[b.voter].vote = b.candidate /\ node'[b.voter].state = "FOLLOWER"
    <3>1. CASE b.voter = n
      BY <1>1, <1>2, <1>8, <1>11, <1>13, <1>18, <3>1, Typed DEF BallotsHeld
    <3>2. CASE b.voter # n
      BY <1>2, <1>13, <3>2, Typed DEF BallotsHeld
    <3>3. QED
      BY <3>1, <3>2
  <2>2. granted => after.term = c.term /\ after.vote = c.from /\ after.state = "FOLLOWER"
    BY <1>6, <1>9, <1>11
  <2>3. QED
    BY <1>1, <1>3, <1>4, <1>13, <2>1, <2>2 DEF BallotsHeld
<1>20. OneBallot'
  <2>1. ASSUME granted, NEW b \in ballots, b.voter = n, b.term = c.term, b.candidate # n
        PROVE  b.candidate = c.from
    BY <1>6, <1>11, <1>18, <2>1
  <2>2. QED
    BY <1>2, <1>4, <2>1 DEF OneBallot
<1>21. VoteCallsSound'
  <2>1. ASSUME NEW d \in voteCalls
        PROVE  /\ d.term <= node'[d.from].term
               /\ node'[d.from].state = "CANDIDATE" /\ d.term = node'[d.from].term =>
                    d.to \notin node'[d.from].voters
    <3>1. CASE d.from = n
      <4>1. d.term <= nd.term /\ d.term \in Nat
        BY <1>2, <3>1, Typed, Zenon DEF VoteCallsSound
      <4>2. d.term <= after.term
        BY <1>1, <1>8, <1>11, <4>1
      <4>3. ASSUME after.state = "CANDIDATE", d.term = after.term
            PROVE  d.to \notin after.voters
        <5>1. nd.state = "CANDIDATE" /\ d.term = nd.term /\ after.voters = nd.voters
          BY <1>1, <1>8, <1>11, <4>1, <4>3
        <5>2. QED
          BY <1>2, <3>1, <5>1, Zenon DEF VoteCallsSound
      <4>4. QED
        BY <1>13, <3>1, <4>2, <4>3
    <3>2. CASE d.from # n
      BY <1>2, <1>13, <3>2, Typed, Zenon DEF VoteCallsSound
    <3>3. QED
      BY <3>1, <3>2
  <2>2. granted => after.term = c.term /\ new \in ballots'
    BY <1>4, <1>6, <1>11
  <2>3. ASSUME NEW d \in voteCalls, d.phase = "reply", d.ok
        PROVE  /\ d.replyTerm = d.term
               /\ [term |-> d.term, voter |-> d.to, candidate |-> d.from] \in ballots'
    BY <1>2, <1>16, <2>3 DEF VoteCallsSound
  <2>4. /\ r.phase # "orphan" /\ r.from # r.to /\ 0 < r.term
        /\ r.term <= node'[r.from].term
        /\ r.ok => /\ r.replyTerm = r.term
                   /\ [term |-> r.term, voter |-> r.to, candidate |-> r.from] \in ballots'
        /\ node'[r.from].state = "CANDIDATE" /\ r.term = node'[r.from].term =>
             r.to \notin node'[r.from].voters
    BY <1>3, <1>12, <2>1, <2>2
  <2>5. \A d \in voteCalls : d.phase # "orphan" /\ d.from # d.to /\ 0 < d.term
    BY <1>2, ZenonT(60) DEF VoteCallsSound
  <2>6. QED
    BY <1>4, <2>1, <2>3, <2>4, <2>5, Zenon DEF VoteCallsSound
<1>22. OneVoteCall'
  BY <1>2, <1>4, <1>12 DEF OneVoteCall
<1>23. ASSUME NEW e \in elected, e.leader = n
       PROVE  e.term < after.term
  <2>1. e.term <= nd.term /\ e.term # nd.term
    BY <1>2, <1>4, <1>23 DEF ElectedSound
  <2>2. QED
    BY <1>1, <1>8, <1>11, <2>1, Typed
<1>24. ElectedSound'
  <2>1. ASSUME NEW e \in elected
        PROVE  /\ e.term <= node'[e.leader].term
               /\ e.term = node'[e.leader].term => node'[e.leader].state = "LEADER"
    <3>1. CASE e.leader = n
      BY <1>8, <1>11, <1>13, <1>23, <3>1, Typed
    <3>2. CASE e.leader # n
      BY <1>2, <1>13, <3>2, Typed DEF ElectedSound
    <3>3. QED
      BY <3>1, <3>2
  <2>2. QED
    BY <1>2, <1>4, <1>16, <2>1 DEF ElectedSound
<1>25. NotBoth'
  <2>1. ASSUME granted, NEW e \in elected, e.term = c.term
        PROVE  e.leader # n
    BY <1>1, <1>6, <1>11, <1>23, <2>1, Typed
  <2>2. QED
    BY <1>2, <1>4, <2>1 DEF NotBoth
<1>26. QED
  BY <1>15, <1>17, <1>19, <1>20, <1>21, <1>22, <1>24, <1>25 DEF ElectionInv

\* An AppendEntries request.  Its sender leads the term of the call, so a node
\* that leads another term is the only LEADER that may step down for it.
LEMMA ProcessAppendEntriesKeeps ==
  ASSUME PromptInv, NEW c \in appendCalls, ProcessAppendEntriesClientRequest(c)
  PROVE  ElectionInv'
<1> DEFINE n == c.to
           nd == node[n]
           current == ObserveTerm(nd, c.term)
           follower == FollowTerm(c, current)
           merged == [follower EXCEPT !.log = MergedLog(c, current)]
           accepted == c.term = current.term /\ LogsAgree(c, current)
           after == IF accepted THEN FollowerCommit(c, merged)
                    ELSE IF c.term = current.term THEN follower ELSE current
           r == HearLeader(after, c.term)
<1>1. /\ c \in AppendCall /\ n \in Server /\ c.term \in Nat /\ c.leaderCommit \in Int
      /\ nd \in Node /\ nd.term \in Nat
  BY Typed DEF AppendCall
<1>2. /\ c.phase # "orphan" /\ c.from # n
      /\ \E e \in elected : e.term = c.term /\ e.leader = c.from
  BY DEF PromptInv, ElectionInv, SendersElected
<1>3. /\ node' = [node EXCEPT ![n] = r]
      /\ appendCalls' = (appendCalls \ {c}) \cup Replied(c, after.term, accepted)
      /\ UNCHANGED <<voteCalls, ballots, elected>>
  BY DEF ProcessAppendEntriesClientRequest
<1>4. SendersElected'
  <2>1. \A d \in Replied(c, after.term, accepted) :
          d.phase = "reply" /\ d.from = c.from /\ d.to = c.to /\ d.term = c.term
    BY <1>1, <1>2, Zenon DEF Replied, AppendCall
  <2> HIDE DEF after, accepted
  <2>2. QED
    BY <1>2, <1>3, <2>1 DEF PromptInv, ElectionInv, SendersElected
<1>5. /\ current \in Node
      /\ ElectionPart(current) =
           IF c.term > nd.term THEN <<nd.up, c.term, "FOLLOWER", Nil, 0, {}, nd.servers>>
           ELSE ElectionPart(nd)
  BY <1>1, ObserveTermFacts, Zenon
<1> HIDE DEF current
<1>6. /\ follower \in Node
      /\ ElectionPart(follower) =
           IF current.state # "FOLLOWER"
             THEN <<current.up, c.term, "FOLLOWER", Nil, 0, {}, current.servers>>
             ELSE ElectionPart(current)
  BY <1>1, <1>5, FollowTermFacts
<1> HIDE DEF follower
<1>7. /\ after \in Node
      /\ ElectionPart(after) = IF c.term = current.term THEN ElectionPart(follower)
                               ELSE ElectionPart(current)
  <2>1. accepted => SameElection(FollowerCommit(c, merged), follower)
    <3>1. accepted => MergedLog(c, current) \in Seq(Entry)
      BY <1>1, <1>5, MergedLogFacts
    <3>2. accepted => SameElection(merged, follower)
      BY <1>6, <3>1, LogUpdate
    <3> HIDE DEF merged, accepted
    <3>3. accepted => SameElection(FollowerCommit(c, merged), merged)
      BY <1>1, <3>2, FollowerCommitFacts DEF SameElection
    <3>4. QED
      BY <3>2, <3>3 DEF SameElection
  <2>2. accepted => c.term = current.term
    OBVIOUS
  <2> HIDE DEF accepted, merged
  <2>3. QED
    BY <1>5, <1>6, <2>1, <2>2 DEF SameElection
<1> HIDE DEF after, accepted
<1>8. r \in Node /\ ElectionPart(r) = ElectionPart(after)
  BY <1>1, <1>7, HearLeaderFacts DEF SameElection
<1> HIDE DEF r
<1>9. CASE c.term > nd.term
  <2>1. /\ current.up = nd.up /\ current.term = c.term /\ current.state = "FOLLOWER"
        /\ ElectionPart(current) = <<nd.up, c.term, "FOLLOWER", Nil, 0, {}, nd.servers>>
    BY <1>5, <1>9 DEF ElectionPart
  <2>2. ElectionPart(r) = <<nd.up, c.term, "FOLLOWER", Nil, 0, {}, nd.servers>>
    BY <1>6, <1>7, <1>8, <2>1
  <2>3. QED
    BY <1>1, <1>3, <1>4, <1>8, <1>9, <2>2, StepDown, ZenonT(60)
<1>10. CASE ~(c.term > nd.term)
  <2>1. /\ current.up = nd.up /\ current.term = nd.term /\ current.state = nd.state
        /\ current.servers = nd.servers
        /\ ElectionPart(current) = ElectionPart(nd)
    BY <1>5, <1>10 DEF ElectionPart
  <2>2. CASE c.term = nd.term /\ nd.state # "FOLLOWER"
    <3>1. nd.state = "CANDIDATE"
      <4>1. nd.state # "LEADER"
        <5>1. SUFFICES ASSUME nd.state = "LEADER" PROVE FALSE
          OBVIOUS
        <5>2. \E f \in elected : f.term = c.term /\ f.leader = n
          BY <1>1, <2>2, <5>1 DEF PromptInv, ElectionInv, LeadersElected
        <5>3. QED
          BY <1>2, <5>2 DEF PromptInv, ElectionInv, OneLeaderPerTerm
      <4>2. QED
        BY <1>1, <2>2, <4>1 DEF Node
    <3>2. ElectionPart(r) = <<nd.up, c.term, "FOLLOWER", Nil, 0, {}, nd.servers>>
      BY <1>6, <1>7, <1>8, <2>1, <2>2
    <3>3. QED
      BY <1>1, <1>3, <1>4, <1>8, <2>2, <3>1, <3>2, StepDown, ZenonT(60)
  <2>3. CASE ~(c.term = nd.term /\ nd.state # "FOLLOWER")
    <3>1. ElectionPart(r) = ElectionPart(nd)
      BY <1>6, <1>7, <1>8, <2>1, <2>3
    <3>2. QED
      BY <1>1, <1>3, <1>4, <1>8, <3>1, KeepElection, Zenon
  <2>4. QED
    BY <2>2, <2>3
<1>11. QED
  BY <1>9, <1>10

\* The reply to an AppendEntries call the caller is still in the term of
LEMMA AppendEntriesReplyKeeps ==
  ASSUME PromptInv, NEW c \in appendCalls, Prompt(c),
         ~CommitIndexPastLog(c, CallerAtReply(c)), ProcessAppendEntriesServerResponse(c)
  PROVE  ElectionInv'
<1> DEFINE n == c.from
           nd == node[n]
           current == CallerAtReply(c)
           r == AfterAppendReply(c, current)
<1>1. c \in AppendCall /\ n \in Server /\ c.replyTerm \in Nat /\ nd \in Node /\ c.term = nd.term
  BY Typed DEF AppendCall, Prompt
<1>2. n \in nd.servers
  BY <1>1 DEF PromptInv, ElectionInv, Settled
<1>3. /\ node' = [node EXCEPT ![n] = r] /\ appendCalls' = appendCalls \ {c}
      /\ UNCHANGED <<voteCalls, ballots, elected>>
  BY DEF ProcessAppendEntriesServerResponse
<1>4. SendersElected'
  BY <1>3 DEF PromptInv, ElectionInv, SendersElected
<1>5. /\ current \in Node
      /\ ElectionPart(current) =
           IF c.replyTerm > c.term
             THEN <<nd.up, c.replyTerm, "FOLLOWER", Nil, 0, {}, nd.servers>>
             ELSE ElectionPart(nd)
  BY <1>1, ResetToFollowerFacts, Zenon DEF CallerAtReply
<1> HIDE DEF current
<1>6. current.servers = nd.servers
  BY <1>5 DEF ElectionPart
<1>7. r \in Node /\ ElectionPart(r) = ElectionPart(current)
  BY <1>1, <1>2, <1>5, <1>6, AfterAppendReplyFacts DEF SameElection
<1> HIDE DEF r
<1>8. CASE c.replyTerm > c.term
  BY <1>1, <1>3, <1>4, <1>5, <1>7, <1>8, StepDown, Zenon
<1>9. CASE ~(c.replyTerm > c.term)
  BY <1>1, <1>3, <1>4, <1>5, <1>7, <1>9, KeepElection, Zenon
<1>10. QED
  BY <1>8, <1>9

\* A CANDIDATE with a majority of ballots is the only node promoted in its term
LEMMA NobodyElseElected ==
  ASSUME PromptInv, NEW n \in Server, node[n].state = "CANDIDATE",
         NEW V \in SUBSET Server, Cardinality(V) * 2 > Cardinality(Server),
         \A p \in V : [term |-> node[n].term, voter |-> p, candidate |-> n] \in ballots,
         0 < node[n].term,
         NEW f \in elected, f.term = node[n].term
  PROVE  f.leader = n
<1> DEFINE t == node[n].term
           m == f.leader
<1>1. SUFFICES ASSUME m # n PROVE FALSE
  OBVIOUS
<1>2. f \in Promotion /\ f.voters \in SUBSET Server /\ m \in Server /\ t \in Nat
  BY Typed DEF Promotion
<1>3. /\ Cardinality(f.voters) * 2 > Cardinality(Server)
      /\ \A p \in f.voters : [term |-> t, voter |-> p, candidate |-> m] \in ballots
  BY <1>2, SMTT(30) DEF PromptInv, ElectionInv, ElectedSound
<1>4. PICK q \in V \cap f.voters : TRUE
  <2>1. IsFiniteSet(Server) /\ IsFiniteSet(V) /\ IsFiniteSet(f.voters)
    BY <1>2, ServerAssumption, FS_Subset
  <2>2. /\ Cardinality(Server) \in Nat /\ Cardinality(V) \in Nat
        /\ Cardinality(f.voters) \in Nat
    BY <2>1, FS_CardinalityType
  <2>3. Cardinality(V) + Cardinality(f.voters) > Cardinality(Server)
    BY <1>3, <2>2, SMTT(30)
  <2>4. V \cap f.voters # {}
    BY <1>2, <2>1, <2>3, FS_MajoritiesIntersect
  <2>5. QED
    BY <2>4
<1>5. /\ [term |-> t, voter |-> q, candidate |-> n] \in ballots
      /\ [term |-> t, voter |-> q, candidate |-> m] \in ballots
  BY <1>3, <1>4
<1>6. q # n
  BY <1>1, <1>5 DEF PromptInv, ElectionInv, BallotsHeld
<1>7. q # m
  BY <1>1, <1>5 DEF PromptInv, ElectionInv, NotBoth
<1>8. QED
  BY <1>1, <1>5, <1>6, <1>7 DEF PromptInv, ElectionInv, OneBallot

\* The reply to a RequestVote call the caller is still in the term of
LEMMA RequestVoteReplyKeeps ==
  ASSUME PromptInv, NEW c \in voteCalls, Prompt(c), ProcessRequestVoteServerResponse(c)
  PROVE  ElectionInv'
<1> DEFINE n == c.from
           nd == node[n]
           counted == CountVote(c, nd)
           V == nd.voters \cup {c.to}
           count == nd.votesReceived + 1
           promoted == PromoteToLeader(n, counted)
           won == [term |-> nd.term, leader |-> n, voters |-> V]
<1>1. /\ c \in VoteCall /\ n \in Server /\ c.to \in Server /\ c.replyTerm \in Nat
      /\ nd \in Node /\ nd.term \in Nat /\ c.term = nd.term
      /\ nd.voters \in SUBSET Server /\ nd.votesReceived \in Nat
  BY Typed DEF VoteCall, Prompt, Node
<1>2. voteCalls' = voteCalls \ {c} /\ UNCHANGED <<appendCalls, ballots>>
  BY DEF ProcessRequestVoteServerResponse
<1>3. /\ BallotsHeld /\ OneBallot /\ VotesCounted /\ VoteCallsSound /\ OneVoteCall
      /\ ElectedSound /\ NotBoth /\ LeadersElected /\ SendersElected /\ OneLeaderPerTerm
      /\ Settled
  BY DEF PromptInv, ElectionInv
<1>4. c.phase = "reply"
  BY DEF ProcessRequestVoteServerResponse
<1>5. CASE node' = [node EXCEPT ![n] = nd] /\ UNCHANGED elected
  <2>1. SendersElected'
    BY <1>2, <1>3, <1>5 DEF SendersElected
  <2>2. QED
    BY <1>1, <1>2, <1>5, <2>1, KeepElection, Zenon
<1>6. CASE /\ nd.state = "CANDIDATE" /\ c.replyTerm > c.term
           /\ node' = [node EXCEPT ![n] = ResetToFollower(nd, c.replyTerm)] /\ UNCHANGED elected
  <2>1. SendersElected'
    BY <1>2, <1>3, <1>6 DEF SendersElected
  <2> DEFINE r == ResetToFollower(nd, c.replyTerm)
  <2>2. /\ r \in Node
        /\ ElectionPart(r) = <<nd.up, c.replyTerm, "FOLLOWER", Nil, 0, {}, nd.servers>>
    BY <1>1, ResetToFollowerFacts, ZenonT(60)
  <2>3. node' = [node EXCEPT ![n] = r]
    BY <1>6, SMTT(30)
  <2> HIDE DEF r
  <2>4. QED
    BY <1>1, <1>2, <1>6, <2>1, <2>2, <2>3, StepDown, Zenon
<1>7. ASSUME nd.state = "CANDIDATE", ~(c.replyTerm > c.term), c.ok
      PROVE  /\ counted \in Node
             /\ ElectionPart(counted) = <<nd.up, nd.term, "CANDIDATE", n, count, V, nd.servers>>
             /\ count = Cardinality(V) /\ V \in SUBSET Server
             /\ \A p \in V : [term |-> nd.term, voter |-> p, candidate |-> n] \in ballots
             /\ 0 < nd.term
             /\ \A d \in voteCalls' : d.from = n /\ d.term = nd.term => d.to \notin V
  <2>1. /\ [term |-> nd.term, voter |-> c.to, candidate |-> n] \in ballots
        /\ c.to \notin nd.voters /\ 0 < nd.term
    BY <1>1, <1>3, <1>4, <1>7 DEF VoteCallsSound
  <2>2. /\ nd.vote = n /\ nd.votesReceived = Cardinality(nd.voters)
        /\ \A p \in nd.voters : [term |-> nd.term, voter |-> p, candidate |-> n] \in ballots
    BY <1>1, <1>3, <1>7 DEF VotesCounted
  <2>3. count = Cardinality(V)
    <3>1. IsFiniteSet(nd.voters)
      BY <1>1, ServerAssumption, FS_Subset
    <3>2. QED
      BY <2>1, <2>2, <3>1, FS_AddElement, Zenon
  <2>4. counted \in Node /\ ElectionPart(counted) =
          <<nd.up, nd.term, nd.state, nd.vote, count, V, nd.servers>>
    BY <1>1, CountVoteFacts
  <2>5. \A d \in voteCalls' : d.from = n /\ d.term = nd.term => d.to \notin nd.voters
    BY <1>2, <1>3, <1>7, ZenonT(60) DEF VoteCallsSound
  <2>6. \A d \in voteCalls' : d.from = n /\ d.term = nd.term => d.to # c.to
    BY <1>1, <1>2, <1>3 DEF OneVoteCall
  <2>7. QED
    BY <1>1, <1>7, <2>1, <2>2, <2>3, <2>4, <2>5, <2>6
<1> HIDE DEF V, count, counted
<1>8. CASE /\ nd.state = "CANDIDATE" /\ ~(c.replyTerm > c.term) /\ c.ok
           /\ node' = [node EXCEPT ![n] = counted] /\ UNCHANGED elected
  <2>1. /\ node'[n].up = nd.up /\ node'[n].term = nd.term /\ node'[n].state = "CANDIDATE"
        /\ node'[n].vote = n /\ node'[n].votesReceived = count /\ node'[n].voters = V
        /\ node'[n].servers = nd.servers
        /\ \A k \in Server \ {n} : node'[k] = node[k]
    BY <1>1, <1>7, <1>8, Typed DEF ElectionPart
  <2>2. Settled' /\ LeadersElected'
    BY <1>1, <1>3, <1>8, <2>1, SMTT(30) DEF Settled, LeadersElected
  <2>3. VotesCounted'
    <3>1. ASSUME NEW k \in Server \ {n}, node'[k].state = "CANDIDATE"
          PROVE  /\ node'[k].vote = k
                 /\ node'[k].votesReceived = Cardinality(node'[k].voters)
                 /\ \A p \in node'[k].voters :
                      [term |-> node'[k].term, voter |-> p, candidate |-> k] \in ballots'
      BY <1>2, <1>3, <2>1, <3>1 DEF VotesCounted
    <3>2. QED
      BY <1>1, <1>2, <1>7, <1>8, <2>1, <3>1, SMTT(30) DEF VotesCounted
  <2>4. BallotsHeld' /\ ElectedSound'
    <3>1. \A b \in ballots : b.voter = n /\ b.term = nd.term => b.candidate = n
      BY <1>3, <1>8 DEF BallotsHeld
    <3>2. \A e \in elected : e.leader = n => e.term # nd.term
      BY <1>3, <1>8 DEF ElectedSound
    <3>3. BallotsHeld'
      BY <1>1, <1>2, <1>3, <2>1, <3>1, Typed, SMTT(30) DEF BallotsHeld
    <3>4. ElectedSound'
      BY <1>1, <1>2, <1>3, <1>8, <2>1, <3>2, Typed, SMTT(30) DEF ElectedSound
    <3>5. QED
      BY <3>3, <3>4
  <2>5. VoteCallsSound'
    <3>1. ASSUME NEW d \in voteCalls'
          PROVE  /\ d.term <= node'[d.from].term
                 /\ node'[d.from].state = "CANDIDATE" /\ d.term = node'[d.from].term =>
                      d.to \notin node'[d.from].voters
      <4>1. CASE d.from = n
        <5>1. d.term <= nd.term
          BY <1>2, <1>3, <4>1, Zenon DEF VoteCallsSound
        <5>2. d.term = nd.term => d.to \notin V
          BY <1>7, <1>8, <4>1
        <5>3. QED
          BY <2>1, <4>1, <5>1, <5>2
      <4>2. CASE d.from # n
        BY <1>2, <1>3, <2>1, <4>2, Typed, ZenonT(60) DEF VoteCallsSound
      <4>3. QED
        BY <4>1, <4>2
    <3>2. QED
      BY <1>2, <1>3, <3>1, Zenon DEF VoteCallsSound
  <2>6. OneVoteCall' /\ OneBallot' /\ NotBoth' /\ SendersElected' /\ OneLeaderPerTerm'
    BY <1>2, <1>3, <1>8 DEF OneVoteCall, OneBallot, NotBoth, SendersElected, OneLeaderPerTerm
  <2>7. QED
    BY <2>2, <2>3, <2>4, <2>5, <2>6 DEF ElectionInv
<1>9. CASE /\ nd.state = "CANDIDATE" /\ ~(c.replyTerm > c.term) /\ c.ok
           /\ WinsElection(counted)
           /\ node' = [node EXCEPT ![n] = promoted] /\ Elect(n, counted)
  <2>1. /\ counted.term = nd.term /\ counted.voters = V /\ counted.up = nd.up
        /\ counted.servers = nd.servers /\ counted.votesReceived = count /\ counted \in Node
    BY <1>7, <1>9 DEF ElectionPart
  <2>2. elected' = elected \cup {won}
    BY <1>9, <2>1 DEF Elect
  <2>3. nd.servers = Server
    BY <1>1, <1>3 DEF Settled
  <2>4. Cardinality(V) * 2 > Cardinality(Server)
    BY <1>7, <1>9, <2>1, <2>3 DEF WinsElection
  <2>5. /\ node'[n].up = nd.up /\ node'[n].term = nd.term /\ node'[n].state = "LEADER"
        /\ node'[n].servers = nd.servers
        /\ \A k \in Server \ {n} : node'[k] = node[k]
    <3>1. promoted.up = nd.up /\ promoted.term = nd.term /\ promoted.state = "LEADER"
          /\ promoted.servers = nd.servers
      BY <1>1, <2>1, PromoteToLeaderFacts DEF ElectionPart
    <3> HIDE DEF promoted
    <3>2. QED
      BY <1>1, <1>9, <3>1, Typed
  <2>6. won.term = nd.term /\ won.leader = n /\ won.voters = V
    OBVIOUS
  <2> HIDE DEF won
  <2>7. Settled' /\ LeadersElected'
    <3>1. Settled'
      BY <1>1, <1>3, <2>5 DEF Settled
    <3>2. LeadersElected'
      BY <1>1, <1>3, <2>2, <2>5, <2>6 DEF LeadersElected
    <3>3. QED
      BY <3>1, <3>2
  <2>8. VotesCounted'
    BY <1>2, <1>3, <2>5 DEF VotesCounted
  <2>9. \A b \in ballots : b.voter = n /\ b.term = nd.term => b.candidate = n
    BY <1>3, <1>9 DEF BallotsHeld
  <2>10. BallotsHeld'
    BY <1>1, <1>2, <1>3, <2>5, <2>9, Typed, SMTT(30) DEF BallotsHeld
  <2>11. VoteCallsSound'
    BY <1>1, <1>2, <1>3, <2>5, Typed, ZenonT(60) DEF VoteCallsSound
  <2>12. ElectedSound'
    <3> DEFINE Sound(e) ==
                 /\ e.term <= node'[e.leader].term
                 /\ e.term = node'[e.leader].term => node'[e.leader].state = "LEADER"
                 /\ IF e.term = 0 THEN e.leader = Bootstrap
                    ELSE /\ Cardinality(e.voters) * 2 > Cardinality(Server)
                         /\ \A q \in e.voters :
                              [term |-> e.term, voter |-> q, candidate |-> e.leader] \in ballots'
    <3>1. Sound(won)
      BY <1>1, <1>2, <1>7, <1>9, <2>4, <2>5, <2>6, SMTT(30)
    <3>2. ASSUME NEW e \in elected PROVE Sound(e)
      <4>1. node'[e.leader].term = node[e.leader].term
            /\ (node[e.leader].state = "LEADER" => node'[e.leader].state = "LEADER")
        <5>1. e.leader \in Server
          BY Typed
        <5>2. QED
          BY <2>5, <5>1
      <4>2. ballots' = ballots
        BY <1>2
      <4>3. QED
        BY <1>3, <4>1, <4>2, Zenon DEF ElectedSound
    <3>3. QED
      BY <2>2, <3>1, <3>2, SMTT(30) DEF ElectedSound
  <2>13. NotBoth'
    BY <1>2, <1>3, <2>2, <2>6, <2>9 DEF NotBoth
  <2>14. OneLeaderPerTerm'
    <3>1. \A f \in elected : f.term = nd.term => f.leader = n
      BY <1>1, <1>7, <1>9, <2>4, NobodyElseElected
    <3>2. QED
      BY <1>3, <2>2, <2>6, <3>1, SMTT(30) DEF OneLeaderPerTerm
  <2>15. OneVoteCall' /\ OneBallot' /\ SendersElected'
    BY <1>2, <1>3, <2>2 DEF OneVoteCall, OneBallot, SendersElected
  <2>16. QED
    BY <2>7, <2>8, <2>10, <2>11, <2>12, <2>13, <2>14, <2>15, SMTT(30) DEF ElectionInv
<1>10. \/ node' = [node EXCEPT ![n] = nd] /\ UNCHANGED elected
       \/ /\ nd.state = "CANDIDATE" /\ c.replyTerm > c.term
          /\ node' = [node EXCEPT ![n] = ResetToFollower(nd, c.replyTerm)] /\ UNCHANGED elected
       \/ /\ nd.state = "CANDIDATE" /\ ~(c.replyTerm > c.term) /\ c.ok
          /\ \/ node' = [node EXCEPT ![n] = counted] /\ UNCHANGED elected
             \/ WinsElection(counted) /\ node' = [node EXCEPT ![n] = promoted] /\ Elect(n, counted)
  BY DEF ProcessRequestVoteServerResponse, counted
<1>11. QED
  BY <1>5, <1>6, <1>8, <1>9, <1>10

-----------------------------------------------------------------------------
(* The theorem *)

\* The state the bootstrap leaves satisfies the invariant
LEMMA ElectionInit == Init => ElectionInv
<1> SUFFICES ASSUME Init PROVE ElectionInv
  OBVIOUS
<1>1. \A n \in Server :
        /\ node[n].up /\ node[n].term = 0 /\ node[n].servers = Server
        /\ node[n].state = IF n = Bootstrap THEN "LEADER" ELSE "FOLLOWER"
  BY DEF Init, BootNode
<1>2. /\ voteCalls = {} /\ appendCalls = {} /\ ballots = {}
      /\ elected = {[term |-> 0, leader |-> Bootstrap, voters |-> {}]}
  BY DEF Init
<1>3. Settled /\ VotesCounted
  BY <1>1 DEF Settled, VotesCounted
<1>4. ElectedSound /\ LeadersElected
  BY <1>1, <1>2, ServerAssumption DEF ElectedSound, LeadersElected
<1>5. /\ BallotsHeld /\ OneBallot /\ VoteCallsSound /\ OneVoteCall /\ NotBoth
      /\ SendersElected /\ OneLeaderPerTerm
  BY <1>2
  DEF BallotsHeld, OneBallot, VoteCallsSound, OneVoteCall, NotBoth, SendersElected,
      OneLeaderPerTerm
<1>6. QED
  BY <1>3, <1>4, <1>5 DEF ElectionInv

\* Every step of PromptSpec preserves the inductive invariant
LEMMA ElectionStep ==
  ASSUME PromptInv, [PromptNext]_vars
  PROVE  PromptInv'
<1>1. DurableInv'
  BY DurableStep DEF PromptInv, PromptNext, Next
<1>2. ASSUME UNCHANGED <<node, voteCalls, ballots, elected>>, appendCalls' \subseteq appendCalls
      PROVE  ElectionInv'
  <2> DEFINE r == node[Bootstrap]
  <2>1. r \in Node /\ node' = [node EXCEPT ![Bootstrap] = r]
    BY <1>2, Typed, ServerAssumption
  <2>2. SendersElected'
    BY <1>2 DEF PromptInv, ElectionInv, SendersElected
  <2>3. ElectionPart(r) = ElectionPart(node[Bootstrap])
    OBVIOUS
  <2>4. Bootstrap \in Server
    BY ServerAssumption
  <2>5. voteCalls' \subseteq voteCalls /\ UNCHANGED <<ballots, elected>>
    BY <1>2
  <2> HIDE DEF r
  <2>6. QED
    BY <2>1, <2>2, <2>3, <2>4, <2>5, KeepElection, Zenon
<1>3. (\E c \in appendCalls : LoseAppendCall(c)) \/ UNCHANGED vars => ElectionInv'
  BY <1>2 DEF LoseAppendCall, vars
<1>4. ElectionInv'
  BY <1>3, ElectionCallbackKeeps, HeartbeatCallbackKeeps, RejectRequestVoteKeeps,
     ProcessRequestVoteKeeps, ProcessAppendEntriesKeeps, RequestVoteReplyKeeps,
     AppendEntriesReplyKeeps
  DEF PromptNext, HandlerStep
<1>5. QED
  BY <1>1, <1>4 DEF PromptInv

\* As long as no reply outlives the term it was asked in, no lease expires and
\* no process dies, a node gives at most one other node its vote of a term,
\* RequestVote's replies are counted once each, and only a node with the ballots
\* of a majority is promoted and sends entries
THEOREM VotesDecideElections == PromptSpec => []ElectionInv
<1>1. Init => PromptInv
  BY DurableInit, ElectionInit DEF PromptInv
<1>2. PromptInv /\ [PromptNext]_vars => PromptInv'
  BY ElectionStep
<1>3. PromptInv => ElectionInv
  BY DEF PromptInv
<1>4. QED
  BY <1>1, <1>2, <1>3, PTL DEF PromptSpec

\* As long as no reply outlives the term it was asked in, no lease expires and
\* no process dies, a term has at most one LEADER: the vote rules of the
\* RequestVote handlers suffice, with the plain counter of ElectionCallback and
\* for any number of servers, elections and calls in flight
THEOREM OneLeader == PromptSpec => []OneLeaderPerTerm
<1>1. ElectionInv => OneLeaderPerTerm
  BY DEF ElectionInv
<1>2. QED
  BY <1>1, VotesDecideElections, PTL

-----------------------------------------------------------------------------
(* Logs *)


\* What a log and the calls of the nodes satisfy by their types
LEMMA TypedLogs ==
  ASSUME PromptInv
  PROVE  /\ \A n \in Server : node[n].log \in Seq(Entry)
         /\ appendCalls \subseteq AppendCall
         /\ \A f \in Pieces : IsPiece(f)
<1>1. \A n \in Server : node[n].log \in Seq(Entry)
  BY Typed DEF Node
<1>2. QED
  BY <1>1, Typed, PieceOfLog, PieceOfCall, Zenon DEF Pieces

\* Steps that leave the logs alone and send nothing new
LEMMA LogsKept ==
  ASSUME LogInv, \A n \in Server : node'[n].log = node[n].log,
         \A c \in appendCalls' : \E d \in appendCalls :
           /\ c.prevLogIndex = d.prevLogIndex /\ c.prevLogTerm = d.prevLogTerm
           /\ c.entries = d.entries,
         elected \subseteq elected'
  PROVE  LogInv'
<1>1. Pieces' \subseteq Pieces
  <2>1. \A c \in appendCalls' : \E d \in appendCalls : CallTerms(c) = CallTerms(d)
    BY DEF CallTerms
  <2>2. QED
    BY <2>1 DEF Pieces
<1>2. PiecesMatch'
  BY <1>1 DEF LogInv, PiecesMatch
<1>3. EntriesElected'
  <2>1. \A f \in Pieces' : \A i \in DOMAIN f : \E e \in elected' : e.term = f[i]
    BY <1>1 DEF LogInv, EntriesElected
  <2>2. \A n \in Server : \A i \in DOMAIN node'[n].log : Made(node[n].log[i])'
    BY DEF LogInv, EntriesElected, Made
  <2>3. ASSUME NEW c \in appendCalls', NEW i \in DOMAIN c.entries
        PROVE  \E e \in elected' : e.term = c.entries[i].term /\ e.leader = c.entries[i].by
    BY DEF LogInv, EntriesElected, Made
  <2>4. QED
    BY <2>1, <2>2, <2>3 DEF EntriesElected, Made
<1>4. QED
  BY <1>2, <1>3 DEF LogInv

\* A promotion in a term nobody was promoted in adds an entry of that term
LEMMA PromotionKeepsLogs ==
  ASSUME PromptInv, LogInv, NEW n \in Server, NEW t \in Nat,
         \A e \in elected : e.term # t,
         node'[n].log = Append(node[n].log, [term |-> t, by |-> n]),
         \A m \in Server \ {n} : node'[m].log = node[m].log,
         UNCHANGED appendCalls,
         \E e \in elected' : e.term = t /\ e.leader = n,
         elected \subseteq elected'
  PROVE  LogInv'
<1> DEFINE l == node[n].log
           new == [term |-> t, by |-> n]
           f == LogTerms(l)
           m == LogTerms(Append(l, new))
<1>1. l \in Seq(Entry) /\ new \in Entry /\ Len(l) \in Nat
  <2>1. l \in Seq(Entry)
    BY TypedLogs
  <2>2. new \in Entry
    BY DEF Entry
  <2>3. QED
    BY <2>1, <2>2
<1>2. /\ Append(l, new) \in Seq(Entry) /\ Len(Append(l, new)) = Len(l) + 1
      /\ \A i \in 1..Len(l) : Append(l, new)[i] = l[i]
      /\ Append(l, new)[Len(l) + 1] = new
  BY <1>1, AppendProperties
<1>3. /\ DOMAIN m = 1..(Len(l) + 1) /\ m[Len(l) + 1] = t
      /\ \A i \in 1..Len(l) : m[i] = f[i]
      /\ DOMAIN f = 1..Len(l)
  <2>1. /\ DOMAIN f = 1..Len(l) /\ \A i \in 1..Len(l) : f[i] = l[i].term
        /\ DOMAIN m = 1..Len(Append(l, new))
        /\ \A i \in 1..Len(Append(l, new)) : m[i] = Append(l, new)[i].term
    BY <1>1, <1>2, PieceOfLog, Zenon
  <2>2. new.term = t /\ Len(l) + 1 \in 1..(Len(l) + 1)
    BY <1>1
  <2> HIDE DEF f, m, new, l
  <2>3. \A i \in 1..Len(l) : i \in 1..(Len(l) + 1)
    BY <1>1
  <2>4. QED
    BY <1>2, <2>1, <2>2, <2>3
<1>4. \A g \in Pieces : \A i \in DOMAIN g : g[i] # t
  BY DEF LogInv, EntriesElected
<1>5. Pieces' \subseteq Pieces \cup {m} /\ f \in Pieces
  BY ZenonT(60) DEF Pieces
<1>6. ASSUME NEW g \in Pieces
      PROVE  Matching(m, g) /\ Matching(g, m)
  <2>1. Matching(f, g)
    BY <1>5 DEF LogInv, PiecesMatch, Matching
  <2> HIDE DEF m, f
  <2>2. SUFFICES ASSUME NEW i \in DOMAIN m \cap DOMAIN g, NEW j \in DOMAIN m \cap DOMAIN g,
                        j <= i, m[i] = g[i]
                 PROVE  m[j] = g[j]
    BY DEF Matching
  <2>3. i # Len(l) + 1
    BY <1>3, <1>4, <2>2
  <2>4. i \in 1..Len(l) /\ j \in 1..Len(l)
    BY <1>1, <1>3, <2>2, <2>3
  <2>5. QED
    BY <1>3, <2>1, <2>2, <2>4 DEF Matching
<1> HIDE DEF m, f
<1>7. PiecesMatch'
  <2>1. \A g, h \in Pieces \cup {m} : Matching(g, h)
    BY <1>6 DEF LogInv, PiecesMatch, Matching
  <2>2. QED
    BY <1>5, <2>1 DEF PiecesMatch, Matching
<1>8. EntriesElected'
  <2>1. \A g \in Pieces \cup {m} : \A i \in DOMAIN g : \E e \in elected' : e.term = g[i]
    <3>1. \A i \in DOMAIN m : i = Len(l) + 1 \/ (i \in DOMAIN f /\ m[i] = f[i])
      BY <1>1, <1>3
    <3>2. \A i \in DOMAIN f : \E e \in elected' : e.term = f[i]
      BY <1>5 DEF LogInv, EntriesElected
    <3>3. \A i \in DOMAIN m : \E e \in elected' : e.term = m[i]
      BY <1>3, <3>1, <3>2
    <3>4. QED
      BY <3>3 DEF LogInv, EntriesElected
  <2>2. ASSUME NEW k \in Server, NEW i \in DOMAIN node'[k].log
        PROVE  \E e \in elected' : e.term = node'[k].log[i].term /\ e.leader = node'[k].log[i].by
    <3>1. CASE k = n
      <4>1. i \in 1..(Len(l) + 1)
        BY <1>2, <2>2, <3>1
      <4>2. CASE i = Len(l) + 1
        BY <1>2, <3>1, <4>2
      <4>3. CASE i # Len(l) + 1
        <5>1. i \in DOMAIN l /\ node'[k].log[i] = l[i]
          BY <1>1, <1>2, <3>1, <4>1, <4>3
        <5>2. QED
          BY <5>1 DEF LogInv, EntriesElected, Made
      <4>4. QED
        BY <4>2, <4>3
    <3>2. CASE k # n
      BY <2>2, <3>2 DEF LogInv, EntriesElected, Made
    <3>3. QED
      BY <3>1, <3>2
  <2>3. ASSUME NEW c \in appendCalls', NEW i \in DOMAIN c.entries
        PROVE  \E e \in elected' : e.term = c.entries[i].term /\ e.leader = c.entries[i].by
    BY <2>3 DEF LogInv, EntriesElected, Made
  <2>4. QED
    BY <1>5, <2>1, <2>2, <2>3, SMTT(30) DEF EntriesElected, Made
<1>9. QED
  BY <1>7, <1>8 DEF LogInv

-----------------------------------------------------------------------------
(* The steps *)

\* An election, whether it is won at once or not
LEMMA ElectionCallbackLogs ==
  ASSUME PromptInv, LogInv, NEW n \in Server, ElectionCallback(n)
  PROVE  LogInv'
<1> DEFINE nd == node[n]
           b == BecomeCandidate(n, nd)
           t == nd.term + 1
<1>1. nd \in Node /\ nd.term \in Nat /\ t \in Nat
  BY Typed
<1>2. b \in Node /\ b.term = t /\ b.log = nd.log
  BY <1>1, BecomeCandidateFacts, ElectionKeepsLog DEF ElectionPart
<1>3. CASE nd.servers = {n}
  <2> DEFINE p == PromoteToLeader(n, b)
  <2>1. /\ node' = [node EXCEPT ![n] = p] /\ UNCHANGED appendCalls
        /\ elected' = elected \cup {[term |-> t, leader |-> n, voters |-> b.voters]}
    BY <1>2, <1>3 DEF ElectionCallback, Elect
  <2>2. p.log = Append(nd.log, [term |-> t, by |-> n])
    BY <1>2, PromotionAppends
  <2>3. \A e \in elected : e.term # t
    <3>1. Server = {n}
      BY <1>3 DEF PromptInv, ElectionInv, Settled
    <3>2. \A e \in elected : e.term <= nd.term /\ e.term \in Nat
      BY <3>1, Typed, Zenon DEF PromptInv, ElectionInv, ElectedSound
    <3>3. QED
      BY <1>1, <3>2
  <2> HIDE DEF p, b, t
  <2>4. /\ node'[n].log = Append(node[n].log, [term |-> t, by |-> n])
        /\ \A m \in Server \ {n} : node'[m].log = node[m].log
    BY <2>1, <2>2, Typed, Zenon
  <2>5. \E e \in elected' : e.term = t /\ e.leader = n
    <3> DEFINE won == [term |-> t, leader |-> n, voters |-> b.voters]
    <3>1. won.term = t /\ won.leader = n /\ won \in elected'
      BY <2>1
    <3> HIDE DEF won
    <3>2. QED
      BY <3>1
  <2>6. elected \subseteq elected'
    BY <2>1
  <2>7. QED
    BY <1>1, <2>1, <2>3, <2>4, <2>5, <2>6, PromotionKeepsLogs, SMTT(30)
<1>4. CASE nd.servers # {n}
  <2> DEFINE s == ScheduleElection(b, b.term)
  <2>1. node' = [node EXCEPT ![n] = s] /\ UNCHANGED <<elected, appendCalls>>
    BY <1>4, SMTT(30) DEF ElectionCallback
  <2>2. s.log = nd.log
    BY <1>2, StepDownKeepsLog
  <2> HIDE DEF s
  <2>3. \A m \in Server : node'[m].log = node[m].log
    BY <2>1, <2>2, Typed
  <2>4. QED
    BY <2>1, <2>3, LogsKept, SMTT(30)
<1>5. QED
  BY <1>3, <1>4

\* A vote request
LEMMA VoteRequestLogs ==
  ASSUME PromptInv, LogInv, NEW c \in voteCalls, ProcessRequestVoteClientRequest(c)
  PROVE  LogInv'
<1> DEFINE nd == node[c.to]
           heard == [nd EXCEPT !.heardLeader = FALSE]
           current == ObserveTerm(heard, c.term)
           granted == VoteGranted(c, current)
           after == IF granted THEN GrantVote(current, c.from) ELSE current
<1>1. c.to \in Server /\ c.term \in Nat /\ nd \in Node
  BY Typed
<1>2. node' = [node EXCEPT ![c.to] = after] /\ UNCHANGED <<elected, appendCalls>>
  BY DEF ProcessRequestVoteClientRequest
<1>3. heard \in Node /\ heard.log = nd.log
  <2>1. heard \in Node
    BY <1>1, TimerUpdate, ZenonT(60) DEF SameElection
  <2>2. heard.log = nd.log
    BY <1>1 DEF Node
  <2>3. QED
    BY <2>1, <2>2
<1> HIDE DEF heard
<1>4. current \in Node /\ current.log = nd.log
  BY <1>1, <1>3, ObserveTermFacts, StepDownKeepsLog, SMTT(30)
<1> HIDE DEF current, granted
<1>5. after.log = nd.log
  BY <1>4, ElectionKeepsLog
<1> HIDE DEF after
<1>6. \A m \in Server : node'[m].log = node[m].log
  BY <1>1, <1>2, <1>5, Typed
<1>7. QED
  BY <1>2, <1>6, LogsKept

\* A vote reply, which may promote the candidate
LEMMA VoteReplyLogs ==
  ASSUME PromptInv, LogInv, NEW c \in voteCalls, Prompt(c), ProcessRequestVoteServerResponse(c)
  PROVE  LogInv'
<1> DEFINE n == c.from
           nd == node[n]
           counted == CountVote(c, nd)
           p == PromoteToLeader(n, counted)
           keep(r) == node' = [node EXCEPT ![n] = r] /\ UNCHANGED elected
<1>1. /\ n \in Server /\ c.to \in Server /\ nd \in Node /\ nd.term \in Nat
      /\ c.replyTerm \in Nat /\ UNCHANGED appendCalls
  BY Typed DEF ProcessRequestVoteServerResponse, VoteCall
<1>2. counted \in Node /\ counted.log = nd.log /\ counted.term = nd.term
  BY <1>1, CountVoteFacts, ElectionKeepsLog, ZenonT(60) DEF ElectionPart
<1>3. ASSUME NEW r, r.log = nd.log, keep(r)
      PROVE  LogInv'
  <2>1. \A m \in Server : node'[m].log = node[m].log
    BY <1>1, <1>3, Typed
  <2>2. QED
    BY <1>1, <1>3, <2>1, LogsKept
<1>4. ResetToFollower(nd, c.replyTerm).log = nd.log
  BY <1>1, StepDownKeepsLog, SMTT(30)
<1>5. CASE /\ nd.state = "CANDIDATE" /\ node' = [node EXCEPT ![n] = p] /\ Elect(n, counted)
  <2>1. p.log = Append(nd.log, [term |-> nd.term, by |-> n])
    BY <1>2, PromotionAppends
  <2>2. elected' = elected \cup {[term |-> nd.term, leader |-> n, voters |-> counted.voters]}
    BY <1>2, <1>5, SMTT(30) DEF Elect
  <2> HIDE DEF p, counted
  <2>3. /\ node'[n].log = Append(node[n].log, [term |-> nd.term, by |-> n])
        /\ \A m \in Server \ {n} : node'[m].log = node[m].log
    BY <1>1, <1>5, <2>1, Typed
  <2>4. \E e \in elected' : e.term = nd.term /\ e.leader = n
    <3> DEFINE won == [term |-> nd.term, leader |-> n, voters |-> counted.voters]
    <3>1. won.term = nd.term /\ won.leader = n /\ won \in elected'
      BY <2>2, SMTT(30)
    <3> HIDE DEF won
    <3>2. QED
      BY <3>1
  <2>5. \A e \in elected : e.term # nd.term
    <3>1. OneLeaderPerTerm'
      BY RequestVoteReplyKeeps DEF ElectionInv
    <3>2. \A e \in elected : e.term = nd.term => e.leader = n
      BY <2>2, <2>4, <3>1 DEF OneLeaderPerTerm
    <3>3. QED
      BY <1>5, <3>2 DEF PromptInv, ElectionInv, ElectedSound
  <2>6. elected \subseteq elected'
    BY <2>2
  <2>7. QED
    BY <1>1, <2>3, <2>4, <2>5, <2>6, PromotionKeepsLogs, SMTT(30)
<1>6. \/ keep(nd) \/ keep(ResetToFollower(nd, c.replyTerm)) \/ keep(counted)
      \/ nd.state = "CANDIDATE" /\ node' = [node EXCEPT ![n] = p] /\ Elect(n, counted)
  BY DEF ProcessRequestVoteServerResponse
<1> HIDE DEF counted, p, keep
<1>7. QED
  BY <1>2, <1>3, <1>4, <1>5, <1>6

\* A call tells of the sender's own log
LEMMA SentPiece ==
  ASSUME NEW n \in Server, NEW p \in Server, NEW nd \in Node,
         nd.nextIndex[p] \in 0..LogSize(nd), FreeSlots(n, p) # {},
         NEW c, c = AppendEntries(n, nd, p)
  PROVE  /\ DOMAIN CallTerms(c) \subseteq DOMAIN LogTerms(nd.log)
         /\ \A i \in DOMAIN CallTerms(c) : CallTerms(c)[i] = LogTerms(nd.log)[i]
         /\ \A i \in DOMAIN c.entries : \E j \in DOMAIN nd.log : c.entries[i] = nd.log[j]
<1> DEFINE next == nd.nextIndex[p]
           l == nd.log
           a == c.prevLogIndex + 1
<1>1. l \in Seq(Entry) /\ Len(l) \in Nat /\ next \in 0..Len(l) /\ next \in Nat
  BY DEF Node, LogSize
<1>2. c \in AppendCall
  BY AppendEntriesType
<1>3. /\ c.prevLogIndex = next - 1
      /\ c.prevLogTerm = IF next - 1 >= 0 THEN l[next].term ELSE -1
      /\ c.entries = SubSeq(l, next + 1, Len(l))
  BY Zenon DEF AppendEntries, LogSize
<1> HIDE DEF next, l
<1>4. a = next
  BY <1>1, <1>3
<1>5. /\ c.entries \in Seq(Entry) /\ Len(c.entries) = Len(l) - next
      /\ \A i \in 1..(Len(l) - next) : c.entries[i] = l[next + i]
  BY <1>1, <1>3, SubSeqProperties
<1>6. /\ DOMAIN CallTerms(c) = (next .. next + Len(c.entries)) \ {0}
      /\ c.prevLogIndex \in Nat => CallTerms(c)[next] = c.prevLogTerm
      /\ \A i \in 1..Len(c.entries) : CallTerms(c)[next + i] = c.entries[i].term
  BY <1>2, <1>4, PieceOfCall, ZenonT(60)
<1>7. DOMAIN LogTerms(l) = 1..Len(l) /\ \A i \in 1..Len(l) : LogTerms(l)[i] = l[i].term
  BY <1>1, PieceOfLog
<1>8. DOMAIN CallTerms(c) \subseteq 1..Len(l)
  BY <1>1, <1>5, <1>6
<1>9. ASSUME NEW i \in DOMAIN CallTerms(c) PROVE CallTerms(c)[i] = LogTerms(l)[i]
  <2>1. CASE i = next
    <3>1. next - 1 >= 0 /\ next - 1 \in Nat /\ next \in 1..Len(l)
      BY <1>1, <1>6, <2>1
    <3>2. QED
      BY <1>3, <1>6, <1>7, <2>1, <3>1, SMTT(30)
  <2>2. CASE i # next
    <3>1. i \in 1..Len(l) /\ i - next \in 1..Len(c.entries) /\ next + (i - next) = i
      BY <1>1, <1>5, <1>6, <2>2
    <3>2. CallTerms(c)[i] = c.entries[i - next].term
      BY <1>6, <3>1
    <3>3. c.entries[i - next] = l[i]
      BY <1>5, <3>1
    <3>4. QED
      BY <1>7, <3>1, <3>2, <3>3
  <2>3. QED
    BY <2>1, <2>2
<1>10. ASSUME NEW i \in DOMAIN c.entries
       PROVE  \E j \in DOMAIN l : c.entries[i] = l[j]
  <2>1. i \in 1..(Len(l) - next) /\ next + i \in DOMAIN l
    BY <1>1, <1>5
  <2>2. QED
    BY <1>5, <2>1
<1>11. QED
  BY <1>7, <1>8, <1>9, <1>10 DEF l

\* A heartbeat sends pieces of the log of the leader
LEMMA HeartbeatLogs ==
  ASSUME PromptInv, LogInv, NEW n \in Server, HeartbeatCallback(n)
  PROVE  LogInv'
<1> DEFINE nd == node[n]
           sent == [nd EXCEPT !.renewLease = TRUE, !.respondingPeers = {n}]
           r == IF nd.servers = {n} THEN UpdateCommitIndex(n, sent) ELSE sent
           f == LogTerms(nd.log)
<1>1. nd \in Node
  BY Typed
<1>2. /\ node' = [node EXCEPT ![n] = r] /\ UNCHANGED elected
      /\ appendCalls' = appendCalls \cup {AppendEntries(n, nd, p) : p \in Peers(n, nd)}
  BY DEF HeartbeatCallback
<1>3. sent \in Node /\ sent.log = nd.log
  <2>1. sent \in Node
    BY <1>1, LeaseUpdate, Zenon DEF SameElection
  <2>2. sent.log = nd.log
    BY <1>1 DEF Node
  <2>3. QED
    BY <2>1, <2>2
<1> HIDE DEF sent
<1>4. r.log = nd.log
  BY <1>3, CommitKeepsLog
<1> HIDE DEF r
<1>5. \A m \in Server : node'[m].log = node[m].log
  BY <1>2, <1>4, Typed, SMTT(30)
<1>6. ASSUME NEW c \in appendCalls', c \notin appendCalls
      PROVE  /\ DOMAIN CallTerms(c) \subseteq DOMAIN f
             /\ \A i \in DOMAIN CallTerms(c) : CallTerms(c)[i] = f[i]
             /\ \A i \in DOMAIN c.entries : \E j \in DOMAIN nd.log : c.entries[i] = nd.log[j]
  <2>1. PICK p \in Peers(n, nd) : c = AppendEntries(n, nd, p)
    BY <1>2, <1>6
  <2>2. p \in Server
    BY <1>1 DEF Peers, Node
  <2>3. nd.nextIndex[p] \in 0..LogSize(nd) /\ FreeSlots(n, p) # {}
    BY <2>1 DEF HeartbeatCallback, HeartbeatInRange, InRange
  <2>4. QED
    BY <1>1, <2>1, <2>2, <2>3, SentPiece
<1>7. f \in Pieces
  BY DEF Pieces
<1>8. \A g \in Pieces' : \E h \in Pieces :
        DOMAIN g \subseteq DOMAIN h /\ \A i \in DOMAIN g : g[i] = h[i]
  <2>1. SUFFICES ASSUME NEW g \in Pieces', g \notin Pieces
                 PROVE  DOMAIN g \subseteq DOMAIN f /\ \A i \in DOMAIN g : g[i] = f[i]
    BY <1>7
  <2>2. PICK c \in appendCalls' : g = CallTerms(c)
    BY <1>5, <2>1 DEF Pieces
  <2>3. c \notin appendCalls
    BY <2>1, <2>2 DEF Pieces
  <2>4. QED
    BY <1>6, <2>2, <2>3
<1> HIDE DEF f
<1>9. PiecesMatch'
  BY <1>8 DEF LogInv, PiecesMatch
<1>10. EntriesElected'
  <2>1. \A g \in Pieces' : \A i \in DOMAIN g : \E e \in elected' : e.term = g[i]
    BY <1>2, <1>8 DEF LogInv, EntriesElected
  <2>2. \A m \in Server : \A i \in DOMAIN node'[m].log : Made(node[m].log[i])'
    BY <1>2, <1>5 DEF LogInv, EntriesElected, Made
  <2>3. ASSUME NEW c \in appendCalls', NEW i \in DOMAIN c.entries
        PROVE  \E e \in elected' : e.term = c.entries[i].term /\ e.leader = c.entries[i].by
    <3>1. CASE c \in appendCalls
      BY <1>2, <3>1, SMTT(30) DEF LogInv, EntriesElected, Made
    <3>2. CASE c \notin appendCalls
      BY <1>2, <1>6, <3>2 DEF LogInv, EntriesElected, Made
    <3>3. QED
      BY <3>1, <3>2, SMTT(30)
  <2>4. QED
    BY <2>1, <2>2, <2>3 DEF EntriesElected, Made
<1>11. QED
  BY <1>9, <1>10 DEF LogInv

\* The log a node has after it took the entries of a call it agrees with
LEMMA MergeKeepsLogs ==
  ASSUME PromptInv, LogInv, NEW c \in appendCalls, NEW nd \in Node,
         nd.log = node[c.to].log, LogsAgree(c, nd), MergedLog(c, nd) # nd.log,
         node'[c.to].log = MergedLog(c, nd),
         \A m \in Server \ {c.to} : node'[m].log = node[m].log,
         \A d \in appendCalls' : \E e \in appendCalls :
           /\ d.prevLogIndex = e.prevLogIndex /\ d.prevLogTerm = e.prevLogTerm
           /\ d.entries = e.entries,
         UNCHANGED elected
  PROVE  LogInv'
<1> DEFINE n == c.to
           l == MergedLog(c, nd)
           a == c.prevLogIndex + 1
           b == a + Len(c.entries)
           f == LogTerms(nd.log)
           g == CallTerms(c)
           m == LogTerms(l)
<1>1. /\ c \in AppendCall /\ n \in Server /\ nd.log \in Seq(Entry)
      /\ Len(c.entries) \in Nat /\ c.entries \in Seq(Entry)
  <2>1. c \in AppendCall /\ n \in Server
    BY Typed
  <2>2. nd.log \in Seq(Entry)
    BY DEF Node
  <2>3. c.entries \in Seq(Entry) /\ Len(c.entries) \in Nat
    BY <2>1, SMTT(30) DEF AppendCall
  <2>4. QED
    BY <2>1, <2>2, <2>3
<1>2. /\ l \in Seq(Entry) /\ a \in Nat /\ Len(l) = b
      /\ \A i \in 1..b : i < a => i \in DOMAIN nd.log /\ l[i] = nd.log[i]
      /\ \A i \in 1..b : a <= i => l[i].term = g[i]
      /\ \A i \in 1..b : \/ i \in DOMAIN nd.log /\ l[i] = nd.log[i]
                         \/ i - a \in DOMAIN c.entries /\ l[i] = c.entries[i - a]
      /\ 1 <= a => a \in DOMAIN nd.log /\ nd.log[a].term = g[a]
  <2>1. /\ l \in Seq(Entry) /\ a \in Nat /\ Len(l) = a + Len(c.entries)
        /\ \A i \in 1..Len(l) : i < a => i \in DOMAIN nd.log /\ l[i] = nd.log[i]
        /\ \A i \in 1..Len(l) : a <= i => l[i].term = g[i]
        /\ \A i \in 1..Len(l) : \/ i \in DOMAIN nd.log /\ l[i] = nd.log[i]
                                \/ i - a \in DOMAIN c.entries /\ l[i] = c.entries[i - a]
        /\ 1 <= a => a \in DOMAIN nd.log /\ nd.log[a].term = g[a]
    <3> HIDE DEF a, l
    <3>1. l = MergedLog(c, nd) /\ a = c.prevLogIndex + 1
      BY DEF a, l
    <3>2. LogsAgree(c, nd) /\ l # nd.log
      BY <3>1
    <3> HIDE DEF g
    <3>3. g = CallTerms(c)
      BY SMTT(30) DEF g
    <3>4. QED
      BY <1>1, <3>1, <3>2, <3>3, MergedLogIs, SMTT(30)
  <2> HIDE DEF l, a, g
  <2>2. QED
    BY <2>1, SMTT(30)
<1> HIDE DEF l
<1>3. /\ DOMAIN f = DOMAIN nd.log /\ \A i \in DOMAIN nd.log : f[i] = nd.log[i].term
      /\ DOMAIN m = 1..b /\ \A i \in 1..b : m[i] = l[i].term
  <2>1. DOMAIN f = DOMAIN nd.log /\ \A i \in DOMAIN nd.log : f[i] = nd.log[i].term
    BY DEF LogTerms
  <2>2. DOMAIN m = DOMAIN l /\ \A i \in DOMAIN l : m[i] = l[i].term
    BY DEF LogTerms
  <2>3. DOMAIN l = 1..b
    BY <1>2, SMTT(30)
  <2>4. QED
    BY <2>1, <2>2, <2>3
<1>4. DOMAIN g = (a..b) \ {0} /\ b \in Nat
  <2>1. DOMAIN g = (a .. a + Len(c.entries)) \ {0}
    BY <1>1, PieceOfCall, Zenon
  <2>2. QED
    BY <1>1, <1>2, <2>1
<1>5. f \in Pieces /\ g \in Pieces
  BY <1>1 DEF Pieces
<1>6. Pieces' \subseteq Pieces \cup {m}
  <2>1. \A d \in appendCalls' : \E e \in appendCalls : CallTerms(d) = CallTerms(e)
    BY SMTT(30) DEF CallTerms
  <2>2. QED
    BY <2>1 DEF Pieces, l
<1> HIDE DEF f, g, m, a, b
<1>7. ASSUME NEW h \in Pieces
      PROVE  Matching(m, h) /\ Matching(h, m)
  <2>1. IsPiece(h) /\ Matching(f, h) /\ Matching(g, h)
    BY <1>5, TypedLogs, SMTT(30) DEF LogInv, PiecesMatch, Matching
  <2>2. \A i \in 1..b : i < a => i \in DOMAIN f /\ m[i] = f[i]
    BY <1>2, <1>3
  <2>3. \A i \in 1..b : a <= i => m[i] = g[i]
    BY <1>2, <1>3, SMTT(30)
  <2>4. 1 <= a => a \in DOMAIN f /\ f[a] = g[a]
    BY <1>2, <1>3
  <2>5. QED
    <3>1. a \in Nat /\ b \in Nat /\ DOMAIN g = (a..b) \ {0} /\ DOMAIN m = 1..b
      BY <1>2, <1>3, <1>4, SMTT(30)
    <3>2. QED
      <4>1. Takes(m, f, g, a, b)
        BY <2>2, <2>3, <2>4, <3>1, SMTT(30) DEF Takes
      <4>2. QED
        BY <2>1, <3>1, <4>1, MergedMatches
<1>8. PiecesMatch'
  <2>1. \A p, q \in Pieces \cup {m} : Matching(p, q)
    BY <1>7, SMTT(30) DEF LogInv, PiecesMatch, Matching
  <2>2. QED
    BY <1>6, <2>1 DEF PiecesMatch, Matching
<1>9. \A i \in 1..b : Made(l[i])
  <2>1. \A i \in DOMAIN nd.log : Made(nd.log[i])
    BY <1>1, SMTT(30) DEF LogInv, EntriesElected
  <2>2. \A i \in DOMAIN c.entries : Made(c.entries[i])
    BY DEF LogInv, EntriesElected
  <2>3. QED
    BY <1>2, <2>1, <2>2
<1>10. EntriesElected'
  <2>1. \A p \in Pieces \cup {m} : \A i \in DOMAIN p : \E e \in elected : e.term = p[i]
    <3>1. \A i \in DOMAIN m : \E e \in elected : e.term = m[i]
      BY <1>3, <1>9 DEF Made
    <3>2. QED
      BY <3>1 DEF LogInv, EntriesElected
  <2>2. ASSUME NEW k \in Server, NEW i \in DOMAIN node'[k].log
        PROVE  \E e \in elected : e.term = node'[k].log[i].term /\ e.leader = node'[k].log[i].by
    <3>1. CASE k = n
      <4>1. node'[k].log = l /\ i \in 1..b
        BY <1>2, <3>1 DEF l
      <4>2. QED
        BY <1>9, <4>1, SMTT(30) DEF Made
    <3>2. CASE k # n
      BY <3>2 DEF LogInv, EntriesElected, Made
    <3>3. QED
      BY <3>1, <3>2
  <2>3. ASSUME NEW d \in appendCalls', NEW i \in DOMAIN d.entries
        PROVE  \E e \in elected : e.term = d.entries[i].term /\ e.leader = d.entries[i].by
    BY DEF LogInv, EntriesElected, Made
  <2>4. QED
    BY <1>6, <2>1, <2>2, <2>3, ZenonT(60) DEF EntriesElected, Made
<1>11. QED
  BY <1>8, <1>10 DEF LogInv

\* An AppendEntries request, answered or refused
LEMMA AppendRequestLogs ==
  ASSUME PromptInv, LogInv, NEW c \in appendCalls, ProcessAppendEntriesClientRequest(c)
  PROVE  LogInv'
<1> DEFINE n == c.to
           nd == node[n]
           current == ObserveTerm(nd, c.term)
           follower == FollowTerm(c, current)
           merged == [follower EXCEPT !.log = MergedLog(c, current)]
           accepted == c.term = current.term /\ LogsAgree(c, current)
           after == IF accepted THEN FollowerCommit(c, merged)
                    ELSE IF c.term = current.term THEN follower ELSE current
           r == HearLeader(after, c.term)
<1>1. /\ c \in AppendCall /\ n \in Server /\ c.term \in Nat /\ c.leaderCommit \in Int
      /\ nd \in Node
  BY Typed DEF AppendCall
<1>2. /\ node' = [node EXCEPT ![n] = r] /\ UNCHANGED elected
      /\ appendCalls' = (appendCalls \ {c}) \cup Replied(c, after.term, accepted)
  BY DEF ProcessAppendEntriesClientRequest
<1>3. \A d \in appendCalls' : \E e \in appendCalls :
        /\ d.prevLogIndex = e.prevLogIndex /\ d.prevLogTerm = e.prevLogTerm
        /\ d.entries = e.entries
  <2>1. \A d \in Replied(c, after.term, accepted) :
          /\ d.prevLogIndex = c.prevLogIndex /\ d.prevLogTerm = c.prevLogTerm
          /\ d.entries = c.entries
    BY <1>1, Zenon DEF Replied, AppendCall
  <2> HIDE DEF after, accepted
  <2>2. QED
    BY <1>2, <2>1
<1>4. current \in Node /\ current.log = nd.log
  BY <1>1, ObserveTermFacts, StepDownKeepsLog, SMTT(30)
<1> HIDE DEF current
<1>5. follower \in Node /\ follower.log = nd.log
  BY <1>1, <1>4, FollowTermFacts, FollowingKeepsLog, SMTT(30)
<1> HIDE DEF follower
<1>6. /\ after \in Node
      /\ after.log = IF accepted THEN MergedLog(c, current) ELSE nd.log
  <2>1. ASSUME accepted
        PROVE  merged \in Node /\ merged.log = MergedLog(c, current)
    <3>1. MergedLog(c, current) \in Seq(Entry)
      BY <1>1, <1>4, <2>1, MergedLogFacts
    <3>2. merged \in Node
      BY <1>5, <3>1, LogUpdate DEF SameElection
    <3>3. merged.log = MergedLog(c, current)
      BY <1>5 DEF Node
    <3>4. QED
      BY <3>2, <3>3
  <2> HIDE DEF merged, accepted
  <2>2. QED
    BY <1>1, <1>4, <1>5, <2>1, FollowerCommitFacts, FollowingKeepsLog DEF SameElection
<1>7. accepted => LogsAgree(c, current)
  OBVIOUS
<1> HIDE DEF after, accepted
<1>8. r.log = after.log
  BY <1>6, StepDownKeepsLog, SMTT(30)
<1> HIDE DEF r
<1>9. node'[n].log = after.log /\ \A m \in Server \ {n} : node'[m].log = node[m].log
  BY <1>1, <1>2, <1>8, Typed
<1>10. CASE accepted /\ MergedLog(c, current) # nd.log
  BY <1>2, <1>3, <1>4, <1>6, <1>7, <1>9, <1>10, MergeKeepsLogs, ZenonT(60)
<1>11. CASE ~(accepted /\ MergedLog(c, current) # nd.log)
  <2>1. \A m \in Server : node'[m].log = node[m].log
    BY <1>6, <1>9, <1>11
  <2>2. QED
    BY <1>2, <1>3, <2>1, LogsKept
<1>12. QED
  BY <1>10, <1>11

\* An AppendEntries reply
LEMMA AppendReplyLogs ==
  ASSUME PromptInv, LogInv, NEW c \in appendCalls,
         ~CommitIndexPastLog(c, CallerAtReply(c)), ProcessAppendEntriesServerResponse(c)
  PROVE  LogInv'
<1> DEFINE n == c.from
           current == CallerAtReply(c)
           r == AfterAppendReply(c, current)
<1>1. c \in AppendCall /\ n \in Server /\ c.replyTerm \in Nat /\ node[n] \in Node
  BY Typed DEF AppendCall
<1>2. /\ node' = [node EXCEPT ![n] = r] /\ appendCalls' = appendCalls \ {c}
      /\ UNCHANGED elected
  BY DEF ProcessAppendEntriesServerResponse
<1>3. current \in Node /\ current.log = node[n].log
  BY <1>1, ResetToFollowerFacts, StepDownKeepsLog, ZenonT(60) DEF CallerAtReply
<1> HIDE DEF current
<1>4. r.log = node[n].log
  BY <1>1, <1>3, AppendReplyKeepsLog
<1> HIDE DEF r
<1>5. \A m \in Server : node'[m].log = node[m].log
  BY <1>1, <1>2, <1>4, Typed
<1>6. QED
  BY <1>2, <1>5, LogsKept, SMTT(30)

\* The four entries of the bootstrap are everywhere
LEMMA LogInit == Init => LogInv
<1> SUFFICES ASSUME Init PROVE LogInv
  OBVIOUS
<1>1. \A n \in Server : node[n].log = BootLog
  BY DEF Init, BootNode
<1>2. Pieces \subseteq {LogTerms(BootLog)}
  BY <1>1 DEF Init, Pieces
<1>3. PiecesMatch
  BY <1>2 DEF PiecesMatch
<1>4. \A i \in DOMAIN BootLog : Made(BootLog[i])
  BY DEF Init, BootLog, Made
<1>5. \A i \in DOMAIN LogTerms(BootLog) : \E e \in elected : e.term = LogTerms(BootLog)[i]
  BY <1>4 DEF LogTerms, Made
<1>6. EntriesElected
  BY <1>1, <1>2, <1>4, <1>5 DEF EntriesElected, Init
<1>7. QED
  BY <1>3, <1>6, SMTT(30) DEF LogInv

\* Every step keeps the invariant
LEMMA LogStep ==
  ASSUME PromptInv, LogInv, [PromptNext]_vars
  PROVE  LogInv'
<1>1. (\E c \in voteCalls : RejectRequestVote(c)) \/ (\E c \in appendCalls : LoseAppendCall(c))
        \/ UNCHANGED vars => LogInv'
  BY LogsKept, Zenon DEF RejectRequestVote, LoseAppendCall, vars
<1>2. QED
  BY <1>1, ElectionCallbackLogs, HeartbeatLogs, VoteRequestLogs, VoteReplyLogs,
     AppendRequestLogs, AppendReplyLogs
  DEF PromptNext, HandlerStep

\* LogMatching follows: entries of one term have one maker
LEMMA LogInvMatches ==
  ASSUME PromptInv, LogInv
  PROVE  LogMatching
<1>1. SUFFICES ASSUME NEW m \in Server, NEW n \in Server,
                      NEW i \in DOMAIN node[m].log \cap DOMAIN node[n].log,
                      node[m].log[i].term = node[n].log[i].term
               PROVE  SubSeq(node[m].log, 1, i) = SubSeq(node[n].log, 1, i)
  BY Zenon DEF LogMatching
<1> DEFINE k == node[m].log
           l == node[n].log
<1>2. k \in Seq(Entry) /\ l \in Seq(Entry) /\ i \in 1..Len(k) /\ i \in 1..Len(l)
  BY <1>1, TypedLogs
<1>3. ASSUME NEW j \in 1..i PROVE k[j] = l[j]
  <2>1. j \in DOMAIN k /\ j \in DOMAIN l /\ k[j] \in Entry /\ l[j] \in Entry /\ j <= i
    BY <1>2, SMTT(30)
  <2>2. k[j].term = l[j].term
    <3>1. LogTerms(k) \in Pieces /\ LogTerms(l) \in Pieces
      BY DEF Pieces
    <3>2. /\ DOMAIN LogTerms(k) = DOMAIN k /\ DOMAIN LogTerms(l) = DOMAIN l
          /\ LogTerms(k)[i] = LogTerms(l)[i]
          /\ LogTerms(k)[j] = k[j].term /\ LogTerms(l)[j] = l[j].term
      BY <1>1, <1>2, <2>1 DEF LogTerms
    <3>3. QED
      BY <1>1, <2>1, <3>1, <3>2 DEF LogInv, PiecesMatch
  <2>3. k[j].by = l[j].by
    BY <2>1, <2>2 DEF LogInv, EntriesElected, Made, PromptInv, ElectionInv, OneLeaderPerTerm
  <2>4. QED
    BY <2>1, <2>2, <2>3 DEF Entry
<1> HIDE DEF k, l
<1>4. QED
  <2>1. SubSeq(k, 1, i) = SubSeq(l, 1, i)
    BY <1>2, <1>3
  <2>2. QED
    BY <2>1, ZenonT(60) DEF k, l

\* As long as no reply outlives the term it was asked in, no lease expires and
\* no process dies, two logs that hold entries of one term at one index are
\* equal up to there, however AppendEntries requests are lost, delayed and
\* reordered and wherever the handler truncates
THEOREM LogsMatch == PromptSpec => []LogMatching
<1>1. Init => PromptInv /\ LogInv
  BY DurableInit, ElectionInit, LogInit DEF PromptInv
<1>2. PromptInv /\ LogInv /\ [PromptNext]_vars => PromptInv' /\ LogInv'
  BY ElectionStep, LogStep
<1>3. PromptInv /\ LogInv => LogMatching
  BY LogInvMatches
<1>4. QED
  BY <1>1, <1>2, <1>3, PTL DEF PromptSpec

-----------------------------------------------------------------------------
(* Terms *)

\* Seeing a term never takes a node back
LEMMA ObserveTermGrows ==
  ASSUME NEW nd \in Node, NEW t \in Nat
  PROVE  /\ ObserveTerm(nd, t) \in Node /\ ObserveTerm(nd, t).term \in Nat
         /\ ObserveTerm(nd, t).term >= nd.term
<1>1. nd.term \in Nat /\ ObserveTerm(nd, t) \in Node
  BY ObserveTermFacts, Zenon DEF Node
<1>2. ASSUME t > nd.term PROVE ObserveTerm(nd, t).term = t
  BY <1>2, ObserveTermFacts, Zenon DEF ElectionPart
<1>3. ASSUME ~(t > nd.term) PROVE ObserveTerm(nd, t).term = nd.term
  BY <1>3, ObserveTermFacts, ZenonT(60) DEF ElectionPart
<1>4. QED
  BY <1>1, <1>2, <1>3

\* A node that takes a step keeps its term or enters a later one
LEMMA TermStep ==
  ASSUME PromptInv, PromptNext
  PROVE  \A n \in Server : node'[n].term >= node[n].term
<1> DEFINE Later == \A n \in Server : node'[n].term >= node[n].term
<1>1. ASSUME NEW n \in Server, NEW r, r.term \in Nat, r.term >= node[n].term,
             node' = [node EXCEPT ![n] = r]
      PROVE  Later
  BY <1>1, Typed
<1>2. ASSUME UNCHANGED node PROVE Later
  BY <1>2, Typed
<1>3. ASSUME NEW n \in Server, ElectionCallback(n) PROVE Later
  <2> DEFINE b == BecomeCandidate(n, node[n])
             s == ScheduleElection(b, b.term)
             p == PromoteToLeader(n, b)
  <2>1. node[n] \in Node /\ node[n].term \in Nat
    BY Typed
  <2>2. b \in Node /\ b.term = node[n].term + 1
    BY <2>1, BecomeCandidateFacts, SMTT(30) DEF ElectionPart
  <2>3. s.term = b.term /\ p.term = b.term
    <3>1. b.term \in Nat
      BY <2>1, <2>2
    <3> HIDE DEF b
    <3>2. ElectionPart(s) = ElectionPart(b)
      BY <2>2, <3>1, ScheduleElectionFacts
    <3>3. ElectionPart(p) = <<b.up, b.term, "LEADER", b.vote, 0, b.voters, b.servers>>
      BY <2>2, PromoteToLeaderFacts
    <3>4. QED
      BY <3>2, <3>3 DEF ElectionPart
  <2>4. node' = [node EXCEPT ![n] = p] \/ node' = [node EXCEPT ![n] = s]
    BY <1>3, ZenonT(60) DEF ElectionCallback
  <2> HIDE DEF b, s, p
  <2>5. QED
    BY <1>1, <2>1, <2>2, <2>3, <2>4
<1>4. ASSUME NEW n \in Server, HeartbeatCallback(n) PROVE Later
  <2> DEFINE nd == node[n]
             sent == [nd EXCEPT !.renewLease = TRUE, !.respondingPeers = {n}]
             r == IF nd.servers = {n} THEN UpdateCommitIndex(n, sent) ELSE sent
  <2>1. nd \in Node /\ nd.term \in Nat
    BY Typed
  <2>2. SameElection(sent, nd)
    BY <2>1, LeaseUpdate, Zenon
  <2>3. node' = [node EXCEPT ![n] = r]
    BY <1>4 DEF HeartbeatCallback
  <2>4. r.term = nd.term
    <3> HIDE DEF sent
    <3>1. sent \in Node /\ sent.servers = nd.servers /\ sent.term = nd.term
      BY <2>2 DEF SameElection, ElectionPart
    <3>2. QED
      BY <3>1, UpdateCommitIndexFacts DEF SameElection, ElectionPart
  <2> HIDE DEF r
  <2>5. r.term \in Nat /\ r.term >= node[n].term
    BY <2>1, <2>4
  <2>6. QED
    BY <1>1, <2>3, <2>5, Zenon
<1>5. ASSUME NEW c \in voteCalls, ProcessRequestVoteClientRequest(c) PROVE Later
  <2> DEFINE nd == node[c.to]
             heard == [nd EXCEPT !.heardLeader = FALSE]
             current == ObserveTerm(heard, c.term)
             granted == VoteGranted(c, current)
             after == IF granted THEN GrantVote(current, c.from) ELSE current
  <2>1. c.to \in Server /\ c.from \in Server /\ c.term \in Nat /\ nd \in Node /\ nd.term \in Nat
    BY Typed
  <2>2. node' = [node EXCEPT ![c.to] = after]
    BY <1>5 DEF ProcessRequestVoteClientRequest
  <2>3. heard \in Node /\ heard.term = nd.term
    BY <2>1, TimerUpdate, ZenonT(60) DEF SameElection, ElectionPart
  <2> HIDE DEF heard
  <2>4. current \in Node /\ current.term \in Nat /\ current.term >= nd.term
    BY <2>1, <2>3, ObserveTermGrows
  <2> HIDE DEF current, granted
  <2>5. after.term = current.term
    BY <2>1, <2>4, GrantVoteFacts DEF ElectionPart
  <2> HIDE DEF after
  <2>6. QED
    BY <1>1, <2>1, <2>2, <2>4, <2>5, Zenon
<1>6. ASSUME NEW c \in appendCalls, ProcessAppendEntriesClientRequest(c) PROVE Later
  <2> DEFINE n == c.to
             nd == node[n]
             current == ObserveTerm(nd, c.term)
             follower == FollowTerm(c, current)
             merged == [follower EXCEPT !.log = MergedLog(c, current)]
             accepted == c.term = current.term /\ LogsAgree(c, current)
             after == IF accepted THEN FollowerCommit(c, merged)
                      ELSE IF c.term = current.term THEN follower ELSE current
             r == HearLeader(after, c.term)
  <2>1. /\ c \in AppendCall /\ n \in Server /\ c.term \in Nat /\ c.leaderCommit \in Int
        /\ nd \in Node /\ nd.term \in Nat
    BY Typed DEF AppendCall
  <2>2. node' = [node EXCEPT ![n] = r]
    BY <1>6 DEF ProcessAppendEntriesClientRequest
  <2>3. current \in Node /\ current.term \in Nat /\ current.term >= nd.term
    BY <2>1, ObserveTermGrows, SMTT(30)
  <2> HIDE DEF current
  <2>4. /\ follower \in Node
        /\ c.term = current.term => follower.term = current.term
    BY <2>1, <2>3, FollowTermFacts, Zenon DEF ElectionPart
  <2> HIDE DEF follower
  <2>5. after \in Node /\ after.term = current.term
    <3>1. ASSUME accepted PROVE merged \in Node /\ merged.term = follower.term
      <4>1. MergedLog(c, current) \in Seq(Entry)
        BY <2>1, <2>3, <3>1, MergedLogFacts
      <4>2. QED
        BY <2>4, <4>1, LogUpdate, SMTT(30) DEF SameElection, ElectionPart
    <3>2. accepted => c.term = current.term
      BY SMTT(30)
    <3> HIDE DEF merged, accepted
    <3>3. QED
      BY <2>1, <2>3, <2>4, <3>1, <3>2, FollowerCommitFacts DEF SameElection, ElectionPart
  <2> HIDE DEF after
  <2>6. r.term = after.term
    BY <2>1, <2>5, HearLeaderFacts DEF SameElection, ElectionPart
  <2> HIDE DEF r
  <2>7. QED
    BY <1>1, <2>1, <2>2, <2>3, <2>5, <2>6, Zenon
<1>7. ASSUME NEW c \in voteCalls, Prompt(c), ProcessRequestVoteServerResponse(c) PROVE Later
  <2> DEFINE n == c.from
             nd == node[n]
             counted == CountVote(c, nd)
             reset == ResetToFollower(nd, c.replyTerm)
             p == PromoteToLeader(n, counted)
  <2>1. /\ n \in Server /\ c.to \in Server /\ nd \in Node /\ nd.term \in Nat
        /\ c.replyTerm \in Nat /\ c.term = nd.term
    BY <1>7, Typed, SMTT(30) DEF VoteCall, Prompt
  <2>2. counted \in Node /\ counted.term = nd.term
    BY <2>1, CountVoteFacts DEF ElectionPart
  <2>3. reset.term = c.replyTerm
    BY <2>1, ResetToFollowerFacts, SMTT(30) DEF ElectionPart
  <2>4. p.term = nd.term
    BY <2>1, <2>2, PromoteToLeaderFacts DEF ElectionPart
  <2>5. \/ node' = [node EXCEPT ![n] = nd] \/ node' = [node EXCEPT ![n] = counted]
        \/ node' = [node EXCEPT ![n] = p]
        \/ c.replyTerm > c.term /\ node' = [node EXCEPT ![n] = reset]
    BY <1>7 DEF ProcessRequestVoteServerResponse
  <2> HIDE DEF counted, reset, p
  <2>6. QED
    BY <1>1, <2>1, <2>2, <2>3, <2>4, <2>5, SMTT(30)
<1>8. ASSUME NEW c \in appendCalls, Prompt(c), ~CommitIndexPastLog(c, CallerAtReply(c)),
             ProcessAppendEntriesServerResponse(c)
      PROVE  Later
  <2> DEFINE n == c.from
             nd == node[n]
             current == CallerAtReply(c)
             r == AfterAppendReply(c, current)
  <2>1. /\ c \in AppendCall /\ n \in Server /\ c.replyTerm \in Nat
        /\ nd \in Node /\ nd.term \in Nat /\ c.term = nd.term /\ n \in nd.servers
    BY <1>8, Typed DEF AppendCall, Prompt, PromptInv, ElectionInv, Settled
  <2>2. node' = [node EXCEPT ![n] = r]
    BY <1>8 DEF ProcessAppendEntriesServerResponse
  <2>3. /\ current \in Node /\ current.term \in Nat /\ current.term >= nd.term
        /\ current.servers = nd.servers
    <3>1. ASSUME current # nd
          PROVE  c.replyTerm >= nd.term /\ current = ResetToFollower(nd, c.replyTerm)
      BY <2>1, <3>1, SMTT(30) DEF CallerAtReply
    <3>2. ASSUME current = ResetToFollower(nd, c.replyTerm)
          PROVE  current \in Node /\ current.term = c.replyTerm /\ current.servers = nd.servers
      BY <2>1, <3>2, ResetToFollowerFacts, SMTT(30) DEF ElectionPart
    <3> HIDE DEF current
    <3>3. QED
      BY <2>1, <3>1, <3>2
  <2> HIDE DEF current
  <2>4. r.term = current.term
    BY <2>1, <2>3, AfterAppendReplyFacts DEF SameElection, ElectionPart
  <2> HIDE DEF r
  <2>5. QED
    BY <1>1, <2>1, <2>2, <2>3, <2>4, ZenonT(60)
<1> HIDE DEF Later
<1>9. Later
  BY <1>2, <1>3, <1>4, <1>5, <1>6, <1>7, <1>8, Zenon
  DEF PromptNext, HandlerStep, RejectRequestVote, LoseAppendCall
<1>10. QED
  BY <1>9 DEF Later

\* As long as no reply outlives the term it was asked in, no lease expires and
\* no process dies, no handler takes a node back to a term it has left
THEOREM TermsGrow == PromptSpec => TermMonotonic
<1>1. PromptInv /\ [PromptNext]_vars =>
        [\A n \in Server : node'[n].term >= node[n].term]_vars
  BY TermStep
<1>2. Init => PromptInv
  BY DurableInit, ElectionInit DEF PromptInv
<1>3. PromptInv /\ [PromptNext]_vars => PromptInv'
  BY ElectionStep
<1>4. QED
  BY <1>1, <1>2, <1>3, PTL DEF PromptSpec, TermMonotonic

=============================================================================
