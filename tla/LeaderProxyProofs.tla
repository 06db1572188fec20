-------------------------- MODULE LeaderProxyProofs --------------------------
(* The safety properties of LeaderProxy, for every set of servers and peers *)
EXTENDS LeaderProxy, TLAPS

Current == Head(operations)

\* What has been called is what is marked as visited; and the loop is
\* never behind the marks
ProxyInv ==
  /\ TypeOK
  /\ visited \subseteq Peer
  /\ \A a \in Server : called[a] = IF a \in visited THEN 1 ELSE 0
  /\ \A a \in Server : executed[a] <= called[a]
  /\ at = "hint" => hint \in Server \ visited
  /\ at \in {"loop", "hint"} => Peer \subseteq todo \union visited

\* As long as the leader is the same and answers OK, it has executed what was
\* sent to it, and nobody else has executed anything
StableInv ==
  stable /\ Current # "GetConfiguration" =>
    /\ \A a \in Server : executed[a] = IF a = leader /\ a \in visited THEN 1 ELSE 0
    /\ at = "returned" => Peer \subseteq visited \/ leader \in visited

-----------------------------------------------------------------------------
(* What an answer is *)

IsAnswer(a, answer) ==
  /\ answer.ok \in BOOLEAN /\ answer.executed \in BOOLEAN
  /\ answer.hint \in Server \union {NoHint}
  /\ answer.ok => answer.executed /\ (a = leader \/ Current = "GetConfiguration")
  /\ answer.executed => answer.ok \/ a = leader

\* Only an OK of a server that serves the operation, or an error of the leader,
\* stands for an execution
LEMMA AnswerFacts ==
  ASSUME NEW a, NEW answer \in Answers(a)
  PROVE  IsAnswer(a, answer)
<1>1. CASE answer \in {[ok |-> FALSE, hint |-> h, executed |-> e] :
                         h \in Server \union {NoHint}, e \in {FALSE, a = leader}}
  <2>1. PICK h \in Server \union {NoHint}, e \in {FALSE, a = leader} :
               answer = [ok |-> FALSE, hint |-> h, executed |-> e]
    BY <1>1
  <2>2. answer.ok = FALSE /\ answer.hint = h /\ answer.executed = e
    BY <2>1
  <2>3. e \in BOOLEAN /\ (e => a = leader)
    BY <2>1
  <2> QED
    BY <2>1, <2>2, <2>3, Zenon DEF IsAnswer
<1>2. CASE answer = [ok |-> TRUE, hint |-> NoHint, executed |-> TRUE] /\ ServedBy(a)
  <2>1. answer.ok = TRUE /\ answer.hint = NoHint /\ answer.executed = TRUE
    BY <1>2
  <2> QED
    BY <1>2, <2>1, Zenon DEF IsAnswer, ServedBy, Current
<1> QED
  BY <1>1, <1>2 DEF Answers

-----------------------------------------------------------------------------
(* A call, in the loop or at the hint *)

\* A call to an address that is not visited keeps the counts
LEMMA CallCounts ==
  ASSUME ProxyInv, NEW a \in Peer \ visited, NEW answer \in Answers(a),
         Call(a, answer), visited' = visited \union {a}
  PROVE  /\ called' \in [Server -> Nat] /\ executed' \in [Server -> Nat]
         /\ visited' \subseteq Peer
         /\ \A b \in Server : called'[b] = IF b \in visited' THEN 1 ELSE 0
         /\ \A b \in Server : executed'[b] <= called'[b]
         /\ stable' \in BOOLEAN
<1> USE ProxyAssumption
<1>0. a \in Server /\ called[a] = 0 /\ executed[a] = 0
  BY DEF ProxyInv, TypeOK
<1>1. called' = [called EXCEPT ![a] = 1]
  BY <1>0 DEF Call, ProxyInv, TypeOK
<1>2. IsAnswer(a, answer)
  BY AnswerFacts
<1>3. executed' = [executed EXCEPT ![a] = IF answer.executed THEN 1 ELSE 0]
  BY <1>0 DEF Call, ProxyInv, TypeOK
<1>5. stable' \in BOOLEAN
  BY DEF Call, ProxyInv, TypeOK
<1>6. \A b \in Server : called'[b] = IF b \in visited' THEN 1 ELSE 0
  BY <1>0, <1>1 DEF ProxyInv, TypeOK
<1>7. \A b \in Server : executed'[b] <= called'[b]
  BY <1>0, <1>1, <1>3 DEF ProxyInv, TypeOK
<1>8. called' \in [Server -> Nat] /\ executed' \in [Server -> Nat]
  BY <1>0, <1>1, <1>3 DEF ProxyInv, TypeOK
<1> QED
  BY <1>5, <1>6, <1>7, <1>8 DEF ProxyInv

\* While the leader is stable, a call is executed by the leader and by nobody else
LEMMA CallStable ==
  ASSUME ProxyInv, StableInv, NEW a \in Peer \ visited, NEW answer \in Answers(a),
         Call(a, answer), visited' = visited \union {a}, UNCHANGED <<leader, operations>>
  PROVE  stable' /\ Current' # "GetConfiguration" =>
           /\ \A b \in Server : executed'[b] = IF b = leader /\ b \in visited' THEN 1 ELSE 0
           /\ answer.ok => leader \in visited'
<1> USE ProxyAssumption
<1> SUFFICES ASSUME stable', Current # "GetConfiguration"
             PROVE  /\ \A b \in Server : executed'[b] = IF b = leader /\ b \in visited' THEN 1 ELSE 0
                    /\ answer.ok => leader \in visited'
  BY DEF Current
<1>0. a \in Server /\ called[a] = 0 /\ executed[a] = 0
  BY DEF ProxyInv, TypeOK
<1>1. stable /\ (a = leader => answer.ok)
  BY DEF Call
<1>2. IsAnswer(a, answer)
  BY AnswerFacts
<1>3. answer.executed <=> a = leader
  BY <1>1, <1>2 DEF IsAnswer
<1>4. executed' = [executed EXCEPT ![a] = IF a = leader THEN 1 ELSE 0]
  <2>1. executed' = [executed EXCEPT ![a] = executed[a] + IF answer.executed THEN 1 ELSE 0]
    BY DEF Call
  <2>2. (IF answer.executed THEN 1 ELSE 0) = (IF a = leader THEN 1 ELSE 0)
    BY <1>3, Zenon
  <2>3. 0 + (IF a = leader THEN 1 ELSE 0) = (IF a = leader THEN 1 ELSE 0)
    OBVIOUS
  <2>4. executed[a] + (IF answer.executed THEN 1 ELSE 0) = (IF a = leader THEN 1 ELSE 0)
    BY <1>0, <2>2, <2>3, Zenon
  <2> QED
    BY <2>1, <2>4, Zenon
<1>5. \A b \in Server : executed[b] = IF b = leader /\ b \in visited THEN 1 ELSE 0
  BY <1>1 DEF StableInv
<1>6. \A b \in Server : executed'[b] = IF b = leader /\ b \in visited' THEN 1 ELSE 0
  BY <1>0, <1>4, <1>5 DEF ProxyInv, TypeOK
<1>7. answer.ok => leader \in visited'
  BY <1>2 DEF IsAnswer
<1> QED
  BY <1>6, <1>7

-----------------------------------------------------------------------------
\* Every step keeps ProxyInv
LEMMA ProxyInvStep ==
  ASSUME ProxyInv, [Next]_vars
  PROVE  ProxyInv'
<1> USE ProxyAssumption
<1>1. ASSUME NEW a \in Peer, Skip(a)
      PROVE  ProxyInv'
  BY <1>1 DEF Skip, ProxyInv, TypeOK
<1>2. ASSUME NEW a \in Peer, Visit(a)
      PROVE  ProxyInv'
  <2>1. PICK answer \in Answers(a) :
          /\ Call(a, answer)
          /\ ok' = answer.ok
          /\ at' = IF answer.ok THEN "returned" ELSE IF Usable(answer.hint) THEN "hint" ELSE "loop"
          /\ hint' = IF at' = "hint" THEN answer.hint ELSE NoHint
    BY <1>2 DEF Visit
  <2>2. /\ at = "loop" /\ a \in todo /\ a \in Peer \ visited /\ todo' = todo \ {a}
        /\ visited' = visited \union {a} /\ UNCHANGED <<leader, operations, elections>>
    BY <1>2 DEF Visit
  <2>3. IsAnswer(a, answer)
    BY AnswerFacts
  <2>4. /\ called' \in [Server -> Nat] /\ executed' \in [Server -> Nat]
        /\ visited' \subseteq Peer
        /\ \A b \in Server : called'[b] = IF b \in visited' THEN 1 ELSE 0
        /\ \A b \in Server : executed'[b] <= called'[b]
        /\ stable' \in BOOLEAN
    BY <2>1, <2>2, CallCounts
  <2>5. hint' \in Server \union {NoHint} /\ ok' \in BOOLEAN /\ at' \in {"loop", "hint", "returned", "crashed"}
    BY <2>1, <2>3 DEF IsAnswer
  <2>6. TypeOK'
    BY <2>2, <2>4, <2>5 DEF ProxyInv, TypeOK
  <2>7. at' = "hint" => hint' \in Server \ visited'
    BY <2>1, <2>3, <2>5 DEF IsAnswer, Usable
  <2>8. Peer \subseteq todo' \union visited'
    BY <2>2 DEF ProxyInv
  <2> QED
    BY <2>4, <2>6, <2>7, <2>8 DEF ProxyInv
<1>3. CASE UnknownHint
  BY <1>3 DEF UnknownHint, ProxyInv, TypeOK
<1>4. CASE FollowHint
  <2>1. PICK answer \in Answers(hint) : Call(hint, answer) /\ ok' = answer.ok
    BY <1>4 DEF FollowHint
  <2>2. /\ at = "hint" /\ hint \in Peer \ visited /\ visited' = visited \union {hint}
        /\ at' = "loop" /\ hint' = NoHint /\ UNCHANGED <<leader, operations, todo, elections>>
    BY <1>4 DEF FollowHint, VisitedWithHint, ProxyInv
  <2>3. IsAnswer(hint, answer)
    BY AnswerFacts
  <2>4. /\ called' \in [Server -> Nat] /\ executed' \in [Server -> Nat]
        /\ visited' \subseteq Peer
        /\ \A b \in Server : called'[b] = IF b \in visited' THEN 1 ELSE 0
        /\ \A b \in Server : executed'[b] <= called'[b]
        /\ stable' \in BOOLEAN
    BY <2>1, <2>2, CallCounts
  <2>5. TypeOK'
    <3>1. ok' \in BOOLEAN
      BY <2>1, <2>3 DEF IsAnswer
    <3> QED
      BY <2>2, <2>4, <3>1 DEF ProxyInv, TypeOK
  <2>6. Peer \subseteq todo' \union visited'
    BY <2>2 DEF ProxyInv
  <2> QED
    BY <2>2, <2>4, <2>5, <2>6 DEF ProxyInv
<1>5. CASE EndOfLoop
  BY <1>5 DEF EndOfLoop, ProxyInv, TypeOK
<1>6. CASE NextOperation
  <2>1. operations' \in {<<"ClientRequest">>, <<"SetConfiguration">>}
    <3>1. operations' = Tail(operations) /\ Len(operations) > 1
      BY <1>6 DEF NextOperation
    <3>2. CASE operations = <<"RegisterClient", "ClientRequest">>
      BY <3>1, <3>2
    <3>3. CASE operations = <<"GetConfiguration", "SetConfiguration">>
      BY <3>1, <3>3
    <3>4. CASE operations \in {<<"ClientQuery">>, <<"ClientRequest">>, <<"SetConfiguration">>}
      BY <3>1, <3>4
    <3> QED
      BY <3>2, <3>3, <3>4 DEF ProxyInv, TypeOK, Flow
  <2> QED
    BY <1>6, <2>1 DEF NextOperation, Start, ProxyInv, TypeOK
<1>7. CASE Election
  <2>1. elections' \in Nat
    BY <1>7 DEF Election, ProxyInv, TypeOK
  <2>2. /\ leader' \in Server \union {NoHint} /\ stable' \in BOOLEAN
        /\ UNCHANGED <<operations, at, todo, visited, hint, ok, called, executed>>
    BY <1>7, Zenon DEF Election
  <2>3. TypeOK'
    BY <2>1, <2>2, Zenon DEF ProxyInv, TypeOK
  <2> QED
    BY <2>2, <2>3 DEF ProxyInv
<1>8. CASE UNCHANGED vars
  BY <1>8 DEF vars, ProxyInv, TypeOK
<1> QED
  BY <1>1, <1>2, <1>3, <1>4, <1>5, <1>6, <1>7, <1>8 DEF Next, Proxy

\* Every step keeps StableInv
LEMMA StableInvStep ==
  ASSUME ProxyInv, StableInv, [Next]_vars
  PROVE  StableInv'
<1> USE ProxyAssumption
<1>1. ASSUME NEW a \in Peer, Skip(a)
      PROVE  StableInv'
  BY <1>1 DEF Skip, StableInv, Current
<1>2. ASSUME NEW a \in Peer, Visit(a)
      PROVE  StableInv'
  <2>1. PICK answer \in Answers(a) :
          /\ Call(a, answer)
          /\ at' = IF answer.ok THEN "returned" ELSE IF Usable(answer.hint) THEN "hint" ELSE "loop"
    BY <1>2 DEF Visit
  <2>2. a \in Peer \ visited /\ visited' = visited \union {a} /\ UNCHANGED <<leader, operations>>
    BY <1>2 DEF Visit
  <2>3. stable' /\ Current' # "GetConfiguration" =>
          /\ \A b \in Server : executed'[b] = IF b = leader /\ b \in visited' THEN 1 ELSE 0
          /\ answer.ok => leader \in visited'
    BY <2>1, <2>2, CallStable
  <2> QED
    BY <2>1, <2>2, <2>3 DEF StableInv
<1>3. CASE UnknownHint
  BY <1>3 DEF UnknownHint, StableInv, Current
<1>4. CASE FollowHint
  <2>1. PICK answer \in Answers(hint) : Call(hint, answer)
    BY <1>4 DEF FollowHint
  <2>2. /\ hint \in Peer \ visited /\ visited' = visited \union {hint}
        /\ at' = "loop" /\ UNCHANGED <<leader, operations>>
    BY <1>4 DEF FollowHint, VisitedWithHint, ProxyInv
  <2>3. stable' /\ Current' # "GetConfiguration" =>
          \A b \in Server : executed'[b] = IF b = leader /\ b \in visited' THEN 1 ELSE 0
    BY <2>1, <2>2, CallStable
  <2> QED
    BY <2>2, <2>3 DEF StableInv
<1>5. CASE EndOfLoop
  <2>1. /\ at = "loop" /\ todo = {}
        /\ UNCHANGED <<leader, operations, visited, executed, stable>>
    BY <1>5 DEF EndOfLoop, LoopOver
  <2>2. Peer \subseteq visited
    BY <2>1 DEF ProxyInv
  <2> QED
    BY <2>1, <2>2 DEF StableInv, Current
<1>6. CASE NextOperation
  BY <1>6 DEF NextOperation, Start, StableInv
<1>7. CASE Election
  BY <1>7 DEF Election, StableInv
<1>8. CASE UNCHANGED vars
  BY <1>8 DEF vars, StableInv, Current
<1> QED
  BY <1>1, <1>2, <1>3, <1>4, <1>5, <1>6, <1>7, <1>8 DEF Next, Proxy

-----------------------------------------------------------------------------
\* Both invariants hold from the start on
LEMMA ProxyInvariants == Spec => [](ProxyInv /\ StableInv)
<1>1. Init => ProxyInv
  BY ProxyAssumption DEF Init, ProxyInv, TypeOK, Flow
<1>2. Init => StableInv
  BY DEF Init, StableInv
<1>3. ProxyInv /\ StableInv /\ [Next]_vars => ProxyInv' /\ StableInv'
  BY ProxyInvStep, StableInvStep
<1> QED
  BY <1>1, <1>2, <1>3, PTL DEF Spec

\* For any servers, hints, lost answers and elections, RedirectToLeader sends an
\* operation to an address at most once
THEOREM AddressCalledOnce == Spec => []CalledOnce
<1>1. ProxyInv => CalledOnce
  BY DEF ProxyInv, TypeOK, CalledOnce
<1> QED
  BY <1>1, ProxyInvariants, PTL

\* A leader that stays, is among the peers and answers OK executes an operation
\* exactly once before RedirectToLeader returns, and no other server does
THEOREM StableLeaderExecutesOnce == Spec => []StableLeaderExecutes
<1>1. ProxyInv /\ StableInv => StableLeaderExecutes
  BY ProxyAssumption DEF ProxyInv, StableInv, StableLeaderExecutes, Current
<1> QED
  BY <1>1, ProxyInvariants, PTL

=============================================================================
