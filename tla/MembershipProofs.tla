-------------------------- MODULE MembershipProofs --------------------------
(***************************************************************************)
(* Quorums of a joint configuration, and the configuration a node works    *)
(* with, for every set of servers and every number of changes.             *)
(***************************************************************************)
EXTENDS Membership, FiniteSetTheorems, WellFoundedInduction, TLAPS

-----------------------------------------------------------------------------
(* Quorums *)

\* Two majorities of the same members have a member in common
LEMMA MajoritiesMeet ==
  ASSUME NEW members \in SUBSET Server, NEW a, NEW b, Majority(a, members), Majority(b, members)
  PROVE  a \intersect b # {}
<1>1. IsFiniteSet(members)
  BY FS_Subset, ServersAssumption
<1> DEFINE A == a \intersect members
           B == b \intersect members
<1>2. IsFiniteSet(A) /\ IsFiniteSet(B) /\ A \subseteq members /\ B \subseteq members
  BY <1>1, FS_Subset
<1>3. Cardinality(A) \in Nat /\ Cardinality(B) \in Nat /\ Cardinality(members) \in Nat
  BY <1>1, <1>2, FS_CardinalityType
<1>4. Cardinality(A) + Cardinality(B) > Cardinality(members)
  BY <1>3 DEF Majority
<1>5. A \intersect B # {}
  <2> HIDE DEF A, B
  <2> QED
    BY <1>1, <1>2, <1>4, FS_MajoritiesIntersect
<1> QED
  BY <1>5

\* While a change is under way, the servers that satisfy CheckQuorum share one
\* with every majority of the members before the change, and with every majority
\* of those after it: neither can elect a leader or commit an entry on its own
THEOREM JointQuorumsMeet ==
  ASSUME NEW cc, IsClusterConfiguration(cc), cc.state = "JOINT",
         NEW votes, CheckQuorum(cc, votes),
         NEW others, Majority(others, cc.current.prev) \/ Majority(others, cc.current.next)
  PROVE  votes \intersect others # {}
<1>1. cc.current.prev \in SUBSET Server /\ cc.current.next \in SUBSET Server
  BY DEF IsClusterConfiguration, Members
<1>2. Majority(votes, cc.current.prev) /\ Majority(votes, cc.current.next)
  BY DEF CheckQuorum
<1> QED
  BY <1>1, <1>2, MajoritiesMeet

-----------------------------------------------------------------------------
(* Sequences and sets of indices *)

IsSeq(s) == \E S : s \in Seq(S)

\* A set of indices that is not empty has a last one
LEMMA LastExists ==
  ASSUME NEW n \in Nat, NEW S, S \subseteq 0..n, S # {}
  PROVE  \E i \in S : \A j \in S : j <= i
<1> DEFINE T == {n - i : i \in S}
<1> PICK first \in S : TRUE
  BY Zenon
<1>1. T \subseteq Nat /\ T # {}
  <2>1. n - first \in T
    OBVIOUS
  <2>2. \A i \in S : n - i \in Nat
    OBVIOUS
  <2> QED
    BY <2>1, <2>2
<1>2. PICK x \in T : \A y \in T : ~(<<y, x>> \in OpToRel(<, Nat))
  <2> HIDE DEF T
  <2> QED
    BY <1>1, NatLessThanWellFounded, WFMin, Zenon
<1>3. \A y \in T : ~(y < x)
  BY <1>1, <1>2, Zenon DEF OpToRel
<1>4. PICK i \in S : x = n - i
  OBVIOUS
<1>5. \A j \in S : n - j \in T /\ j \in Int
  <2> TAKE j \in S
  <2>1. n - j \in T
    OBVIOUS
  <2>2. j \in Int
    OBVIOUS
  <2> QED
    BY <2>1, <2>2
<1>6. \A j \in S : ~(n - j < n - i)
  BY <1>3, <1>4, <1>5, Zenon
<1> QED
  BY <1>5, <1>6

\* Append and SubSeq
LEMMA AppendSeq ==
  ASSUME NEW s, IsSeq(s), NEW e
  PROVE  /\ IsSeq(Append(s, e)) /\ Len(s) \in Nat /\ Len(Append(s, e)) = Len(s) + 1
         /\ Append(s, e)[Len(s) + 1] = e
         /\ \A k \in 1..Len(s) : Append(s, e)[k] = s[k]
<1>1. PICK S : s \in Seq(S)
  BY DEF IsSeq
<1>2. s \in Seq(S \union {e}) /\ e \in S \union {e}
  BY <1>1
<1> DEFINE T == S \union {e}
<1> HIDE DEF T
<1>3. s \in Seq(T) /\ e \in T
  BY <1>2 DEF T
<1>4. Append(s, e) \in Seq(T)
  BY <1>3
<1> QED
  BY <1>3, <1>4 DEF IsSeq

LEMMA SubSeqSeq ==
  ASSUME NEW s, IsSeq(s), NEW n \in 0..Len(s)
  PROVE  /\ IsSeq(SubSeq(s, 1, n)) /\ Len(SubSeq(s, 1, n)) = n
         /\ \A k \in 1..n : SubSeq(s, 1, n)[k] = s[k]
<1>1. PICK S : s \in Seq(S)
  BY DEF IsSeq
<1>2. /\ SubSeq(s, 1, n) \in Seq(S) /\ Len(SubSeq(s, 1, n)) = n
      /\ \A k \in 1..n : SubSeq(s, 1, n)[k] = s[k]
  BY <1>1
<1> QED
  BY <1>2 DEF IsSeq

-----------------------------------------------------------------------------
(* ClusterConfiguration *)

IsConfiguration(cc) ==
  \E I, S, C, K, Y : cc \in [id : I, state : S, current : C, known : K, sync : Y]

\* The configuration with the largest index is the current one
UsesLast(cc) ==
  /\ cc.id \in DOMAIN cc.known /\ cc.current = cc.known[cc.id]
  /\ \A j \in DOMAIN cc.known : j <= cc.id

\* The fields that SetConfiguration sets
LEMMA SetConfigurationFields ==
  ASSUME NEW cc, IsConfiguration(cc), NEW id, NEW members
  PROVE  /\ IsConfiguration(SetConfiguration(cc, id, members))
         /\ SetConfiguration(cc, id, members).known = cc.known
         /\ SetConfiguration(cc, id, members).id = id
         /\ SetConfiguration(cc, id, members).current = members
<1> DEFINE new == SetConfiguration(cc, id, members)
           state == IF members.next = {} THEN "STABLE" ELSE "JOINT"
<1>1. PICK I, S, C, K, Y : cc \in [id : I, state : S, current : C, known : K, sync : Y]
  BY DEF IsConfiguration
<1>2. new = [cc EXCEPT !.state = state, !.id = id, !.current = members, !.sync = NoSync]
  BY DEF SetConfiguration
<1> HIDE DEF state
<1>3. new \in [id : {id}, state : {state}, current : {members}, known : {cc.known}, sync : {NoSync}]
  <2> HIDE DEF new
  <2> QED
    BY <1>1, <1>2, Zenon
<1> HIDE DEF new
<1>4. /\ IsConfiguration(new) /\ new.known = cc.known /\ new.id = id /\ new.current = members
  BY <1>3, ZenonT(60) DEF IsConfiguration, state
<1> QED
  BY <1>4 DEF new

\* UseLatest changes no entry of m_configurations, and uses the last of them
\* where the one in use, if it is the last, was the current one
LEMMA UseLatestFields ==
  ASSUME NEW cc, IsConfiguration(cc)
  PROVE  /\ IsConfiguration(UseLatest(cc))
         /\ UseLatest(cc).known = cc.known
         /\ \A last \in DOMAIN cc.known :
              /\ \A j \in DOMAIN cc.known : j \in Int /\ j <= last
              /\ cc.id = last => cc.current = cc.known[last]
              => UsesLast(UseLatest(cc))
<1> DEFINE max == CHOOSE i \in DOMAIN cc.known : \A j \in DOMAIN cc.known : j <= i
           set == SetConfiguration(cc, max, cc.known[max])
<1>1. UseLatest(cc) = IF cc.id = max THEN cc ELSE set
  BY DEF UseLatest
<1>2. /\ IsConfiguration(set) /\ set.known = cc.known /\ set.id = max /\ set.current = cc.known[max]
  BY SetConfigurationFields
<1>3. ASSUME NEW last \in DOMAIN cc.known, \A j \in DOMAIN cc.known : j \in Int /\ j <= last,
             cc.id = last => cc.current = cc.known[last]
      PROVE  UsesLast(UseLatest(cc))
  <2>1. max \in DOMAIN cc.known /\ \A j \in DOMAIN cc.known : j <= max
    BY <1>3
  <2> HIDE DEF max, set
  <2>2. max = last
    BY <1>3, <2>1
  <2> QED
    BY <1>1, <1>2, <1>3, <2>1, <2>2 DEF UsesLast
<1> HIDE DEF max, set
<1> QED
  BY <1>1, <1>2, <1>3

\* m_configurations alone is replaced
LEMMA KnownReplaced ==
  ASSUME NEW cc, IsConfiguration(cc), NEW known
  PROVE  LET new == [cc EXCEPT !.known = known]
         IN  /\ IsConfiguration(new)
             /\ new.known = known /\ new.id = cc.id /\ new.current = cc.current
<1> DEFINE new == [cc EXCEPT !.known = known]
<1>1. PICK I, S, C, K, Y : cc \in [id : I, state : S, current : C, known : K, sync : Y]
  BY DEF IsConfiguration
<1>2. new \in [id : {cc.id}, state : {cc.state}, current : {cc.current}, known : {known}, sync : {cc.sync}]
  BY <1>1
<1> HIDE DEF new
<1>3. /\ IsConfiguration(new)
      /\ new.known = known /\ new.id = cc.id /\ new.current = cc.current
  BY <1>2, Zenon DEF IsConfiguration
<1> QED
  BY <1>3 DEF new

\* A configuration behind all others is the one in use
LEMMA InsertFields ==
  ASSUME NEW cc, IsConfiguration(cc), NEW id \in Nat, NEW members
  PROVE  LET new == InsertNewConfiguration(cc, id, members)
         IN  /\ IsConfiguration(new)
             /\ (UsesLast(cc) /\ \A j \in DOMAIN cc.known : j \in Nat /\ j < id)
                  => UsesLast(new) /\ new.known = With(cc.known, id, members)
<1> DEFINE new == InsertNewConfiguration(cc, id, members)
           with == [cc EXCEPT !.known = With(cc.known, id, members)]
<1>1. new = UseLatest(IF id \in DOMAIN cc.known THEN cc ELSE with)
  BY DEF InsertNewConfiguration
<1>2. /\ IsConfiguration(with)
      /\ with.known = With(cc.known, id, members) /\ with.id = cc.id /\ with.current = cc.current
  BY KnownReplaced
<1> HIDE DEF new, with
<1>3. IsConfiguration(new)
  BY <1>1, <1>2, UseLatestFields
<1>4. ASSUME UsesLast(cc), \A j \in DOMAIN cc.known : j \in Nat /\ j < id
      PROVE  UsesLast(new) /\ new.known = With(cc.known, id, members)
  <2>1. id \notin DOMAIN cc.known /\ cc.id # id
    BY <1>4 DEF UsesLast
  <2>2. new = UseLatest(with)
    BY <1>1, <2>1
  <2>3. DOMAIN with.known = DOMAIN cc.known \union {id}
    BY <1>2 DEF With
  <2>4. id \in DOMAIN with.known /\ \A j \in DOMAIN with.known : j \in Int /\ j <= id
    BY <1>4, <2>3
  <2> QED
    BY <1>2, <2>1, <2>2, <2>4, UseLatestFields
<1> QED
  BY <1>3, <1>4 DEF new

\* What is left of m_configurations, and the last of it in use
LEMMA TruncateFields ==
  ASSUME NEW cc, IsConfiguration(cc), NEW removalIndex \in Nat
  PROVE  LET new == TruncateSuffix(cc, removalIndex)
             left == {j \in DOMAIN cc.known : j <= removalIndex}
         IN  /\ IsConfiguration(new)
             /\ new.known = [i \in left |-> cc.known[i]]
             /\ (UsesLast(cc) /\ left # {} /\ DOMAIN cc.known \subseteq Nat) => UsesLast(new)
<1> DEFINE new == TruncateSuffix(cc, removalIndex)
           left == {j \in DOMAIN cc.known : j <= removalIndex}
           known == [i \in left |-> cc.known[i]]
           cut == [cc EXCEPT !.known = known]
<1>1. new = UseLatest(cut)
  BY DEF TruncateSuffix
<1>2. /\ IsConfiguration(cut)
      /\ cut.known = known /\ cut.id = cc.id /\ cut.current = cc.current
  <2> HIDE DEF known
  <2> QED
    BY KnownReplaced
<1>3. DOMAIN known = left /\ \A i \in left : known[i] = cc.known[i]
  OBVIOUS
<1>4. left \subseteq DOMAIN cc.known /\ \A j \in left : j <= removalIndex
  OBVIOUS
<1> HIDE DEF new, left, known, cut
<1>5. IsConfiguration(new) /\ new.known = known
  BY <1>1, <1>2, UseLatestFields
<1>6. ASSUME UsesLast(cc), left # {}, DOMAIN cc.known \subseteq Nat
      PROVE  UsesLast(new)
  <2>1. left \subseteq 0..removalIndex
    BY <1>4, <1>6
  <2>2. PICK last \in left : \A j \in left : j <= last
    BY <1>6, <2>1, LastExists, Zenon
  <2>3. cc.id = last => cc.current = known[last]
    BY <1>3, <1>6 DEF UsesLast
  <2>4. last \in DOMAIN cut.known /\ \A j \in DOMAIN cut.known : j \in Int /\ j <= last
    <3>1. DOMAIN cut.known = left /\ \A j \in left : j \in Int
      BY <1>2, <1>3, <2>1
    <3> QED
      BY <2>2, <3>1
  <2>5. cut.id = last => cut.current = cut.known[last]
    BY <1>2, <2>3
  <2> QED
    BY <1>1, <1>2, <2>4, <2>5, UseLatestFields
<1> QED
  BY <1>5, <1>6 DEF new, left, known

-----------------------------------------------------------------------------
(* The node *)

IsNode(nd) ==
  \E T, S, L, C, M, K : nd \in [term : T, state : S, log : L, commitIndex : C, matchIndex : M, cc : K]

\* The configuration of the bootstrap's reconfiguration is committed, and stays
Sound(nd) ==
  /\ IsNode(nd) /\ IsSeq(nd.log)
  /\ nd.commitIndex \in Nat /\ 3 <= nd.commitIndex /\ nd.commitIndex < LogSize(nd)
  /\ EntryAt(nd, 3).members # NoMembers
  /\ IsConfiguration(nd.cc)

Indices(nd) == {i \in 0..LogSize(nd) - 1 : EntryAt(nd, i).members # NoMembers}

\* m_configurations has the configuration entries of the log, and the last is in use
Tracks(nd) ==
  /\ DOMAIN nd.cc.known = Indices(nd)
  /\ \A i \in Indices(nd) : nd.cc.known[i] = EntryAt(nd, i).members
  /\ UsesLast(nd.cc)

\* The log and what is known of it stay
LEMMA SameConfiguration ==
  ASSUME NEW nd, Sound(nd), NEW new, IsNode(new), new.log = nd.log,
         new.commitIndex \in nd.commitIndex..LogSize(nd) - 1,
         IsConfiguration(new.cc),
         new.cc.known = nd.cc.known, new.cc.id = nd.cc.id, new.cc.current = nd.cc.current
  PROVE  Sound(new) /\ (Tracks(nd) => Tracks(new))
<1>1. LogSize(nd) \in Nat
  BY DEF Sound, IsSeq, LogSize
<1>2. Sound(new)
  BY <1>1 DEF Sound, LogSize, EntryAt
<1> QED
  BY <1>2 DEF Tracks, Indices, LogSize, EntryAt, UsesLast

\* An entry at the end
LEMMA AppendEntryKeeps ==
  ASSUME NEW nd, Sound(nd), NEW entry
  PROVE  LET new == AppendEntry(nd, entry)
         IN  Sound(new) /\ new.state = nd.state /\ (Tracks(nd) => Tracks(new))
<1> DEFINE new == AppendEntry(nd, entry)
           log == Append(nd.log, entry)
           cc == IF entry.members = NoMembers THEN nd.cc
                 ELSE InsertNewConfiguration(nd.cc, LogSize(nd), entry.members)
<1>1. PICK T, S, L, C, M, K : nd \in [term : T, state : S, log : L, commitIndex : C, matchIndex : M, cc : K]
  BY DEF Sound, IsNode
<1>2. new = [nd EXCEPT !.log = log, !.cc = cc]
  BY DEF AppendEntry
<1> HIDE DEF new
<1>3. /\ IsSeq(log) /\ Len(nd.log) \in Nat /\ Len(log) = Len(nd.log) + 1 /\ log[Len(nd.log) + 1] = entry
      /\ \A k \in 1..Len(nd.log) : log[k] = nd.log[k]
  BY AppendSeq DEF Sound
<1>4. /\ IsConfiguration(cc)
      /\ entry.members = NoMembers => cc = nd.cc
      /\ entry.members # NoMembers /\ UsesLast(nd.cc)
            /\ (\A j \in DOMAIN nd.cc.known : j \in Nat /\ j < LogSize(nd)) =>
           UsesLast(cc) /\ cc.known = With(nd.cc.known, LogSize(nd), entry.members)
  BY <1>3, InsertFields DEF Sound, LogSize
<1> HIDE DEF log, cc
<1>5. new \in [term : T, state : S, log : {log}, commitIndex : {nd.commitIndex}, matchIndex : M, cc : {cc}]
  BY <1>1, <1>2, Zenon
<1>6. IsNode(new) /\ new.log = log /\ new.commitIndex = nd.commitIndex /\ new.cc = cc
  BY <1>5, ZenonT(60) DEF IsNode
<1>7. new.state = nd.state
  BY <1>1, <1>2
<1>8. LogSize(new) = LogSize(nd) + 1 /\ LogSize(nd) \in Nat
  BY <1>3, <1>6 DEF LogSize
<1>9. EntryAt(new, LogSize(nd)) = entry /\ \A i \in 0..LogSize(nd) - 1 : EntryAt(new, i) = EntryAt(nd, i)
  BY <1>3, <1>6 DEF LogSize, EntryAt
<1>10. Sound(new)
  <2>1. 3 \in 0..LogSize(nd) - 1 /\ nd.commitIndex < LogSize(new)
    BY <1>8 DEF Sound
  <2> QED
    BY <1>3, <1>4, <1>6, <1>9, <2>1 DEF Sound
<1>11. ASSUME Tracks(nd) PROVE Tracks(new)
  <2>1. CASE entry.members = NoMembers
    <3>1. Indices(new) = Indices(nd)
      BY <1>8, <1>9, <2>1 DEF Indices
    <3>2. Indices(nd) \subseteq 0..LogSize(nd) - 1
      BY DEF Indices
    <3> QED
      BY <1>4, <1>6, <1>9, <1>11, <2>1, <3>1, <3>2 DEF Tracks
  <2>2. CASE entry.members # NoMembers
    <3>1. Indices(new) = Indices(nd) \union {LogSize(nd)}
      BY <1>8, <1>9, <2>2 DEF Indices
    <3>2. Indices(nd) \subseteq 0..LogSize(nd) - 1
      BY DEF Indices
    <3>3. \A j \in DOMAIN nd.cc.known : j \in Nat /\ j < LogSize(nd)
      BY <1>8, <1>11, <3>2 DEF Tracks
    <3>4. UsesLast(cc) /\ cc.known = With(nd.cc.known, LogSize(nd), entry.members)
      BY <1>4, <1>11, <2>2, <3>3 DEF Tracks
    <3>5. /\ DOMAIN cc.known = Indices(new) /\ LogSize(nd) \notin Indices(nd)
          /\ cc.known[LogSize(nd)] = entry.members
          /\ \A i \in Indices(nd) : cc.known[i] = nd.cc.known[i]
      BY <1>8, <1>11, <3>1, <3>2, <3>4 DEF With, Tracks
    <3> QED
      BY <1>6, <1>9, <1>11, <3>1, <3>2, <3>4, <3>5 DEF Tracks
  <2> QED
    BY <2>1, <2>2
<1> QED
  BY <1>7, <1>10, <1>11 DEF new

\* A log is cut at an index that is not committed
LEMMA TruncateKeeps ==
  ASSUME NEW nd, Sound(nd), NEW i \in Nat, nd.commitIndex < i, i < LogSize(nd)
  PROVE  LET new == [nd EXCEPT !.log = SubSeq(@, 1, i), !.cc = TruncateSuffix(@, i)]
         IN  Sound(new) /\ (Tracks(nd) /\ i \notin DOMAIN new.cc.known => Tracks(new))
<1> DEFINE log == SubSeq(nd.log, 1, i)
           cc == TruncateSuffix(nd.cc, i)
           new == [nd EXCEPT !.log = SubSeq(@, 1, i), !.cc = TruncateSuffix(@, i)]
           left == {j \in DOMAIN nd.cc.known : j <= i}
<1>1. PICK T, S, L, C, M, K : nd \in [term : T, state : S, log : L, commitIndex : C, matchIndex : M, cc : K]
  BY DEF Sound, IsNode
<1>2. new = [nd EXCEPT !.log = log, !.cc = cc]
  OBVIOUS
<1> HIDE DEF new
<1>3. LogSize(nd) \in Nat /\ LogSize(nd) = Len(nd.log)
  BY AppendSeq DEF Sound, LogSize
<1>4. IsSeq(log) /\ Len(log) = i /\ \A k \in 1..i : log[k] = nd.log[k]
  BY <1>3, SubSeqSeq DEF Sound
<1>5. /\ IsConfiguration(cc) /\ cc.known = [j \in left |-> nd.cc.known[j]]
      /\ UsesLast(nd.cc) /\ left # {} /\ DOMAIN nd.cc.known \subseteq Nat => UsesLast(cc)
  BY TruncateFields DEF Sound
<1> HIDE DEF log, cc
<1>6. new \in [term : T, state : S, log : {log}, commitIndex : {nd.commitIndex}, matchIndex : M, cc : {cc}]
  BY <1>1, <1>2, Zenon
<1>7. IsNode(new) /\ new.log = log /\ new.commitIndex = nd.commitIndex /\ new.cc = cc
  BY <1>6, ZenonT(60) DEF IsNode
<1>8. LogSize(new) = i /\ \A j \in 0..i - 1 : EntryAt(new, j) = EntryAt(nd, j)
  BY <1>4, <1>7 DEF LogSize, EntryAt
<1>9. Sound(new)
  <2>1. 3 \in 0..i - 1
    BY DEF Sound
  <2> QED
    BY <1>4, <1>5, <1>7, <1>8, <2>1 DEF Sound
<1>10. ASSUME Tracks(nd), i \notin DOMAIN new.cc.known PROVE Tracks(new)
  <2>1. DOMAIN new.cc.known = left
    BY <1>5, <1>7
  <2>2. Indices(nd) = DOMAIN nd.cc.known /\ Indices(nd) \subseteq 0..LogSize(nd) - 1
    BY <1>10 DEF Tracks, Indices
  <2>3. left = {j \in Indices(nd) : j <= i /\ j # i}
    BY <1>10, <2>1, <2>2
  <2>4. \A j \in 0..LogSize(nd) - 1 : (j <= i /\ j # i) <=> j \in 0..i - 1
    BY <1>3
  <2>5. Indices(new) = left
    BY <1>3, <1>8, <2>3, <2>4 DEF Indices
  <2>6. 3 \in left
    <3>1. 3 \in Indices(nd) /\ 3 <= i /\ 3 # i
      BY <1>3 DEF Sound, Indices
    <3> QED
      BY <2>3, <3>1
  <2>7. UsesLast(cc)
    BY <1>5, <1>10, <2>2, <2>6 DEF Tracks
  <2>8. \A j \in left : j \in 0..i - 1 /\ j \in Indices(nd)
    BY <2>2, <2>3, <2>4
  <2>9. \A j \in left : cc.known[j] = EntryAt(new, j).members
    BY <1>5, <1>8, <1>10, <2>8 DEF Tracks
  <2> QED
    BY <1>7, <2>1, <2>5, <2>7, <2>9 DEF Tracks
<1> QED
  BY <1>9, <1>10 DEF new

\* The log sync changes neither the configurations nor which is in use
LEMMA SyncFields ==
  ASSUME NEW cc, IsConfiguration(cc), NEW new, NEW index, NEW servers, NEW address, NEW matchIndex,
         \/ new = StartLogSync(cc, index, servers) \/ new = CancelLogSync(cc)
         \/ new = UpdateSyncProgress(cc, address, matchIndex)
  PROVE  /\ IsConfiguration(new) /\ new.known = cc.known /\ new.id = cc.id /\ new.current = cc.current
<1>1. PICK I, S, C, K, Y : cc \in [id : I, state : S, current : C, known : K, sync : Y]
  BY DEF IsConfiguration
<1>2. ASSUME NEW state, NEW sync, new = [cc EXCEPT !.sync = sync, !.state = state]
      PROVE  /\ IsConfiguration(new) /\ new.known = cc.known /\ new.id = cc.id /\ new.current = cc.current
  <2>1. new \in [id : {cc.id}, state : {state}, current : {cc.current}, known : {cc.known}, sync : {sync}]
    BY <1>1, <1>2, Zenon
  <2> QED
    BY <2>1, ZenonT(60) DEF IsConfiguration
<1>3. CASE new = StartLogSync(cc, index, servers)
  BY <1>2, <1>3, ZenonT(60) DEF StartLogSync
<1>4. CASE new = CancelLogSync(cc)
  BY <1>2, <1>4, ZenonT(60) DEF CancelLogSync
<1>5. CASE new = UpdateSyncProgress(cc, address, matchIndex)
  <2>1. CASE cc.state # "SYNC"
    BY <1>5, <2>1 DEF UpdateSyncProgress
  <2>2. ASSUME cc.state = "SYNC", NEW diff, NEW progress, NEW done,
               new = [cc EXCEPT !.sync.diff = diff, !.sync.progress = progress, !.sync.done = done]
        PROVE  /\ IsConfiguration(new) /\ new.known = cc.known /\ new.id = cc.id /\ new.current = cc.current
    <3>1. PICK sync : new \in [id : {cc.id}, state : {cc.state}, current : {cc.current},
                               known : {cc.known}, sync : {sync}]
      BY <1>1, <2>2, Zenon
    <3> QED
      BY <3>1, Zenon DEF IsConfiguration
  <2> QED
    BY <1>5, <2>1, <2>2, Zenon DEF UpdateSyncProgress
<1> QED
  BY <1>3, <1>4, <1>5

\* A step that replaces fields of the node, not its log
LEMMA FieldsKeep ==
  ASSUME NEW nd, Sound(nd), NEW T, NEW S, NEW commit \in nd.commitIndex..LogSize(nd) - 1,
         NEW M, NEW cc, IsConfiguration(cc),
         cc.known = nd.cc.known, cc.id = nd.cc.id, cc.current = nd.cc.current,
         NEW new \in [term : T, state : S, log : {nd.log}, commitIndex : {commit}, matchIndex : M, cc : {cc}]
  PROVE  Sound(new) /\ (Tracks(nd) => Tracks(new))
<1>1. /\ IsNode(new) /\ new.log = nd.log /\ new.commitIndex = commit /\ new.cc = cc
  BY ZenonT(60) DEF IsNode
<1> QED
  BY <1>1, SameConfiguration

\* The same, where the commit index stays too
LEMMA NodeFields ==
  ASSUME NEW nd, Sound(nd)
  PROVE  /\ LogSize(nd) \in Nat /\ nd.commitIndex \in nd.commitIndex..LogSize(nd) - 1
         /\ IsConfiguration(nd.cc)
         /\ \E T, S, M : nd \in [term : T, state : S, log : {nd.log}, commitIndex : {nd.commitIndex},
                                 matchIndex : M, cc : {nd.cc}]
<1>1. LogSize(nd) \in Nat
  BY AppendSeq DEF Sound, LogSize
<1>2. nd.commitIndex \in nd.commitIndex..LogSize(nd) - 1
  BY <1>1 DEF Sound
<1>3. PICK T, S, L, C, M, K : nd \in [term : T, state : S, log : L, commitIndex : C, matchIndex : M, cc : K]
  BY DEF Sound, IsNode
<1>4. nd \in [term : T, state : S, log : {nd.log}, commitIndex : {nd.commitIndex}, matchIndex : M, cc : {nd.cc}]
  BY <1>3
<1> QED
  BY <1>1, <1>2, <1>4 DEF Sound

\* A node that steps down, stands, or is elected, before its NO_OP
Candidate(nd) == [nd EXCEPT !.state = "CANDIDATE", !.term = @ + 1]
Elected(nd) == [nd EXCEPT !.state = "LEADER"]

LEMMA RoleKeeps ==
  ASSUME NEW nd, Sound(nd), NEW term, NEW new,
         new = ResetToFollower(nd, term) \/ new = Candidate(nd) \/ new = Elected(nd)
  PROVE  Sound(new) /\ (Tracks(nd) => Tracks(new))
<1>1. PICK T, S, M : nd \in [term : T, state : S, log : {nd.log}, commitIndex : {nd.commitIndex},
                             matchIndex : M, cc : {nd.cc}]
  BY NodeFields
<1>2. new \in [term : T \union {term, nd.term + 1}, state : {"FOLLOWER", "CANDIDATE", "LEADER"},
               log : {nd.log}, commitIndex : {nd.commitIndex}, matchIndex : M, cc : {nd.cc}]
  BY <1>1, Zenon DEF ResetToFollower, Candidate, Elected
<1>3. PICK T1, S1 : new \in [term : T1, state : S1, log : {nd.log}, commitIndex : {nd.commitIndex},
                             matchIndex : M, cc : {nd.cc}]
  BY <1>2, Zenon
<1>4. nd.commitIndex \in nd.commitIndex..LogSize(nd) - 1 /\ IsConfiguration(nd.cc)
  BY NodeFields
<1> QED
  BY <1>3, <1>4, FieldsKeep, Zenon

\* The sync, and what a reply tells of a peer
WithConfiguration(nd, cc) == [nd EXCEPT !.cc = cc]
WithMatch(nd, p, matchIndex, cc) == [nd EXCEPT !.matchIndex[p] = matchIndex, !.cc = cc]

LEMMA SyncKeeps ==
  ASSUME NEW nd, Sound(nd), NEW cc, IsConfiguration(cc),
         cc.known = nd.cc.known, cc.id = nd.cc.id, cc.current = nd.cc.current,
         NEW new, NEW p, NEW matchIndex,
         new = WithConfiguration(nd, cc) \/ new = WithMatch(nd, p, matchIndex, cc)
  PROVE  Sound(new) /\ (Tracks(nd) => Tracks(new))
<1>1. PICK T, S, M : nd \in [term : T, state : S, log : {nd.log}, commitIndex : {nd.commitIndex},
                             matchIndex : M, cc : {nd.cc}]
  BY NodeFields
<1>2. new \in [term : T, state : S, log : {nd.log}, commitIndex : {nd.commitIndex},
               matchIndex : M \union {[nd.matchIndex EXCEPT ![p] = matchIndex]}, cc : {cc}]
  BY <1>1, Zenon DEF WithConfiguration, WithMatch
<1>3. PICK M1 : new \in [term : T, state : S, log : {nd.log}, commitIndex : {nd.commitIndex},
                         matchIndex : M1, cc : {cc}]
  BY <1>2, Zenon
<1>4. nd.commitIndex \in nd.commitIndex..LogSize(nd) - 1
  BY NodeFields
<1> QED
  BY <1>3, <1>4, FieldsKeep

\* The first half of UpdateCommitIndex
LEMMA CommitKeeps ==
  ASSUME NEW nd, Sound(nd)
  PROVE  Sound(Commit(nd)) /\ (Tracks(nd) => Tracks(Commit(nd)))
<1> DEFINE above == {i \in nd.commitIndex + 1..LogSize(nd) - 1 : Committable(nd, i)}
           commit == CHOOSE i \in above : \A j \in above : j <= i
           new == [nd EXCEPT !.commitIndex = commit]
<1>1. Commit(nd) = IF above = {} THEN nd ELSE new
  BY DEF Commit
<1>2. nd.commitIndex \in Nat /\ LogSize(nd) \in Nat /\ LogSize(nd) > 0
  BY NodeFields DEF Sound
<1>3. above \subseteq nd.commitIndex + 1..LogSize(nd) - 1
  OBVIOUS
<1> HIDE DEF above
<1>4. CASE above # {}
  <2>1. above \subseteq 0..LogSize(nd)
    BY <1>2, <1>3
  <2>2. commit \in above
    BY <1>2, <1>4, <2>1, LastExists, Zenon
  <2> HIDE DEF commit
  <2>3. commit \in nd.commitIndex..LogSize(nd) - 1
    BY <1>2, <1>3, <2>2
  <2>4. PICK T, S, M : nd \in [term : T, state : S, log : {nd.log}, commitIndex : {nd.commitIndex},
                               matchIndex : M, cc : {nd.cc}]
    BY NodeFields
  <2>5. new \in [term : T, state : S, log : {nd.log}, commitIndex : {commit}, matchIndex : M, cc : {nd.cc}]
    BY <2>4
  <2> HIDE DEF new
  <2> QED
    BY <1>1, <1>4, <2>3, <2>5, NodeFields, FieldsKeep
<1> HIDE DEF new
<1> QED
  BY <1>1, <1>4

\* The second half of UpdateCommitIndex
LEMMA AdvanceKeeps ==
  ASSUME NEW nd, Sound(nd)
  PROVE  Sound(Advance(nd)) /\ (Tracks(nd) => Tracks(Advance(nd)))
<1>1. Sound(ResetToFollower(nd, nd.term + 1)) /\ (Tracks(nd) => Tracks(ResetToFollower(nd, nd.term + 1)))
  BY RoleKeeps
<1>2. \A entry : Sound(AppendEntry(nd, entry)) /\ (Tracks(nd) => Tracks(AppendEntry(nd, entry)))
  BY AppendEntryKeeps
<1> QED
  BY <1>1, <1>2 DEF Advance

-----------------------------------------------------------------------------
(* Steps *)

\* Unless an entry that was removed stays known, m_configurations follows the log
NodeInv == Sound(node) /\ (~kept => Tracks(node))

\* SetConfiguration on the server thread
LEMMA ServerKeeps ==
  ASSUME NodeInv,
         \/ ServerThread
         \/ \E oldId : Refuse(oldId) \/ \E new \in Requests : StartChange(new, oldId)
  PROVE  NodeInv'
<1>1. ASSUME UNCHANGED <<node, kept>> PROVE NodeInv'
  BY <1>1 DEF NodeInv
<1>2. ASSUME NEW cc, IsConfiguration(cc), cc.known = node.cc.known, cc.id = node.cc.id,
             cc.current = node.cc.current, node' = WithConfiguration(node, cc), kept' = kept
      PROVE  NodeInv'
  BY <1>2, SyncKeeps DEF NodeInv
<1>3. IsConfiguration(node.cc)
  BY DEF NodeInv, Sound
<1>4. ASSUME NEW oldId, Refuse(oldId) PROVE NodeInv'
  BY <1>1, <1>4 DEF Refuse
<1>5. ASSUME NEW oldId, NEW new \in Requests, StartChange(new, oldId) PROVE NodeInv'
  <2> DEFINE cc == StartLogSync(node.cc, node.commitIndex, new)
  <2>1. node' = WithConfiguration(node, cc) /\ kept' = kept
    BY <1>5 DEF StartChange, WithConfiguration
  <2>2. IsConfiguration(cc) /\ cc.known = node.cc.known /\ cc.id = node.cc.id /\ cc.current = node.cc.current
    BY <1>3, SyncFields
  <2> HIDE DEF cc
  <2> QED
    BY <1>2, <2>1, <2>2
<1>6. CASE SyncTermChanged \/ SyncTimeout
  <2> DEFINE cc == CancelLogSync(node.cc)
  <2>1. node' = WithConfiguration(node, cc) /\ kept' = kept
    BY <1>6 DEF SyncTermChanged, SyncTimeout, CancelSync, WithConfiguration
  <2>2. IsConfiguration(cc) /\ cc.known = node.cc.known /\ cc.id = node.cc.id /\ cc.current = node.cc.current
    BY <1>3, SyncFields
  <2> HIDE DEF cc
  <2> QED
    BY <1>2, <2>1, <2>2
<1>7. CASE AppendJoint
  BY <1>7, AppendEntryKeeps DEF AppendJoint, NodeInv
<1>8. CASE CheckFinal \/ Sleep
  BY <1>1, <1>8, Zenon DEF CheckFinal, Sleep
<1> QED
  BY <1>4, <1>5, <1>6, <1>7, <1>8 DEF ServerThread

\* Heartbeats and their replies
LEMMA HeartbeatKeeps ==
  ASSUME NodeInv, HeartbeatCallback \/ \E p \in Server : Reply(p) \/ CallFails(p)
  PROVE  NodeInv'
<1>1. ASSUME NEW nd, Sound(nd), Tracks(node) => Tracks(nd), node' = Advance(Commit(nd)), kept' = kept
      PROVE  NodeInv'
  BY <1>1, CommitKeeps, AdvanceKeeps DEF NodeInv
<1>2. CASE HeartbeatCallback
  BY <1>1, <1>2 DEF HeartbeatCallback, UpdateCommitIndex, NodeInv
<1>3. ASSUME NEW p \in Server, Reply(p) PROVE NodeInv'
  <2> DEFINE cc == UpdateSyncProgress(node.cc, p, sent[p] - 1)
             acked == Acknowledged(p)
  <2>1. acked = WithMatch(node, p, sent[p] - 1, cc)
    BY DEF Acknowledged, WithMatch
  <2>2. IsConfiguration(cc) /\ cc.known = node.cc.known /\ cc.id = node.cc.id /\ cc.current = node.cc.current
    BY SyncFields DEF NodeInv, Sound
  <2>3. node' = Advance(Commit(acked)) /\ kept' = kept
    BY <1>3 DEF Reply
  <2> HIDE DEF cc, acked
  <2>4. Sound(acked) /\ (Tracks(node) => Tracks(acked))
    BY <2>1, <2>2, SyncKeeps DEF NodeInv
  <2> QED
    BY <1>1, <2>3, <2>4
<1>4. ASSUME NEW p \in Server, CallFails(p) PROVE NodeInv'
  BY <1>4 DEF CallFails, NodeInv
<1> QED
  BY <1>2, <1>3, <1>4

\* Elections won and lost, and another leader's log
LEMMA LeadershipKeeps ==
  ASSUME NodeInv,
         \/ \E term : LoseLeadership(term)
         \/ ElectionCallback \/ WinElection
         \/ \E i \in 0..LogSize(node) : FollowLeader(i)
  PROVE  NodeInv'
<1>1. ASSUME NEW term, LoseLeadership(term) PROVE NodeInv'
  BY <1>1, RoleKeeps DEF LoseLeadership, NodeInv
<1>2. ASSUME NEW nd, Sound(nd), Tracks(node) => Tracks(nd)
      PROVE  Sound(PromoteToLeader(nd)) /\ (Tracks(node) => Tracks(PromoteToLeader(nd)))
  <2>1. PromoteToLeader(nd) = AppendEntry(Elected(nd), NoOp(nd.term))
    BY DEF PromoteToLeader, Elected
  <2> QED
    BY <1>2, <2>1, RoleKeeps, AppendEntryKeeps
<1>3. CASE WinElection
  BY <1>2, <1>3 DEF WinElection, NodeInv
<1>4. CASE ElectionCallback
  <2>1. Sound(Candidate(node)) /\ (Tracks(node) => Tracks(Candidate(node)))
    BY RoleKeeps DEF NodeInv
  <2>2. node' = PromoteToLeader(Candidate(node)) \/ node' = Candidate(node)
    BY <1>4 DEF ElectionCallback, Candidate
  <2>3. kept' = kept
    BY <1>4 DEF ElectionCallback
  <2> QED
    BY <1>2, <2>1, <2>2, <2>3 DEF NodeInv
<1>5. ASSUME NEW i \in 0..LogSize(node), FollowLeader(i) PROVE NodeInv'
  <2> DEFINE truncated == [node EXCEPT !.log = SubSeq(@, 1, i), !.cc = TruncateSuffix(@, i)]
             before == IF i < LogSize(node) THEN truncated ELSE node
  <2>1. /\ node' = AppendEntry(ResetToFollower(before, node.term + 1), NoOp(node.term + 1))
        /\ kept' = (kept \/ i \in DOMAIN before.cc.known)
    BY <1>5, Zenon DEF FollowLeader
  <2>2. i \in Nat /\ node.commitIndex < i
    <3>1. node.commitIndex \in Nat /\ LogSize(node) \in Nat
      BY NodeFields, SMTT(30) DEF NodeInv, Sound
    <3>2. i \in node.commitIndex + 1..LogSize(node)
      BY <1>5, ZenonT(60) DEF FollowLeader
    <3> QED
      BY <3>1, <3>2
  <2>3. i < LogSize(node) => Sound(truncated) /\ (Tracks(node) /\ i \notin DOMAIN truncated.cc.known => Tracks(truncated))
    BY <2>2, TruncateKeeps, Zenon DEF NodeInv
  <2> HIDE DEF truncated
  <2>4. Sound(before) /\ (~kept' => Tracks(before))
    BY <2>1, <2>3, Zenon DEF NodeInv
  <2> HIDE DEF before
  <2> DEFINE reset == ResetToFollower(before, node.term + 1)
  <2>5. Sound(reset) /\ (Tracks(before) => Tracks(reset))
    BY <2>4, RoleKeeps
  <2>6. node' = AppendEntry(reset, NoOp(node.term + 1))
    BY <2>1
  <2> HIDE DEF reset
  <2>7. Sound(node') /\ (Tracks(reset) => Tracks(node'))
    BY <2>5, <2>6, AppendEntryKeeps
  <2> QED
    BY <2>4, <2>5, <2>7, SMTT(30) DEF NodeInv
<1> QED
  BY <1>1, <1>3, <1>4, <1>5

\* What the bootstrap and the first reconfiguration lead to
LEMMA NodeInit == Init => NodeInv
<1> SUFFICES ASSUME Init PROVE NodeInv
  OBVIOUS
<1>1. node = InitialNode
  BY DEF Init
<1>2. /\ IsSeq(InitialLog) /\ Len(InitialLog) = 5
      /\ InitialLog[1].members = NoMembers /\ InitialLog[2].members = Stable({Self})
      /\ InitialLog[3].members = Joint({Self}, Initial) /\ InitialLog[4].members = Stable(Initial)
      /\ InitialLog[5].members = NoMembers
  <2> DEFINE e1 == NoOp(0)
             e2 == Configuration(0, Stable({Self}))
             e3 == Configuration(0, Joint({Self}, Initial))
             e4 == Configuration(0, Stable(Initial))
             e5 == NoOp(1)
             S == {e1, e2, e3, e4, e5}
  <2>1. /\ e1.members = NoMembers /\ e2.members = Stable({Self}) /\ e3.members = Joint({Self}, Initial)
        /\ e4.members = Stable(Initial) /\ e5.members = NoMembers
    BY DEF NoOp, Configuration
  <2>2. InitialLog = <<e1, e2, e3, e4, e5>>
    BY DEF InitialLog
  <2>3. e1 \in S /\ e2 \in S /\ e3 \in S /\ e4 \in S /\ e5 \in S
    OBVIOUS
  <2> HIDE DEF e1, e2, e3, e4, e5, S
  <2>4. InitialLog \in Seq(S) /\ Len(InitialLog) = 5
    BY <2>2, <2>3
  <2>5. /\ InitialLog[1] = e1 /\ InitialLog[2] = e2 /\ InitialLog[3] = e3 /\ InitialLog[4] = e4
        /\ InitialLog[5] = e5
    BY <2>2
  <2> QED
    BY <2>1, <2>4, <2>5 DEF IsSeq
<1>3. Stable({Self}) # NoMembers /\ Joint({Self}, Initial) # NoMembers /\ Stable(Initial) # NoMembers
  BY MembershipAssumption DEF Stable, Joint, NoMembers
<1> DEFINE known == [i \in 1..3 |-> InitialLog[i + 1].members]
<1>4. /\ IsNode(node) /\ node.log = InitialLog /\ node.commitIndex = 3
      /\ node.cc = [id |-> 3, state |-> "STABLE", current |-> Stable(Initial), known |-> known, sync |-> NoSync]
  <2> HIDE DEF known
  <2> DEFINE cc == [id |-> 3, state |-> "STABLE", current |-> Stable(Initial), known |-> known, sync |-> NoSync]
             match == [p \in Server |-> IF p \in Initial THEN 3 ELSE 0]
  <2>1. node = [term |-> 1, state |-> "LEADER", log |-> InitialLog, commitIndex |-> 3,
                matchIndex |-> match, cc |-> cc]
    BY <1>1 DEF InitialNode, known
  <2> HIDE DEF cc, match
  <2>2. node \in [term : {1}, state : {"LEADER"}, log : {InitialLog}, commitIndex : {3},
                  matchIndex : {match}, cc : {cc}]
    BY <2>1
  <2>3. IsNode(node)
    BY <2>2, ZenonT(60) DEF IsNode
  <2> QED
    BY <2>1, <2>3 DEF cc
<1>5. /\ IsConfiguration(node.cc) /\ node.cc.id = 3 /\ node.cc.current = Stable(Initial)
      /\ node.cc.known = known
  <2> HIDE DEF known
  <2>1. node.cc \in [id : {3}, state : {"STABLE"}, current : {Stable(Initial)}, known : {known}, sync : {NoSync}]
    BY <1>4
  <2>2. IsConfiguration(node.cc)
    BY <2>1, Zenon DEF IsConfiguration
  <2> QED
    BY <1>4, <2>2
<1>6. DOMAIN known = 1..3 /\ \A i \in 1..3 : known[i] = InitialLog[i + 1].members
  OBVIOUS
<1> HIDE DEF known
<1> LogSize(node) = 5 /\ \A i : EntryAt(node, i) = InitialLog[i + 1]
  BY <1>2, <1>4 DEF LogSize, EntryAt
<1>7. Sound(node)
  <2>1. EntryAt(node, 3).members # NoMembers
    BY <1>2, <1>3
  <2> QED
    BY <1>2, <1>4, <1>5, <2>1 DEF Sound
<1>8. Indices(node) = 1..3
  <2>1. \A i \in 0..4 : i = 0 \/ i = 1 \/ i = 2 \/ i = 3 \/ i = 4
    OBVIOUS
  <2>2. Indices(node) = {i \in 0..4 : InitialLog[i + 1].members # NoMembers}
    BY DEF Indices
  <2>3. \A i \in 0..4 : InitialLog[i + 1].members # NoMembers <=> i \in 1..3
    BY <1>2, <1>3, <2>1
  <2> QED
    BY <2>2, <2>3
<1>9. UsesLast(node.cc)
  BY <1>2, <1>5, <1>6 DEF UsesLast
<1>10. Tracks(node)
  BY <1>4, <1>5, <1>6, <1>8, <1>9 DEF Tracks, EntryAt
<1> QED
  BY <1>7, <1>10 DEF NodeInv

\* The node always works with the last configuration entry of its log, committed
\* or not, also after AppendEntries has removed entries; the one exception is a
\* configuration entry at the very index where the log was cut
THEOREM WorksWithLastConfiguration == Spec => []ConfigurationOfLog
<1>1. NodeInv /\ [Next]_vars => NodeInv'
  <2> SUFFICES ASSUME NodeInv, [Next]_vars PROVE NodeInv'
    OBVIOUS
  <2>1. CASE UNCHANGED vars
    BY <2>1 DEF vars, NodeInv
  <2> QED
    BY <2>1, ServerKeeps, HeartbeatKeeps, LeadershipKeeps DEF Next
<1>2. NodeInv => ConfigurationOfLog
  <2>1. ConfigurationIndices = Indices(node)
    BY DEF ConfigurationIndices, Indices
  <2> QED
    BY <2>1 DEF NodeInv, Tracks, UsesLast, ConfigurationOfLog
<1> QED
  BY <1>1, <1>2, NodeInit, PTL DEF Spec

=============================================================================
