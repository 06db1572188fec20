------------------------ MODULE ClusterConfiguration ------------------------
(***************************************************************************)
(* The cluster configuration a node works with, as a value and the         *)
(* operations on it.  A configuration entry of the log has the members     *)
(* before and the members after a change; next is empty where no change is *)
(* under way.  The configurations of the log are kept by their index.      *)
(***************************************************************************)
EXTENDS Integers, FiniteSets

CONSTANT Server   \* addresses of servers

ASSUME ServersAssumption == IsFiniteSet(Server)

Members == [prev : SUBSET Server, next : SUBSET Server]

\* SyncState: the index of the log new servers have to reach, those servers,
\* and the match index of every server that has answered.  The first index of
\* a pair of state_diff is always 0 and is left out.
NoSync == [index |-> 0, addresses |-> {}, diff |-> <<>>, progress |-> FALSE, done |-> FALSE]

\* A ClusterConfiguration: m_id, m_state, m_current_configuration,
\* m_configurations and m_log_sync (m_addresses is prev \cup next)
IsClusterConfiguration(cc) ==
  /\ cc.id \in Int
  /\ cc.state \in {"EMPTY", "SYNC", "JOINT", "STABLE"}
  /\ cc.current \in Members
  /\ DOMAIN cc.known \subseteq Int /\ \A i \in DOMAIN cc.known : cc.known[i] \in Members
  /\ cc.sync.index \in Int /\ cc.sync.addresses \subseteq Server
  /\ DOMAIN cc.sync.diff \subseteq Server
  /\ cc.sync.progress \in BOOLEAN /\ cc.sync.done \in BOOLEAN

\* f with f[x] = y
With(f, x, y) == [z \in DOMAIN f \union {x} |-> IF z = x THEN y ELSE f[z]]

-----------------------------------------------------------------------------

\* What is left of a sync is not read again, and forgotten here
SetConfiguration(cc, id, members) ==
  [cc EXCEPT !.state = IF members.next = {} THEN "STABLE" ELSE "JOINT",
             !.id = id, !.current = members, !.sync = NoSync]

\* The last configuration of the log becomes the current one
UseLatest(cc) ==
  LET last == CHOOSE i \in DOMAIN cc.known : \A j \in DOMAIN cc.known : j <= i
  IN  IF cc.id = last THEN cc ELSE SetConfiguration(cc, last, cc.known[last])

\* map::insert does not replace a configuration that is there
InsertNewConfiguration(cc, id, members) ==
  UseLatest(IF id \in DOMAIN cc.known THEN cc ELSE [cc EXCEPT !.known = With(@, id, members)])

\* Mutation: the configuration in use is not replaced
TruncateSuffixKeep(cc, removalIndex) ==
  [cc EXCEPT !.known = [i \in {j \in DOMAIN @ : j <= removalIndex} |-> @[i]]]

\* Everything behind removalIndex is erased, not the configuration at it
TruncateSuffix(cc, removalIndex) ==
  UseLatest([cc EXCEPT !.known = [i \in {j \in DOMAIN @ : j <= removalIndex} |-> @[i]]])

Addresses(cc) == cc.current.prev \union cc.current.next

ServerAddresses(cc) ==
  Addresses(cc) \union IF cc.state = "SYNC" THEN cc.sync.addresses ELSE {}

KnownServer(cc, address) == address \in ServerAddresses(cc)

Majority(votes, members) == Cardinality(votes \intersect members) * 2 > Cardinality(members)

\* Mutation: the new members alone decide
CheckQuorumNext(cc, peerVotes) ==
  IF cc.state = "JOINT" THEN Majority(peerVotes, cc.current.next)
  ELSE Cardinality(peerVotes) * 2 > Cardinality(cc.current.prev)

\* Both majorities of a joint configuration; otherwise the votes are counted,
\* whoever they come from
CheckQuorum(cc, peerVotes) ==
  IF cc.state = "JOINT" THEN Majority(peerVotes, cc.current.prev) /\ Majority(peerVotes, cc.current.next)
  ELSE Cardinality(peerVotes) * 2 > Cardinality(cc.current.prev)

-----------------------------------------------------------------------------
(* Bringing new servers up to date *)

StartLogSync(cc, commitIndex, newServers) ==
  LET syncServers == {s \in newServers : ~KnownServer(cc, s)}
  IN  [cc EXCEPT !.sync = [index |-> commitIndex, addresses |-> syncServers,
                           diff |-> [s \in syncServers |-> 0], progress |-> FALSE, done |-> FALSE],
                 !.state = "SYNC"]

CancelLogSync(cc) == [cc EXCEPT !.sync = NoSync, !.state = "STABLE"]

SyncProgress(cc) == cc.sync.progress

SyncComplete(cc) == cc.sync.done

\* There is progress when every server has answered, and sync is done when all
\* have reached the index.  A known server that answers is counted from then on.
UpdateSyncProgress(cc, address, matchIndex) ==
  IF cc.state # "SYNC" THEN cc
  ELSE LET diff == With(cc.sync.diff, address, matchIndex)
           progress == \A s \in DOMAIN diff : diff[s] > 0
       IN  [cc EXCEPT !.sync.diff = diff,
                      !.sync.progress = progress,
                      !.sync.done = progress /\ \A s \in DOMAIN diff : diff[s] >= cc.sync.index]

=============================================================================
