---------------------------- MODULE SessionCache ----------------------------
(***************************************************************************)
(* SessionCache and its ClientRequestLRUCache: a map from session ids to   *)
(* nodes, and a doubly linked list of the nodes between two sentinels.     *)
(* Every operation holds m_lock from its start to its end, so each is one  *)
(* action.  The list is one value; the operations on its pointers are      *)
(* written as functions of it, in the order of the assignments.            *)
(*                                                                         *)
(* A node is named by the id of its session: a session that was evicted    *)
(* and is created again has a new node, and nothing holds the old one.     *)
(***************************************************************************)
EXTENDS Naturals, FiniteSets

CONSTANTS
  Client,       \* session ids
  SequenceNum,  \* sequence numbers of the requests of a client
  Response,     \* responses to requests
  None,         \* no response
  Capacity,     \* m_capacity
  Head, Tail,   \* the sentinels m_head and m_tail
  Null          \* nullptr

ASSUME CapacityAssumption == Capacity \in Nat \ {0}

ASSUME NodeAssumption ==
  /\ Head \notin Client /\ Tail \notin Client /\ Null \notin Client
  /\ Head # Tail /\ Null \notin {Head, Tail}

ASSUME ResponseAssumption == None \notin Response

VARIABLES
  list,     \* the next and prev pointers of the nodes, m_size and m_cache
  val,      \* val[c]: the responses in the node of session c
  result    \* what the last call returned

vars == <<list, val, result>>

-----------------------------------------------------------------------------
Pointer == Client \cup {Head, Tail, Null}

List == [next : [Pointer -> Pointer], prev : [Pointer -> Pointer], size : Nat,
         cache : SUBSET Client]

NoResponses == [s \in SequenceNum |-> None]

\* Mutation: the node leaves the list and stays in m_cache
EraseTailKeepsEntry(l) ==
  LET erased == l.prev[Tail] IN
  [l EXCEPT !.next[l.prev[erased]] = Tail, !.prev[Tail] = l.prev[erased],
            !.next[erased] = Null, !.prev[erased] = Null, !.size = @ - 1]

EraseTail(l) ==
  LET erased == l.prev[Tail] IN
  [l EXCEPT !.next[l.prev[erased]] = Tail, !.prev[Tail] = l.prev[erased],
            !.next[erased] = Null, !.prev[erased] = Null, !.size = @ - 1,
            !.cache = @ \ {erased}]

PushHead(l, c) ==
  LET first == l.next[Head]
      pushed == IF l.size = 0
                THEN [l EXCEPT !.next[Head] = c, !.prev[Tail] = c, !.prev[c] = Head,
                               !.next[c] = Tail, !.size = @ + 1]
                ELSE [l EXCEPT !.next[c] = first, !.prev[c] = Head, !.prev[first] = c,
                               !.next[Head] = c, !.size = @ + 1]
  IN IF pushed.size > Capacity THEN EraseTail(pushed) ELSE pushed

Unlink(l, c) ==
  [l EXCEPT !.next[l.prev[c]] = l.next[c], !.prev[l.next[c]] = l.prev[c],
            !.prev[c] = Null, !.next[c] = Null, !.size = @ - 1]

\* Mutation: a use leaves the node where it is
TouchInPlace(l, c) == l

\* A session that is used moves to the head of the list
Touch(l, c) == PushHead(Unlink(l, c), c)

-----------------------------------------------------------------------------
Init ==
  /\ list = [next |-> [p \in Pointer |-> IF p = Head THEN Tail ELSE Null],
             prev |-> [p \in Pointer |-> IF p = Tail THEN Head ELSE Null],
             size |-> 0, cache |-> {}]
  /\ val = [c \in Client |-> NoResponses]
  /\ result = "none"

\* The responses of the nodes that are still reachable
Reachable(v) == [c \in Client |-> IF c \in list'.cache THEN v[c] ELSE NoResponses]

\* CreateNode throws out_of_range for an id that exists
AddSession(c) ==
  IF c \in list.cache
    THEN result' = "throws" /\ UNCHANGED <<list, val>>
    ELSE /\ list' = PushHead([list EXCEPT !.cache = @ \cup {c}], c)
         /\ val' = Reachable(val)
         /\ result' = "ok"

\* UpdateNode throws out_of_range for an id that does not exist
CacheResponse(c, s, r) ==
  IF c \notin list.cache
    THEN result' = "throws" /\ UNCHANGED <<list, val>>
    ELSE /\ list' = Touch(list, c)
         /\ val' = Reachable([val EXCEPT ![c][s] = r])
         /\ result' = "ok"

\* NodeValue throws for an id or a number that does not exist; GetCachedResponse
\* turns it into "not cached"
GetCachedResponse(c, s) ==
  IF c \notin list.cache \/ val[c][s] = None
    THEN result' = None /\ UNCHANGED <<list, val>>
    ELSE /\ list' = Touch(list, c)
         /\ result' = val[c][s]
         /\ UNCHANGED val

SessionExists(c) == result' = (IF c \in list.cache THEN "yes" ELSE "no") /\ UNCHANGED <<list, val>>

Next ==
  \E c \in Client :
    \/ AddSession(c) \/ SessionExists(c)
    \/ \E s \in SequenceNum :
         GetCachedResponse(c, s) \/ \E r \in Response : CacheResponse(c, s, r)

Spec == Init /\ [][Next]_vars

-----------------------------------------------------------------------------
(* Properties *)

\* Types; m_size never exceeds m_capacity between two calls
TypeOK ==
  /\ list \in List /\ list.size <= Capacity
  /\ val \in [Client -> [SequenceNum -> Response \cup {None}]]

\* The nodes of the list, following next from the head
Walk(l) == LET node[k \in 0..Cardinality(Client) + 1] ==
                 IF k = 0 THEN Head ELSE l.next[node[k - 1]]
           IN [k \in 1..l.size |-> node[k]]

\* The pointers of the two directions mirror each other, the list ends where
\* m_size says, it holds each session of m_cache once, and a node outside it
\* points nowhere
WellLinked ==
  LET nodes == Walk(list)
      linked == list.cache \cup {Head}
  IN
  /\ TypeOK
  /\ \A p \in linked : list.next[p] \in Client \cup {Tail} /\ list.prev[list.next[p]] = p
  /\ {nodes[k] : k \in 1..list.size} = list.cache
  /\ Cardinality(list.cache) = list.size
  /\ list.prev[Tail] = IF list.size = 0 THEN Head ELSE nodes[list.size]
  /\ \A c \in Client \ list.cache : list.next[c] = Null /\ list.prev[c] = Null

\* The cache is a least-recently-used cache: whatever a caller does, it sees
\* what the abstract cache would have returned
LRU == INSTANCE SessionLRU WITH order <- Walk(list), responses <- val
ImplementsLRU == LRU!LRUSpec

=============================================================================
