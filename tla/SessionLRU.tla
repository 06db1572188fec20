----------------------------- MODULE SessionLRU -----------------------------
(***************************************************************************)
(* What SessionCache promises: the sessions of the clients that were       *)
(* created or used most recently, at most Capacity of them, each with      *)
(* every response that was cached for it.                                  *)
(***************************************************************************)
EXTENDS Sequences, SequencesExt

CONSTANTS
  Client,      \* session ids
  SequenceNum, \* sequence numbers of the requests of a client
  Response,    \* responses to requests
  None,        \* no response
  Capacity     \* sessions the cache holds

VARIABLES
  order,       \* the sessions, the most recently used one first
  responses,   \* responses[c]: the cached responses of session c
  result       \* what the last call returned

lruVars == <<order, responses, result>>

-----------------------------------------------------------------------------
NoResponses == [s \in SequenceNum |-> None]

Known(c) == c \in ToSet(order)

\* The session c in front of the others, as many as there is room for
Promote(c) == SubSeq(<<c>> \o SelectSeq(order, LAMBDA d : d # c), 1,
                     IF Known(c) THEN Len(order)
                     ELSE IF Len(order) < Capacity THEN Len(order) + 1 ELSE Capacity)

\* An evicted session loses its responses
Keep(resp) == [c \in Client |-> IF c \in ToSet(order') THEN resp[c] ELSE NoResponses]

LRUInit ==
  /\ order = <<>>
  /\ responses = [c \in Client |-> NoResponses]
  /\ result = "none"

Create(c) ==
  IF Known(c)
    THEN result' = "throws" /\ UNCHANGED <<order, responses>>
    ELSE /\ order' = Promote(c)
         /\ responses' = Keep(responses)
         /\ result' = "ok"

Store(c, s, r) ==
  IF ~Known(c)
    THEN result' = "throws" /\ UNCHANGED <<order, responses>>
    ELSE /\ order' = Promote(c)
         /\ responses' = Keep([responses EXCEPT ![c][s] = r])
         /\ result' = "ok"

\* Only a hit counts as a use of the session
Lookup(c, s) ==
  IF ~Known(c) \/ responses[c][s] = None
    THEN result' = None /\ UNCHANGED <<order, responses>>
    ELSE /\ order' = Promote(c)
         /\ result' = responses[c][s]
         /\ UNCHANGED responses

Exists(c) == result' = (IF Known(c) THEN "yes" ELSE "no") /\ UNCHANGED <<order, responses>>

LRUNext ==
  \E c \in Client :
    \/ Create(c) \/ Exists(c)
    \/ \E s \in SequenceNum : Lookup(c, s) \/ \E r \in Response : Store(c, s, r)

LRUSpec == LRUInit /\ [][LRUNext]_lruVars

=============================================================================
