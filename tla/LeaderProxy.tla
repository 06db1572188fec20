---------------------------- MODULE LeaderProxy ----------------------------
(***************************************************************************)
(* A command of the command line: one or two operations, each sent by      *)
(* RedirectToLeader to the servers the user named, until one answers OK.   *)
(* A server that is not the leader answers with a hint, which is tried     *)
(* next, but whose OK does not end the loop.  Retry makes one call: no     *)
(* server sends RETRY, the only code that makes it go on, and an error     *)
(* without details reads as NOT_LEADER without a hint.                     *)
(*                                                                         *)
(* The servers are here by what they answer.  Only a leader executes an    *)
(* operation; its answer may be lost, or be an error, in either case.  A   *)
(* call is one step, at the moment it is executed or fails; one that never *)
(* returns is a behaviour that goes no further in the loop.  Without a     *)
(* peer the loop is empty and the status it returns is the initial OK.     *)
(***************************************************************************)
EXTENDS Naturals, Sequences, FiniteSets

CONSTANTS
  Server,        \* addresses of servers
  Peer,          \* those the user named, and the keys of m_stubs
  NoHint,        \* no address
  MaxElections   \* bound: changes of the leader

ASSUME ProxyAssumption ==
  Peer \subseteq Server /\ IsFiniteSet(Peer) /\ NoHint \notin Server /\ MaxElections \in Nat

VARIABLES
  leader,        \* the leader of the cluster, or NoHint
  operations,    \* what the command still has to do, the current operation first
  at,            \* where RedirectToLeader is
  todo,          \* addresses the loop has not come to
  visited,
  hint,          \* the hint that is tried next
  ok,            \* whether status is OK
  called, executed,  \* history, of this operation: number of calls, and of executions
  stable,        \* history: in this operation, one leader that answered OK to every call
  elections

vars == <<leader, operations, at, todo, visited, hint, ok, called, executed, stable, elections>>

\* What write, reconfigure and query do
Flow == {<<"RegisterClient", "ClientRequest">>, <<"GetConfiguration", "SetConfiguration">>, <<"ClientQuery">>}

\* GetConfiguration is answered by any server
ServedBy(a) == a = leader \/ Head(operations) = "GetConfiguration"

Answers(a) ==
  {[ok |-> FALSE, hint |-> h, executed |-> e] : h \in Server \union {NoHint}, e \in {FALSE, a = leader}}
    \union IF ServedBy(a) THEN {[ok |-> TRUE, hint |-> NoHint, executed |-> TRUE]} ELSE {}

Call(a, answer) ==
  /\ called' = [called EXCEPT ![a] = @ + 1]
  /\ executed' = [executed EXCEPT ![a] = @ + IF answer.executed THEN 1 ELSE 0]
  /\ stable' = (stable /\ (a = leader => answer.ok))

-----------------------------------------------------------------------------
Skip(a) ==
  /\ at = "loop" /\ a \in todo /\ a \in visited
  /\ todo' = todo \ {a}
  /\ UNCHANGED <<leader, operations, at, visited, hint, ok, called, executed, stable, elections>>

Usable(h) == h # NoHint /\ h \notin visited'

\* One turn of the loop, up to the second Retry
Visit(a) ==
  /\ at = "loop" /\ a \in todo /\ a \notin visited
  /\ todo' = todo \ {a} /\ visited' = visited \union {a}
  /\ \E answer \in Answers(a) :
       /\ Call(a, answer)
       /\ ok' = answer.ok
       /\ at' = IF answer.ok THEN "returned" ELSE IF Usable(answer.hint) THEN "hint" ELSE "loop"
       /\ hint' = IF at' = "hint" THEN answer.hint ELSE NoHint
  /\ UNCHANGED <<leader, operations, elections>>

\* m_stubs[hint] creates a null stub for an address that is not a key
UnknownHint ==
  /\ at = "hint" /\ hint \notin Peer
  /\ at' = "crashed"
  /\ UNCHANGED <<leader, operations, todo, visited, hint, ok, called, executed, stable, elections>>

\* Mutation: the hint is not marked as visited
VisitedOnlyLoop == visited

VisitedWithHint == visited \union {hint}

FollowHint ==
  /\ at = "hint" /\ hint \in Peer
  /\ visited' = VisitedWithHint
  /\ \E answer \in Answers(hint) : Call(hint, answer) /\ ok' = answer.ok
  /\ at' = "loop" /\ hint' = NoHint
  /\ UNCHANGED <<leader, operations, todo, elections>>

\* Mutation: one peer and its hint are enough
LoopOverFirst == visited # {}

LoopOver == todo = {}

EndOfLoop ==
  /\ at = "loop" /\ LoopOver
  /\ at' = "returned"
  /\ UNCHANGED <<leader, operations, todo, visited, hint, ok, called, executed, stable, elections>>

Start ==
  /\ at' = "loop" /\ todo' = Peer /\ visited' = {} /\ hint' = NoHint
  /\ ok' = TRUE /\ stable' = TRUE
  /\ called' = [a \in Server |-> 0] /\ executed' = [a \in Server |-> 0]

\* write goes on when its session was registered, reconfigure in any case
GoesOn == ok \/ Head(operations) = "GetConfiguration"

NextOperation ==
  /\ at = "returned" /\ Len(operations) > 1 /\ GoesOn
  /\ operations' = Tail(operations)
  /\ Start
  /\ UNCHANGED <<leader, elections>>

Election ==
  /\ elections < MaxElections /\ elections' = elections + 1
  /\ leader' \in (Server \union {NoHint}) \ {leader}
  /\ stable' = FALSE
  /\ UNCHANGED <<operations, at, todo, visited, hint, ok, called, executed>>

-----------------------------------------------------------------------------
Init ==
  /\ leader \in Server \union {NoHint}
  /\ operations \in Flow
  /\ at = "loop" /\ todo = Peer /\ visited = {} /\ hint = NoHint
  /\ ok = TRUE /\ stable = TRUE
  /\ called = [a \in Server |-> 0] /\ executed = [a \in Server |-> 0]
  /\ elections = 0

Proxy ==
  \/ \E a \in Peer : Skip(a) \/ Visit(a)
  \/ UnknownHint \/ FollowHint \/ EndOfLoop \/ NextOperation

Next == Proxy \/ Election

\* No fairness: ClientContext has no deadline, so that nothing makes a call return
Spec == Init /\ [][Next]_vars

-----------------------------------------------------------------------------
(* Properties *)

\* Types
TypeOK ==
  /\ leader \in Server \union {NoHint}
  /\ operations \in Flow \union {<<"ClientRequest">>, <<"SetConfiguration">>}
  /\ at \in {"loop", "hint", "returned", "crashed"}
  /\ todo \subseteq Peer /\ visited \subseteq Server /\ hint \in Server \union {NoHint}
  /\ ok \in BOOLEAN /\ stable \in BOOLEAN
  /\ called \in [Server -> Nat] /\ executed \in [Server -> Nat]
  /\ elections \in Nat

\* Whatever hints the servers give, an operation is sent to an address at most
\* once, so that a server executes it at most once
CalledOnce == TypeOK /\ \A a \in Server : called[a] <= 1 /\ executed[a] <= called[a]

\* While one leader is in office, which the user named and which answers OK, an
\* operation that returns has been executed by it and by nobody else, once,
\* even when what it returns is an error
StableLeaderExecutes ==
  at = "returned" /\ stable /\ leader \in Peer /\ Head(operations) # "GetConfiguration" =>
    \A a \in Server : executed[a] = IF a = leader THEN 1 ELSE 0

=============================================================================
