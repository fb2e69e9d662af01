------------------------------ MODULE MemoryPort ------------------------------
(***************************************************************************)
(* What the two ends of a champsim::channel promise each other about the   *)
(* requests that want a response.  A client asks for a block at most once  *)
(* at a time (a cache coalesces later misses in its MSHR), the server      *)
(* answers each outstanding block exactly once, in any order, and one      *)
(* answer may serve several clients (the to_return list of a fill).        *)
(*                                                                         *)
(* CACHE::finish_packet aborts the simulation on a response nobody waits   *)
(* for, so this is the contract every level of the hierarchy relies on.    *)
(***************************************************************************)
EXTENDS Sequences

CONSTANTS
  Client,   \* the caches on the upper side of the channels
  Block     \* the blocks that can be asked for

VARIABLES
  asked,    \* asked[c]: the blocks that client c waits for
  returned  \* returned[c]: the answers pushed to c and not yet read

vars == <<asked, returned>>

IsAnswered(c, b) == \E i \in DOMAIN returned[c] : returned[c][i] = b

Init ==
  /\ asked = [c \in Client |-> {}]
  /\ returned = [c \in Client |-> <<>>]

(* A client that does not wait for b asks for it. *)
Ask(c, b) ==
  /\ b \notin asked[c]
  /\ asked' = [asked EXCEPT ![c] = @ \cup {b}]
  /\ UNCHANGED returned

(* The server answers b to a set of clients that wait for it. *)
Answer(cs, b) ==
  /\ cs # {}
  /\ \A c \in cs : b \in asked[c] /\ ~IsAnswered(c, b)
  /\ returned' = [c \in Client |-> IF c \in cs THEN Append(returned[c], b)
                                                ELSE returned[c]]
  /\ UNCHANGED asked

(* A client reads its oldest answer and waits for that block no more. *)
Read(c) ==
  /\ returned[c] # <<>>
  /\ asked' = [asked EXCEPT ![c] = @ \ {Head(returned[c])}]
  /\ returned' = [returned EXCEPT ![c] = Tail(@)]

Next ==
  \/ \E c \in Client, b \in Block : Ask(c, b)
  \/ \E cs \in SUBSET Client, b \in Block : Answer(cs, b)
  \/ \E c \in Client : Read(c)

Spec == Init /\ [][Next]_vars
===============================================================================
