----------------------------- MODULE OneHistory -----------------------------
(***************************************************************************)
(* What the protocol between server and clients promises, without messages *)
(* or connections: the game has one history, which only grows, and whoever *)
(* follows it reads it from some point on, entry by entry.  Nobody skips   *)
(* an entry, reads one twice or reads ahead.                               *)
(***************************************************************************)
EXTENDS Naturals

CONSTANTS
  Readers,   \* the clients
  NULL

VARIABLES
  committed,   \* how long the history is
  seen         \* how much of it each reader has read, or NULL

vars == <<committed, seen>>

Init == committed = 0 /\ seen = [r \in Readers |-> NULL]

\* A call at the server adds what it did; a departure adds that somebody left
\* and what this does to the game.
Commit ==
  /\ committed' \in Nat /\ committed' > committed
  /\ UNCHANGED seen

\* A reader gets the state of the game as of some entry.
Subscribe(r) ==
  /\ seen[r] = NULL
  /\ \E n \in 0..committed : seen' = [seen EXCEPT ![r] = n]
  /\ UNCHANGED committed

Read(r) ==
  /\ seen[r] # NULL /\ seen[r] < committed
  /\ seen' = [seen EXCEPT ![r] = seen[r] + 1]
  /\ UNCHANGED committed

Unsubscribe(r) ==
  /\ seen[r] # NULL
  /\ seen' = [seen EXCEPT ![r] = NULL]
  /\ UNCHANGED committed

Next == Commit \/ \E r \in Readers : Subscribe(r) \/ Read(r) \/ Unsubscribe(r)

\* Whoever stays reads what there is.
Spec == Init /\ [][Next]_vars /\ \A r \in Readers : WF_vars(Read(r))
=============================================================================
