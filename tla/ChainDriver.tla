---------------------------- MODULE ChainDriver ----------------------------
(***************************************************************************)
(* What a node is to its application: it follows one chain.  It is at one   *)
(* height at a time and never goes back; it either hears that the chain has *)
(* moved on, or it decides the height it is at, once and with a quorum of    *)
(* that height's authorities, and then goes on to the next.                 *)
(* Messages, rounds, queues, caches and failures are no part of it.         *)
(***************************************************************************)
EXTENDS Naturals, Sequences

CONSTANTS
  Quorums,       \* the sets of voters that may decide, by height
  Blocks         \* what may be decided

VARIABLES
  at,            \* the height the node is at
  decided        \* what it has decided, in order

DriverInit == at = 0 /\ decided = <<>>

\* The chain has reached a height that is not below the node's.
Learn == at' > at /\ UNCHANGED decided

Decide(block, voters) ==
  /\ voters \in Quorums[at]
  /\ decided' = Append(decided, [height |-> at, block |-> block, voters |-> voters])
  /\ at' = at + 1

DriverNext ==
  \/ Learn
  \/ \E block \in Blocks, voters \in Quorums[at] : Decide(block, voters)

DriverSpec == DriverInit /\ [][DriverNext]_<<at, decided>>
=============================================================================
