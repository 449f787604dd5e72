----------------------------- MODULE MCRecovery -----------------------------
(***************************************************************************)
(* Instances of the shell with its write-ahead log for TLC.                 *)
(***************************************************************************)
EXTENDS Recovery

CONSTANTS n1, n2, blockA, blockB

Ballot(t, h, x, v) ==
  [vote |-> [vote_type |-> t, height |-> h, round |-> 0, proposal |-> x, voter |-> v],
   signature |-> v]
Offer(h, x, voters, proposer) ==
  [signed |-> [proposal |-> [height |-> h, round |-> 0, hash |-> x,
                             proof |-> [height |-> h - 1, round |-> 0, block_hash |-> blockA,
                                        precommit_votes |-> [v \in voters |-> v]],
                             lock_round |-> NoLock, lock_votes |-> <<>>, proposer |-> proposer],
               signature |-> proposer],
   block |-> x]

(* n1 decides alone, as in examples/solo.rs, and hears a stranger, whose    *)
(* proposals of height 2 can be logged or can't.                            *)
SoloAuthority == [h \in Heights |-> IF h = 0 THEN <<>> ELSE <<n1>>]
SoloContent == [h \in Heights |-> {blockA}]
SoloVotes == {Ballot("Precommit", 2, blockA, n2)}
SoloProposals == {Offer(2, blockA, {}, n2), Offer(2, blockA, {n2}, n2)}

(* n1 and n2 decide together. *)
PairAuthority == [h \in Heights |-> IF h = 0 THEN <<>> ELSE <<n1, n2>>]
PairVotes == {Ballot("Prevote", 1, blockA, n2)}
=============================================================================
