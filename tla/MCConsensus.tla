---------------------------- MODULE MCConsensus ----------------------------
(***************************************************************************)
(* Instances of the consensus shell for TLC.  The node under study is n1.  *)
(***************************************************************************)
EXTENDS ConsensusProperties

CONSTANTS n1, n2, n3, n4, n5, blockA, blockB, blockC

V(t, h, r, x, v) == [vote_type |-> t, height |-> h, round |-> r, proposal |-> x, voter |-> v]
Signed(v, s) == [vote |-> v, signature |-> s]
SV(t, h, r, x, v) == Signed(V(t, h, r, x, v), v)

ProofOf(h, r, x, voters) ==
  [height |-> h, round |-> r, block_hash |-> x, precommit_votes |-> [v \in voters |-> v]]
FirstProof == ProofOf(0, 0, blockA, {})

Locked(h, r, x, pf, lr, lv, proposer) ==
  [signed |-> [proposal |-> [height |-> h, round |-> r, hash |-> x, proof |-> pf,
                             lock_round |-> lr, lock_votes |-> lv, proposer |-> proposer],
               signature |-> proposer],
   block |-> x]
Proposed(h, r, x, pf, proposer) == Locked(h, r, x, pf, NoLock, <<>>, proposer)

-----------------------------------------------------------------------------
(* Two heights with changing authorities: n2 proposes at height 1, n1 at    *)
(* height 2, and at height 3 n1 is no authority any more.                   *)
ChainAuthority ==
  [h \in Heights |-> CASE h = 0 -> <<>> [] h = 1 -> <<n1, n2>>
                       [] h = 2 -> <<n1, n3>> [] OTHER -> <<n3>>]
ChainContent == [h \in Heights |-> IF h = 1 THEN {blockA} ELSE {blockB}]
ChainVotes == {SV("Prevote", 1, 0, blockA, n2), SV("Precommit", 1, 0, blockA, n2),
               SV("Prevote", 2, 0, blockB, n3), SV("Precommit", 2, 0, blockB, n3)}
StrangerVotes == {SV("Precommit", 1, 0, blockA, n3), SV("Precommit", 2, 0, blockB, n2),
                  Signed(V("Precommit", 1, 0, blockA, n2), n3)}
ChainProposals == {Proposed(1, 0, blockA, FirstProof, n2)}
ShellVotes == ChainVotes \cup StrangerVotes
-----------------------------------------------------------------------------
(* n1 joins at height 2, where n2 proposes and may equivocate.  Proposals   *)
(* may come early, in time or late.  check_proposal accepts blockB alone,   *)
(* but n3's proposal of blockC may be late, and blockA, the block of height *)
(* 1, is proposed again at height 2 with a proof of too few.                *)
JoinAuthority ==
  [h \in Heights |-> CASE h = 0 -> <<>> [] h = 1 -> <<n2, n3>>
                       [] h = 2 -> <<n2, n1>> [] OTHER -> <<n3>>]
JoinContent == [h \in Heights |-> {blockB}]
JoinProof == ProofOf(1, 0, blockA, {n2, n3})
JoinVotes == {SV("Prevote", 2, 0, blockB, n2), SV("Precommit", 2, 0, blockB, n2)}
JoinProposals ==
  {Proposed(1, 0, blockC, FirstProof, n3), Proposed(2, 0, blockB, JoinProof, n2),
   Proposed(2, 0, blockC, JoinProof, n2),
   Proposed(2, 0, blockA, ProofOf(1, 0, blockA, {n2}), n2)}

-----------------------------------------------------------------------------
(* n1 decides alone, as in examples/solo.rs, and is relieved at height 3.   *)
SoloAuthority ==
  [h \in Heights |-> CASE h = 0 -> <<>> [] h = 1 -> <<n1>> [] h = 2 -> <<n1>>
                       [] OTHER -> <<n2>>]
SoloContent == [h \in Heights |-> IF h = 1 THEN {blockA} ELSE {blockB}]
SoloVotes == {SV("Precommit", 2, 0, blockB, n2)}
SoloProposals == {Proposed(1, 0, blockA, FirstProof, n1)}

-----------------------------------------------------------------------------
(* n1 follows a chain whose authorities grow from one to three.  n2 proposes *)
(* in round 1 of height 2, with lock votes of round 0: those of a quorum, or *)
(* with one of them repeated, forged or for another content; or too few; or  *)
(* votes of another type and another round.  The stranger n5 votes in three  *)
(* more rounds of height 2, and at height 0, so that the cache of rounds and *)
(* the cache of heights, of three each, both overflow.                       *)
LockAuthority ==
  [h \in Heights |-> CASE h = 0 -> <<>> [] h = 1 -> <<n2>> [] OTHER -> <<n2, n3, n4>>]
LockContent == [h \in Heights |-> {blockB}]
LockProof == ProofOf(1, 0, blockA, {n2})
Lock0(v) == SV("Prevote", 2, 0, blockB, v)
Relocked(lv) == Locked(2, 1, blockB, LockProof, 0, lv, n2)
QuorumLock == Relocked(<<Lock0(n2), Lock0(n3), Lock0(n4)>>)
MixedLock ==
  Relocked(<<Lock0(n2), SV("Precommit", 2, 0, blockB, n3), SV("Prevote", 2, 1, blockB, n4)>>)
ThinLock == Relocked(<<Lock0(n2), Lock0(n3)>>)
LockProposals ==
  {QuorumLock, MixedLock, Relocked(<<Lock0(n2), Lock0(n2)>>),
   Relocked(<<Lock0(n4), Signed(Lock0(n3).vote, n2)>>),
   Relocked(<<Lock0(n2), SV("Prevote", 2, 0, blockA, n3)>>)}
LockProposalsThin == LockProposals \cup {ThinLock}
LockVotes ==
  {Lock0(n2), SV("Prevote", 1, 0, blockA, n2), SV("Prevote", 3, 0, blockB, n3),
   SV("Prevote", 0, 0, blockA, n5)}
  \cup {SV("Prevote", 2, r, blockB, n5) : r \in 1 .. 3}
-----------------------------------------------------------------------------
(* n2 proposes in round 0 of height 1, and n1 in round 1. *)
RelockAuthority == [h \in Heights |-> IF h = 0 THEN <<>> ELSE <<n1, n2>>]
RelockContent == [h \in Heights |-> {blockA}]
RelockVotes == {SV("Prevote", 1, 0, blockA, n2)}
RelockProposals == {Proposed(1, 0, blockA, FirstProof, n2)}
=============================================================================
