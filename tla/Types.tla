------------------------------- MODULE Types -------------------------------
(***************************************************************************)
(* The messages of the consensus shell (src/src/types.rs).  A byte string  *)
(* (an address, a block hash, a signature) is a member of a small set: an  *)
(* address is a node, a block is its hash, and a signature is the address  *)
(* that ConsensusSupport::verify_signature recovers from it over the       *)
(* message it is attached to, or Unrecoverable when that call returns Err. *)
(***************************************************************************)
EXTENDS Naturals, FiniteSets, Sequences, SequencesExt

CONSTANTS
  Nodes,          \* the addresses
  Hashes,         \* the hashes of proposal contents
  MaxHeight,      \* bound: the last height at which a block is decided
  MaxRound,       \* bound: the last round of a height
  Unrecoverable,  \* a signature that verify_signature refuses
  NoLock,         \* lock_round: None
  NoProof         \* self.proof: None

ASSUME BoundsAssumption == MaxHeight \in Nat /\ MaxRound \in Nat

ASSUME SentinelAssumption ==
  /\ Unrecoverable \notin Nodes
  /\ NoLock \notin Nat

\* Height 0 is INIT_HEIGHT; a node that committed MaxHeight is at MaxHeight+1.
Heights == 0 .. MaxHeight + 1
Rounds == 0 .. MaxRound
Signatures == Nodes \cup {Unrecoverable}
VoteTypes == {"Prevote", "Precommit"}

Vote == [vote_type : VoteTypes, height : Heights, round : Rounds,
         proposal : Hashes, voter : Nodes]

SignedVote == [vote : Vote, signature : Signatures]

\* precommit_votes: HashMap<Address, Signature>
Proof == [height : Heights, round : Rounds, block_hash : Hashes,
          precommit_votes : UNION {[S -> Signatures] : S \in SUBSET Nodes}]
ASSUME NoProofAssumption == NoProof \notin Proof

Proposal == [height : Heights, round : Rounds, hash : Hashes, proof : Proof,
             lock_round : Rounds \cup {NoLock}, lock_votes : Seq(SignedVote),
             proposer : Nodes]

SignedProposal == [proposal : Proposal, signature : Signatures]

\* What ConsensusInput::SignedProposal carries:
\* combine(signed proposal, encode_block(height, content, hash)).
ProposalMsg == [signed : SignedProposal, block : Hashes]

Status == [height : Heights, authority_list : Seq(Nodes)]

\* AsyncMsg: the answers of the threads that call check_proposal and get_content.
AsyncMsg == [type : {"VerifyResp"}, proposal : Hashes, is_pass : BOOLEAN]
            \cup [type : {"Feed"}, height : Heights, content : Hashes]

\* What the engine hands to ConsensusSupport::commit.
Commit == [height : Heights, result : Hashes, proof : Proof]

-----------------------------------------------------------------------------
(* bft_core::types: what the core thread sends (CoreOutput).  A Vec of      *)
(* votes is a set, since the core lists each vote once.                     *)

BftProposal == [height : Heights, round : Rounds, content : Hashes,
                lock_round : Rounds \cup {NoLock}, lock_votes : SUBSET Vote,
                proposer : Nodes]

BftCommit == [height : 1 .. MaxHeight, round : Rounds, proposal : Hashes,
              lock_votes : SUBSET Vote]

CoreOutput == [type : {"GetProposalRequest"}, height : Heights]
              \cup [type : {"Proposal"}, proposal : BftProposal]
              \cup [type : {"Vote"}, vote : Vote]
              \cup [type : {"Commit"}, commit : BftCommit]

\* Proposal::to_bft_proposal; the lock votes of an unlocked proposal are dropped.
ToBftProposal(p) ==
  [height |-> p.height, round |-> p.round, content |-> p.hash,
   lock_round |-> p.lock_round,
   lock_votes |-> IF p.lock_round = NoLock THEN {}
                  ELSE {v.vote : v \in ToSet(p.lock_votes)},
   proposer |-> p.proposer]
=============================================================================
