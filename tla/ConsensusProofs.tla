-------------------------- MODULE ConsensusProofs --------------------------
(***************************************************************************)
(* What the consensus shell promises for every set of nodes, every chain   *)
(* of authority lists and every bound.                                     *)
(***************************************************************************)
EXTENDS ConsensusProperties, CollectionProofs

-----------------------------------------------------------------------------
(* The BFT core *)

LEMMA CoreInputsType ==
  ASSUME NEW c \in CoreState
  PROVE  /\ \A st \in Status : st.height <= MaxHeight => CoreStatus(c, st) \in CoreState
         /\ \A q \in BOOLEAN : CoreRunning(c, q) \in CoreState
         /\ \A v \in Vote : CoreVote(c, v) \in CoreState
         /\ \A p \in BftProposal : CoreProposal(c, p) \in CoreState
         /\ \A h \in Heights, x \in Hashes : CoreFeed(c, h, x) \in CoreState
         /\ \A x \in Hashes, q \in BOOLEAN : CoreVerifyResp(c, x, q) \in CoreState
<1>1. ASSUME NEW st \in Status, st.height <= MaxHeight
      PROVE  CoreStatus(c, st) \in CoreState
  <2>1. st.height + 1 \in Heights /\ st.authority_list \in Seq(Nodes)
    BY <1>1, BoundsAssumption DEF Status, Heights
  <2>2. {v \in c.votes : v.height > st.height} \in SUBSET Vote
    BY DEF CoreState
  <2> QED
    BY <2>1, <2>2 DEF CoreStatus, CoreState
<1>2. \A q \in BOOLEAN : CoreRunning(c, q) \in CoreState
  BY DEF CoreRunning, CoreState
<1>3. \A v \in Vote : CoreVote(c, v) \in CoreState
  BY DEF CoreVote, CoreState
<1>4. ASSUME NEW p \in BftProposal
      PROVE  CoreProposal(c, p) \in CoreState
  <2>1. /\ p.content \in Hashes /\ p.lock_votes \in SUBSET Vote
        /\ p.lock_round # NoLock => p.lock_round \in Rounds
    BY DEF BftProposal
  <2> DEFINE locks == IF p.lock_round = NoLock THEN c.locks
                      ELSE c.locks \cup {[content |-> p.content, round |-> p.lock_round,
                                          votes |-> p.lock_votes]}
  <2>2. locks \in SUBSET Lock
    BY <2>1 DEF CoreState, Lock
  <2> HIDE DEF locks
  <2>3. [c EXCEPT !.proposals = @ \cup {p.content}, !.locks = locks] \in CoreState
    BY <2>1, <2>2 DEF CoreState
  <2> QED
    BY <2>3 DEF CoreProposal, locks
<1>5. \A h \in Heights, x \in Hashes : CoreFeed(c, h, x) \in CoreState
  BY DEF CoreFeed, CoreState
<1>6. \A x \in Hashes, q \in BOOLEAN : CoreVerifyResp(c, x, q) \in CoreState
  BY DEF CoreVerifyResp, CoreState
<1> QED
  BY <1>1, <1>2, <1>3, <1>4, <1>5, <1>6

\* The core emits well formed outputs, of the height it decides.
LEMMA CoreOutputsType ==
  ASSUME NEW c \in CoreState, NEW o \in CoreOutputs(c)
  PROVE  /\ o \in CoreOutput
         /\ CoreEmitted(c, o) \in CoreState
<1>1. Deciding(c) /\ c.height \in 1 .. MaxHeight /\ c.height \in Heights
  BY BoundsAssumption DEF CoreOutputs, Deciding, Heights
<1>2. /\ Contents(c) \in SUBSET Hashes /\ c.feeds \in SUBSET Hashes
      /\ \A t, r, x : VotesFor(c, t, r, x) \in SUBSET Vote
  BY DEF Contents, CoreState, VotesFor
<1>3. CASE o \in RequestOutputs(c)
  <2>1. o = [type |-> "GetProposalRequest", height |-> c.height]
    BY <1>3 DEF RequestOutputs
  <2> QED
    BY <1>1, <2>1 DEF CoreOutput, CoreEmitted
<1>4. CASE o \in ProposalOutputs(c)
  <2> DEFINE rounds == {r \in Rounds : Proposes(c, r)}
  <2>1. LocksOf(c) \in SUBSET Lock
    BY <1>2 DEF LocksOf, Lock, CoreState
  <2>2. PICK r \in Rounds, x \in Hashes, lr \in Rounds \cup {NoLock}, lv \in SUBSET Vote :
          o = ProposalOutput(c, r, x, lr, lv)
    <3>1. CASE o \in {ProposalOutput(c, r, x, NoLock, {}) : r \in rounds, x \in c.feeds}
      BY <1>2, <3>1
    <3>2. CASE o \in {ProposalOutput(c, q[1], q[2].content, q[2].round, q[2].votes) :
                        q \in {x \in rounds \X LocksOf(c) : x[2].round < x[1]}}
      <4>1. PICK q \in rounds \X LocksOf(c) :
              o = ProposalOutput(c, q[1], q[2].content, q[2].round, q[2].votes)
        BY <3>2
      <4>2. q[1] \in Rounds /\ q[2] \in Lock
        BY <2>1, <4>1
      <4> QED
        BY <4>1, <4>2 DEF Lock
    <3> QED
      BY <1>4, <3>1, <3>2 DEF ProposalOutputs
  <2> DEFINE p == [height |-> c.height, round |-> r, content |-> x,
                   lock_round |-> lr, lock_votes |-> lv, proposer |-> Self]
  <2>3. p \in BftProposal
    BY <1>1, <2>2, SelfAssumption DEF BftProposal
  <2>4. o = [type |-> "Proposal", proposal |-> p]
    BY <2>2 DEF ProposalOutput
  <2>5. p.round \in Rounds
    BY <2>2
  <2> HIDE DEF p
  <2>6. o \in CoreOutput
    BY <2>3, <2>4 DEF CoreOutput
  <2>7. CoreEmitted(c, o) = [c EXCEPT !.proposed = @ \cup {p.round}]
    BY <2>4 DEF CoreEmitted
  <2> QED
    BY <2>5, <2>6, <2>7 DEF CoreState
<1>5. CASE o \in VoteOutputs(c)
  <2>1. PICK v \in [vote_type : VoteTypes, height : {c.height}, round : Rounds,
                    proposal : Contents(c), voter : {Self}] :
          o = [type |-> "Vote", vote |-> v]
    BY <1>5 DEF VoteOutputs
  <2>2. v \in Vote
    BY <1>1, <1>2, <2>1, SelfAssumption DEF Vote
  <2>3. CoreVote(c, v) \in CoreState
    BY <2>2, CoreInputsType
  <2> QED
    BY <2>1, <2>2, <2>3 DEF CoreOutput, CoreEmitted
<1>6. CASE o \in CommitOutputs(c)
  <2>1. PICK q \in Rounds \X Contents(c) :
          o = [type |-> "Commit",
               commit |-> [height |-> c.height, round |-> q[1], proposal |-> q[2],
                           lock_votes |-> VotesFor(c, "Precommit", q[1], q[2])]]
    BY <1>6 DEF CommitOutputs
  <2>2. o.commit \in BftCommit
    BY <1>1, <1>2, <2>1 DEF BftCommit
  <2> QED
    BY <2>1, <2>2 DEF CoreOutput, CoreEmitted
<1> QED
  BY <1>3, <1>4, <1>5, <1>6 DEF CoreOutputs
-----------------------------------------------------------------------------
(* The handlers of the engine *)

LEMMA ToBftProposalType ==
  ASSUME NEW p \in Proposal
  PROVE  ToBftProposal(p) \in BftProposal
<1>1. {v.vote : v \in ToSet(p.lock_votes)} \in SUBSET Vote
  <2>1. p.lock_votes \in Seq(SignedVote)
    BY DEF Proposal
  <2>2. ToSet(p.lock_votes) \in SUBSET SignedVote
    BY <2>1 DEF ToSet
  <2> QED
    BY <2>2 DEF SignedVote
<1> QED
  BY <1>1 DEF ToBftProposal, BftProposal, Proposal

\* handle_signed_proposal keeps what it touches well formed.
LEMMA HandleSignedProposalType ==
  ASSUME TypeOK, NEW sp \in SignedProposal, NEW known \in SUBSET Hashes,
         HandleSignedProposal(sp, known)
  PROVE  /\ votes' \in VoteCollector
         /\ async_recv' \in Seq(AsyncMsg)
         /\ proof' \in Proof \cup {NoProof}
         /\ core' \in CoreState
<1> DEFINE p == sp.proposal
<1>1. p \in Proposal
  BY DEF SignedProposal
<1>2. /\ p.height \in Heights /\ p.hash \in Hashes /\ p.proof \in Proof
      /\ p.lock_round \in Rounds \cup {NoLock} /\ p.lock_votes \in Seq(SignedVote)
  BY <1>1 DEF Proposal
<1> HIDE DEF p
<1>3. votes' \in VoteCollector
  <2>1. CollectedLockVotes(p) \in SUBSET SignedVote
    BY <1>2 DEF CollectedLockVotes
  <2>2. p.lock_round # NoLock => CollectLockVotes(p) \in VoteCollector
    BY <1>2, <2>1, AddVotesType DEF CollectLockVotes, TypeOK, VoteTypes
  <2> QED
    BY <2>2 DEF HandleSignedProposal, TypeOK, p
<1>4. async_recv' \in Seq(AsyncMsg)
  <2>1. \A pass \in Verdicts(p.hash) :
          [type |-> "VerifyResp", proposal |-> p.hash, is_pass |-> pass] \in AsyncMsg
    BY <1>2 DEF AsyncMsg, Verdicts
  <2>2. CASE async_recv' = async_recv
    BY <2>2 DEF TypeOK
  <2>3. CASE \E pass \in Verdicts(p.hash) :
               async_recv' = Append(async_recv, [type |-> "VerifyResp", proposal |-> p.hash,
                                                 is_pass |-> pass])
    BY <2>1, <2>3 DEF TypeOK
  <2> QED
    BY <2>2, <2>3 DEF HandleSignedProposal, p
<1>5. proof' \in Proof \cup {NoProof}
  BY <1>2 DEF HandleSignedProposal, TypeOK, p
<1>6. core' \in CoreState
  <2> DEFINE c1 == CoreProposal(core, ToBftProposal(p))
  <2>1. c1 \in CoreState
    BY <1>1, ToBftProposalType, CoreInputsType DEF TypeOK
  <2> HIDE DEF c1
  <2>2. p.hash \in DOMAIN verified_block => verified_block[p.hash] \in BOOLEAN
    BY DEF TypeOK
  <2>3. WithVerdict(c1, p) \in CoreState
    BY <1>2, <2>1, <2>2, CoreInputsType DEF WithVerdict, Verified
  <2> QED
    BY <2>3 DEF HandleSignedProposal, TypeOK, c1, p
<1> QED
  BY <1>3, <1>4, <1>5, <1>6

LEMMA StatusOfType ==
  ASSUME NEW h \in 0 .. MaxHeight
  PROVE  /\ StatusOf(h) \in Status
         /\ StatusOf(h).height = h
         /\ StatusOf(h).authority_list = AuthAt[h + 1]
         /\ h + 1 \in Heights
BY BoundsAssumption, ChainAssumption DEF StatusOf, Status, Heights

\* handle_rich_status and the start of the replay keep what they touch well formed.
LEMMA AcceptStatusType ==
  ASSUME TypeOK, NEW st \in Status, st.height <= MaxHeight, AcceptStatus(st)
  PROVE  /\ pc' \in {"select", "proposals", "votes"}
         /\ iter' \in IF pc' = "proposals" THEN Seq(ProposalMsg) ELSE Seq(SignedVote)
         /\ height' \in Heights /\ authority' \in AuthorityManage
         /\ consensus_power' \in BOOLEAN
         /\ verified_block' \in UNION {[S -> BOOLEAN] : S \in SUBSET Hashes}
         /\ block_origin_cache' \in SUBSET Hashes
         /\ proposal_cache' \in [Heights -> Seq(ProposalMsg)]
         /\ core' \in CoreState
<1>1. /\ st.height \in Heights /\ st.height + 1 \in Heights
      /\ st.authority_list \in Seq(Nodes)
  BY BoundsAssumption DEF Status, Heights
<1>2. height' \in Heights /\ block_origin_cache' \in SUBSET Hashes
  BY <1>1 DEF AcceptStatus, GotoNewHeight
<1>3. authority' \in AuthorityManage
  BY <1>1 DEF AcceptStatus, UpdateAuthority, AuthorityManage, TypeOK
<1>4. verified_block' \in UNION {[S -> BOOLEAN] : S \in SUBSET Hashes}
  <2>1. NoVerdicts \in [{} -> BOOLEAN]
    BY DEF NoVerdicts
  <2> QED
    BY <2>1 DEF AcceptStatus, GotoNewHeight
<1>5. CASE UNCHANGED <<consensus_power, core, pc, iter, proposal_cache>>
  BY <1>2, <1>3, <1>4, <1>5 DEF TypeOK
<1>6. CASE /\ consensus_power' = (Self \in ToSet(st.authority_list))
           /\ core' = CoreStatus(StartOrPause(Self \in ToSet(st.authority_list)), st)
           /\ pc' = "proposals" /\ iter' = proposal_cache[st.height + 1]
           /\ proposal_cache' = [proposal_cache EXCEPT ![st.height + 1] = <<>>]
  <2> DEFINE power == Self \in ToSet(st.authority_list)
  <2>1. power \in BOOLEAN
    OBVIOUS
  <2> HIDE DEF power
  <2>2. StartOrPause(power) \in CoreState
    BY <2>1, CoreInputsType DEF StartOrPause, TypeOK
  <2>3. CoreStatus(StartOrPause(power), st) \in CoreState
    BY <2>2, CoreInputsType
  <2>4. core' \in CoreState /\ consensus_power' \in BOOLEAN
    BY <1>6, <2>1, <2>3 DEF power
  <2>5. /\ iter' \in Seq(ProposalMsg)
        /\ proposal_cache' \in [Heights -> Seq(ProposalMsg)]
    BY <1>1, <1>6 DEF TypeOK
  <2> QED
    BY <1>2, <1>3, <1>4, <1>6, <2>4, <2>5
<1> QED
  BY <1>5, <1>6 DEF AcceptStatus

\* generate_proof: the signature of each voter is the collected one.
LEMMA GeneratedType ==
  ASSUME votes \in VoteCollector, NEW c \in BftCommit, Provable(c)
  PROVE  Generated(c) \in Proof
<1>1. /\ c.height \in Heights /\ c.round \in Rounds /\ c.proposal \in Hashes
      /\ c.lock_votes \in SUBSET Vote
  BY BoundsAssumption DEF BftCommit, Heights
<1> DEFINE voters == {v.voter : v \in c.lock_votes}
           sig == [x \in voters |->
                    SignatureOf(c.height, c.round, CHOOSE v \in c.lock_votes : v.voter = x)]
<1>2. voters \in SUBSET Nodes
  BY <1>1 DEF Vote
<1>3. ASSUME NEW v \in c.lock_votes
      PROVE  SignatureOf(c.height, c.round, v) \in Signatures
  <2>1. Holds(votes, c.height, c.round, "Precommit", v)
    BY DEF Provable, AllHeld
  <2>2. \E x \in VoteSet(votes, c.height, c.round, "Precommit") : x.vote = v
    BY <2>1 DEF Holds, VoteSet
  <2>3. VoteSet(votes, c.height, c.round, "Precommit") \in SUBSET SignedVote
    BY DEF VoteSet, VoteCollector, Pair
  <2> QED
    BY <2>2, <2>3 DEF SignatureOf, SignedVote
<1>4. sig \in [voters -> Signatures]
  <2> SUFFICES ASSUME NEW x \in voters
               PROVE  SignatureOf(c.height, c.round,
                                  CHOOSE v \in c.lock_votes : v.voter = x) \in Signatures
    OBVIOUS
  <2>1. (CHOOSE v \in c.lock_votes : v.voter = x) \in c.lock_votes
    OBVIOUS
  <2> QED
    BY <1>3, <2>1
<1>5. sig \in UNION {[S -> Signatures] : S \in SUBSET Nodes}
  BY <1>2, <1>4
<1> HIDE DEF sig
<1>6. [height |-> c.height, round |-> c.round, block_hash |-> c.proposal,
       precommit_votes |-> sig] \in Proof
  BY <1>1, <1>5 DEF Proof
<1> QED
  BY <1>6 DEF Generated, sig

LEMMA BuiltType ==
  ASSUME proof \in Proof \cup {NoProof}, NEW p \in BftProposal, CanBuild(p)
  PROVE  Built(p) \in Transmission
<1>1. GenesisProof(p.content) \in Proof
  <2> DEFINE none == [x \in {} |-> x]
  <2>1. none \in [{} -> Signatures]
    OBVIOUS
  <2>2. none \in UNION {[S -> Signatures] : S \in SUBSET Nodes}
    BY <2>1
  <2>3. 0 \in Heights /\ 0 \in Rounds /\ p.content \in Hashes
    BY BoundsAssumption DEF Heights, Rounds, BftProposal
  <2> HIDE DEF none
  <2>4. [height |-> 0, round |-> 0, block_hash |-> p.content, precommit_votes |-> none] \in Proof
    BY <2>2, <2>3 DEF Proof
  <2> QED
    BY <2>4 DEF GenesisProof, none
<1>2. (IF height = 1 THEN GenesisProof(p.content) ELSE proof) \in Proof
  BY <1>1 DEF CanBuild
<1> QED
  BY <1>2, SelfAssumption DEF Built, Transmission, BftProposal, Signatures
-----------------------------------------------------------------------------
(* Type correctness *)

LEMMA InitType == Init => TypeOK
<1> SUFFICES ASSUME Init PROVE TypeOK
  OBVIOUS
<1>1. /\ 0 \in Heights /\ Self \in Nodes
      /\ <<>> \in Seq(Nodes) /\ <<>> \in Seq(Heights) /\ <<>> \in Seq(Rounds)
  BY BoundsAssumption, SelfAssumption DEF Heights
<1>2. authority \in AuthorityManage
  BY <1>1 DEF Init, InitAuthority, AuthorityManage
<1>3. votes \in VoteCollector
  BY <1>1 DEF Init, EmptyCollector, VoteCollector
<1>4. verified_block \in UNION {[S -> BOOLEAN] : S \in SUBSET Hashes}
  <2>1. NoVerdicts \in [{} -> BOOLEAN]
    BY DEF NoVerdicts
  <2> QED
    BY <2>1 DEF Init
<1>5. core \in CoreState
  BY <1>1 DEF Init, InitCore, CoreState
<1>6. /\ proposal_cache \in [Heights -> Seq(ProposalMsg)]
      /\ vote_cache \in [Heights -> Seq(SignedVote)]
      /\ bft_recv \in Seq(CoreOutput) /\ async_recv \in Seq(AsyncMsg)
      /\ commits \in Seq(Commit) /\ iter \in Seq(SignedVote)
  BY DEF Init
<1> QED
  BY <1>1, <1>2, <1>3, <1>4, <1>5, <1>6 DEF Init, TypeOK

LEMMA ReceiveSignedVoteType ==
  ASSUME TypeOK, NEW m \in PeerVotes, ReceiveSignedVote(m)
  PROVE  TypeOK'
<1> USE DEF loop, chain, blocks, caches, history
<1>1. m \in SignedVote
  BY PeersAssumption
<1>2. /\ m.vote \in Vote /\ m.vote.height \in Heights /\ m.vote.round \in Rounds
      /\ m.vote.vote_type \in VoteTypes
  BY <1>1 DEF SignedVote, Vote
<1>3. CASE Panic
  BY <1>3 DEF Panic, TypeOK
<1>4. CASE /\ TakeVote(m)
           /\ UNCHANGED <<loop, chain, proof, blocks, caches, bft_recv, async_recv, history>>
  <2>1. votes' \in VoteCollector
    BY <1>1, <1>2, <1>4, AddVotesType DEF TakeVote, TypeOK
  <2>2. core' \in CoreState
    BY <1>2, <1>4, CoreInputsType DEF TakeVote, TypeOK
  <2> QED
    BY <1>4, <2>1, <2>2 DEF TypeOK
<1>5. CASE /\ CacheVote(m)
           /\ UNCHANGED <<loop, chain, votes, proof, blocks, proposal_cache, bft_recv,
                          async_recv, core, history>>
  <2>1. vote_cache' \in [Heights -> Seq(SignedVote)]
    BY <1>1, <1>2, <1>5 DEF CacheVote, TypeOK
  <2> QED
    BY <1>5, <2>1 DEF TypeOK
<1> QED
  BY <1>3, <1>4, <1>5 DEF ReceiveSignedVote

LEMMA ReceiveSignedProposalType ==
  ASSUME TypeOK, NEW m \in PeerProposals, ReceiveSignedProposal(m)
  PROVE  TypeOK'
<1> USE DEF loop, chain, blocks, caches, history
<1> DEFINE p == m.signed.proposal
           known == block_origin_cache \cup {m.block}
<1>1. m \in ProposalMsg /\ m.signed \in SignedProposal /\ m.block \in Hashes
  BY PeersAssumption DEF ProposalMsg
<1>2. p.height \in Heights
  BY <1>1 DEF SignedProposal, Proposal
<1>3. known \in SUBSET Hashes
  BY <1>1 DEF TypeOK
<1> HIDE DEF p, known
<1>4. CASE Panic
  BY <1>4 DEF Panic, TypeOK
<1>5. CASE /\ proposal_cache' = [proposal_cache EXCEPT ![p.height] = Append(@, m)]
           /\ block_origin_cache' = known
           /\ UNCHANGED <<loop, chain, votes, proof, verified_block, vote_cache, bft_recv,
                          async_recv, core, history>>
  <2>1. proposal_cache' \in [Heights -> Seq(ProposalMsg)]
    BY <1>1, <1>2, <1>5 DEF TypeOK
  <2> QED
    BY <1>3, <1>5, <2>1 DEF TypeOK
<1>6. CASE /\ HandleSignedProposal(m.signed, known)
           /\ block_origin_cache' = known
           /\ UNCHANGED <<loop, chain, verified_block, caches, bft_recv, history>>
  BY <1>1, <1>3, <1>6, HandleSignedProposalType DEF TypeOK
<1> QED
  BY <1>4, <1>5, <1>6 DEF ReceiveSignedProposal, p, known

LEMMA ReceiveStatusType ==
  ASSUME TypeOK, NEW h \in 0 .. MaxHeight, ReceiveStatus(h)
  PROVE  TypeOK'
<1> USE DEF loop, chain, blocks, caches, history
<1>1. /\ AcceptStatus(StatusOf(h))
      /\ UNCHANGED <<alive, votes, proof, vote_cache, bft_recv, async_recv, history>>
  BY DEF ReceiveStatus
<1>2. StatusOf(h) \in Status /\ StatusOf(h).height <= MaxHeight
  BY StatusOfType, BoundsAssumption
<1> QED
  BY <1>1, <1>2, AcceptStatusType DEF TypeOK

LEMMA LoopStepType ==
  ASSUME TypeOK, LoopStep
  PROVE  TypeOK'
<1> USE DEF loop, chain, blocks, caches, history
<1>1. CASE ReplayProposal
  <2> DEFINE m == Head(iter)
  <2>1. iter \in Seq(ProposalMsg) /\ iter # <<>>
    BY <1>1 DEF ReplayProposal, TypeOK
  <2>2. m \in ProposalMsg /\ Tail(iter) \in Seq(ProposalMsg)
    BY <2>1
  <2>3. m.signed \in SignedProposal
    BY <2>2 DEF ProposalMsg
  <2>4. /\ HandleSignedProposal(m.signed, block_origin_cache)
        /\ block_origin_cache \in SUBSET Hashes
    BY <1>1 DEF ReplayProposal, TypeOK
  <2>5. /\ votes' \in VoteCollector /\ async_recv' \in Seq(AsyncMsg)
        /\ proof' \in Proof \cup {NoProof} /\ core' \in CoreState
    BY <2>3, <2>4, HandleSignedProposalType
  <2>6. \/ pc' = "proposals" /\ iter' = Tail(iter)
        \/ pc' = "select" /\ iter' = <<>>
    BY <1>1 DEF ReplayProposal
  <2>7. UNCHANGED <<alive, chain, blocks, caches, bft_recv, history>>
    BY <1>1 DEF ReplayProposal
  <2>8. <<>> \in Seq(SignedVote)
    OBVIOUS
  <2> QED
    BY <2>2, <2>5, <2>6, <2>7, <2>8 DEF TypeOK
<1>2. CASE StartVotes
  BY <1>2 DEF StartVotes, TypeOK
<1>3. CASE ReplayVote
  <2> DEFINE m == Head(iter)
  <2>1. iter \in Seq(SignedVote) /\ iter # <<>>
    BY <1>3 DEF ReplayVote, TypeOK
  <2>2. m \in SignedVote /\ Tail(iter) \in Seq(SignedVote)
    BY <2>1
  <2>3. /\ m.vote \in Vote /\ m.vote.height \in Heights /\ m.vote.round \in Rounds
        /\ m.vote.vote_type \in VoteTypes
    BY <2>2 DEF SignedVote, Vote
  <2>4. TakeVote(m)
    BY <1>3 DEF ReplayVote
  <2> HIDE DEF m
  <2>5. votes' \in VoteCollector
    BY <2>2, <2>3, <2>4, AddVotesType DEF TakeVote, TypeOK
  <2>6. core' \in CoreState
    BY <2>3, <2>4, CoreInputsType DEF TakeVote, TypeOK
  <2>7. \/ pc' = "votes" /\ iter' = Tail(iter)
        \/ pc' = "select" /\ iter' = <<>>
    BY <1>3 DEF ReplayVote
  <2>8. UNCHANGED <<alive, chain, proof, blocks, caches, bft_recv, async_recv, history>>
    BY <1>3 DEF ReplayVote
  <2>9. <<>> \in Seq(SignedVote)
    OBVIOUS
  <2> QED
    BY <2>2, <2>5, <2>6, <2>7, <2>8, <2>9 DEF TypeOK
<1>4. CASE StatusDone
  BY <1>4 DEF StatusDone, TypeOK
<1> QED
  BY <1>1, <1>2, <1>3, <1>4 DEF LoopStep

LEMMA AsyncStepType ==
  ASSUME TypeOK, AsyncStep
  PROVE  TypeOK'
<1> USE DEF loop, chain, blocks, caches, history
<1> DEFINE m == Head(async_recv)
<1>1. m \in AsyncMsg /\ Tail(async_recv) \in Seq(AsyncMsg)
  BY DEF AsyncStep, ProcessVerifyResp, ProcessFeed, TypeOK
<1> HIDE DEF m
<1>2. CASE ProcessVerifyResp
  <2>1. m.proposal \in Hashes /\ m.is_pass \in BOOLEAN
    BY <1>1, <1>2 DEF ProcessVerifyResp, AsyncMsg, m
  <2>2. core' \in CoreState
    BY <1>2, <2>1, CoreInputsType DEF ProcessVerifyResp, TypeOK, m
  <2>3. Remember(m.proposal, m.is_pass) \in UNION {[S -> BOOLEAN] : S \in SUBSET Hashes}
    <3>1. PICK S \in SUBSET Hashes : verified_block \in [S -> BOOLEAN]
      BY DEF TypeOK
    <3> DEFINE new == [x \in S \cup {m.proposal} |->
                        IF x = m.proposal THEN m.is_pass ELSE verified_block[x]]
    <3>2. new \in [S \cup {m.proposal} -> BOOLEAN]
      BY <2>1, <3>1
    <3>3. new \in UNION {[T -> BOOLEAN] : T \in SUBSET Hashes}
      BY <2>1, <3>2
    <3>4. Remember(m.proposal, m.is_pass) \in {verified_block, new}
      BY <3>1 DEF Remember
    <3> QED
      BY <3>1, <3>3, <3>4
  <2>4. verified_block' \in UNION {[S -> BOOLEAN] : S \in SUBSET Hashes}
    BY <1>2, <2>3 DEF ProcessVerifyResp, m
  <2> QED
    BY <1>1, <1>2, <2>2, <2>4 DEF ProcessVerifyResp, TypeOK
<1>3. CASE ProcessFeed
  <2>1. m.height \in Heights /\ m.content \in Hashes
    BY <1>1, <1>3 DEF ProcessFeed, AsyncMsg, m
  <2>2. core' \in CoreState
    BY <1>3, <2>1, CoreInputsType DEF ProcessFeed, TypeOK, m
  <2>3. block_origin_cache' \in SUBSET Hashes
    BY <1>3, <2>1 DEF ProcessFeed, TypeOK, m
  <2> QED
    BY <1>1, <1>3, <2>2, <2>3 DEF ProcessFeed, TypeOK
<1> QED
  BY <1>2, <1>3 DEF AsyncStep

LEMMA CoreStepType ==
  ASSUME TypeOK, CoreStep
  PROVE  TypeOK'
<1> USE DEF loop, chain, blocks, caches, history
<1> DEFINE o == Head(bft_recv)
<1>1. o \in CoreOutput /\ bft_recv' \in Seq(CoreOutput)
  <2>1. bft_recv # <<>> /\ bft_recv' = Tail(bft_recv)
    BY DEF CoreStep, ProcessGetProposalRequest, ProcessProposal, HandleProposal, ProcessVote,
           HandleVote, ProcessCommit,
           Takes
  <2>2. bft_recv \in Seq(CoreOutput)
    BY DEF TypeOK
  <2> QED
    BY <2>1, <2>2
<1> HIDE DEF o
<1>2. CASE ProcessGetProposalRequest
  <2>1. o.height \in Heights
    BY <1>1, <1>2 DEF ProcessGetProposalRequest, Takes, CoreOutput, o
  <2>2. \A x \in ContentAt[o.height] :
          [type |-> "Feed", height |-> o.height, content |-> x] \in AsyncMsg
    BY <2>1, ChainAssumption DEF AsyncMsg
  <2>3. \/ async_recv' = async_recv
        \/ \E x \in ContentAt[o.height] : async_recv' = Append(async_recv,
             [type |-> "Feed", height |-> o.height, content |-> x])
    BY <1>2 DEF ProcessGetProposalRequest, o
  <2>4. async_recv' \in Seq(AsyncMsg)
    <3>1. ASSUME NEW x \in ContentAt[o.height],
                 async_recv' = Append(async_recv,
                   [type |-> "Feed", height |-> o.height, content |-> x])
          PROVE  async_recv' \in Seq(AsyncMsg)
      BY <2>2, <3>1 DEF TypeOK
    <3> QED
      BY <2>3, <3>1 DEF TypeOK
  <2> QED
    BY <1>1, <1>2, <2>4 DEF ProcessGetProposalRequest, TypeOK
<1>3. CASE ProcessProposal
  <2> DEFINE p == o.proposal
  <2>1. p \in BftProposal
    BY <1>1, <1>3 DEF ProcessProposal, HandleProposal, Takes, CoreOutput, o
  <2>2. p.height \in Heights /\ p.round \in Rounds /\ p.content \in Hashes
    BY <2>1 DEF BftProposal
  <2> HIDE DEF p
  <2>3. votes' \in {votes, Looked(votes, p.height, p.round)}
    BY <1>3 DEF ProcessProposal, HandleProposal, p, o
  <2>4. votes' \in VoteCollector
    BY <2>2, <2>3, LookedType DEF TypeOK
  <2>5. CASE UNCHANGED <<async_recv, transmitted>>
    BY <1>1, <1>3, <2>4, <2>5 DEF ProcessProposal, HandleProposal, TypeOK
  <2>6. CASE /\ CanBuild(p)
             /\ \E pass \in Verdicts(p.content) : async_recv' = Append(async_recv,
                  [type |-> "VerifyResp", proposal |-> p.content, is_pass |-> pass])
             /\ transmitted' = transmitted \cup {Built(p)}
    <3>1. \A pass \in Verdicts(p.content) :
            [type |-> "VerifyResp", proposal |-> p.content, is_pass |-> pass] \in AsyncMsg
      BY <2>2 DEF AsyncMsg, Verdicts
    <3>2. async_recv' \in Seq(AsyncMsg)
      BY <2>6, <3>1 DEF TypeOK
    <3>3. transmitted' \in SUBSET Transmission
      BY <2>1, <2>6, BuiltType DEF TypeOK
    <3> QED
      BY <1>1, <1>3, <2>4, <3>2, <3>3 DEF ProcessProposal, HandleProposal, TypeOK
  <2> QED
    BY <1>3, <2>5, <2>6 DEF ProcessProposal, HandleProposal, p, o
<1>4. CASE ProcessVote
  <2> DEFINE v == o.vote
             sv == [vote |-> v, signature |-> Self]
  <2>1. v \in Vote
    BY <1>1, <1>4 DEF ProcessVote, HandleVote, Takes, CoreOutput, o
  <2>2. /\ v.height \in Heights /\ v.round \in Rounds /\ v.vote_type \in VoteTypes
        /\ sv \in SignedVote
    BY <2>1, SelfAssumption DEF Vote, SignedVote, Signatures
  <2> HIDE DEF v
  <2>3. CASE UNCHANGED <<votes, transmitted>>
    BY <1>1, <1>4, <2>3 DEF ProcessVote, HandleVote, TypeOK
  <2>4. CASE /\ votes' = AddVotes(votes, v.height, v.round, v.vote_type, {sv})
             /\ transmitted' = transmitted \cup {[type |-> "SignedVote", signed |-> sv]}
    <3>1. votes' \in VoteCollector
      BY <2>2, <2>4, AddVotesType DEF TypeOK
    <3>2. transmitted' \in SUBSET Transmission
      BY <2>2, <2>4 DEF TypeOK, Transmission
    <3> QED
      BY <1>1, <1>4, <3>1, <3>2 DEF ProcessVote, HandleVote, TypeOK
  <2> QED
    BY <1>4, <2>3, <2>4 DEF ProcessVote, HandleVote, v, o
<1>5. CASE ProcessCommit
  <2> DEFINE c == o.commit
  <2>1. c \in BftCommit
    BY <1>1, <1>5 DEF ProcessCommit, Takes, CoreOutput, o
  <2>2. /\ c.height \in Heights /\ c.height \in 0 .. MaxHeight
        /\ c.round \in Rounds /\ c.proposal \in Hashes
    BY <2>1, BoundsAssumption DEF BftCommit, Heights
  <2> HIDE DEF c
  <2>3. Looked(votes, c.height, c.round) \in VoteCollector
    BY <2>2, LookedType DEF TypeOK
  <2>4. UNCHANGED <<async_recv, transmitted>>
    BY <1>5 DEF ProcessCommit
  <2>5. CASE RefuseCommit(c)
    <3>1. votes' \in VoteCollector
      BY <2>3, <2>5 DEF RefuseCommit, TypeOK
    <3> QED
      BY <1>1, <2>4, <2>5, <3>1 DEF RefuseCommit, TypeOK
  <2>6. CASE DoCommit(c)
    <3>1. votes' \in VoteCollector
      BY <2>3, <2>6 DEF DoCommit
    <3>2. Generated(c) \in Proof
      BY <2>1, <2>6, GeneratedType DEF DoCommit, TypeOK
    <3>3. proof' \in Proof \cup {NoProof}
      BY <2>6, <3>2 DEF DoCommit
    <3>4. CASE UNCHANGED <<loop, chain, blocks, caches, core, commits>>
      BY <1>1, <2>4, <3>1, <3>3, <3>4 DEF TypeOK
    <3>5. CASE /\ commits' = Append(commits, [height |-> c.height, result |-> c.proposal,
                                              proof |-> Generated(c)])
               /\ AcceptStatus(StatusOf(c.height))
               /\ UNCHANGED <<alive, vote_cache>>
      <4>1. commits' \in Seq(Commit)
        BY <2>2, <3>2, <3>5 DEF TypeOK, Commit
      <4>2. StatusOf(c.height) \in Status /\ StatusOf(c.height).height <= MaxHeight
        BY <2>2, StatusOfType, BoundsAssumption
      <4> QED
        BY <1>1, <2>4, <3>1, <3>3, <3>5, <4>1, <4>2, AcceptStatusType DEF TypeOK
    <3> QED
      BY <2>6, <3>4, <3>5 DEF DoCommit
  <2> QED
    BY <1>5, <2>5, <2>6 DEF ProcessCommit, c, o
<1> QED
  BY <1>2, <1>3, <1>4, <1>5 DEF CoreStep

LEMMA NextType == TypeOK /\ [Next]_vars => TypeOK'
<1> SUFFICES ASSUME TypeOK, [Next]_vars PROVE TypeOK'
  OBVIOUS
<1> USE DEF loop, chain, blocks, caches, history
<1>1. CASE EngineStep
  BY <1>1, LoopStepType, AsyncStepType, CoreStepType DEF EngineStep
<1>2. ASSUME NEW m \in PeerVotes, ReceiveSignedVote(m) PROVE TypeOK'
  BY <1>2, ReceiveSignedVoteType
<1>3. ASSUME NEW m \in PeerProposals, ReceiveSignedProposal(m) PROVE TypeOK'
  BY <1>3, ReceiveSignedProposalType
<1>4. ASSUME NEW h \in 0 .. MaxHeight, ReceiveStatus(h) PROVE TypeOK'
  BY <1>4, ReceiveStatusType
<1>5. CASE CoreEmit
  <2>1. PICK o \in CoreOutputs(core) : /\ bft_recv' = Append(bft_recv, o)
                                       /\ core' = CoreEmitted(core, o)
    BY <1>5 DEF CoreEmit
  <2>2. core \in CoreState
    BY DEF TypeOK
  <2>3. o \in CoreOutput /\ CoreEmitted(core, o) \in CoreState
    BY <2>2, CoreOutputsType
  <2> QED
    BY <1>5, <2>1, <2>3 DEF CoreEmit, TypeOK
<1>6. CASE UNCHANGED vars
  BY <1>6 DEF vars, TypeOK
<1> QED
  BY <1>1, <1>2, <1>3, <1>4, <1>5, <1>6 DEF Next, Environment

\* Every message in a channel, a cache or the history is well formed, and the
\* heights stay inside the bound, whatever arrives and whatever fails.
THEOREM TypeCorrect == Spec => []TypeOK
<1> QED
  BY InitType, NextType, PTL DEF Spec
-----------------------------------------------------------------------------
(* How a step may change the height, the authority lists and the core       *)

\* The core is told of height h + 1, or set_height fails and it is not.
JumpsTo(h) ==
  /\ h >= height /\ height' = h + 1
  /\ authority' = UpdateAuthority(authority, height, AuthAt[h + 1])
  /\ \/ UNCHANGED <<consensus_power, core>> /\ "set_height" \in Faults
     \/ /\ consensus_power' = (Self \in ToSet(AuthAt[h + 1]))
        /\ core' = CoreStatus(StartOrPause(Self \in ToSet(AuthAt[h + 1])), StatusOf(h))

\* Nothing that the core's votes are judged by changes.
SameCore ==
  /\ core'.height = core.height /\ core'.authority = core.authority
  /\ core'.running = core.running /\ core'.votes = core.votes

LEMMA CoreInputsKeep ==
  ASSUME NEW c \in CoreState
  PROVE  /\ \A p, x, q : LET d == CoreVerifyResp(CoreProposal(c, p), x, q)
                        IN  /\ d.height = c.height /\ d.authority = c.authority
                            /\ d.running = c.running /\ d.votes = c.votes
         /\ \A p : LET d == CoreProposal(c, p)
                  IN  /\ d.height = c.height /\ d.authority = c.authority
                      /\ d.running = c.running /\ d.votes = c.votes
         /\ \A x, q : LET d == CoreVerifyResp(c, x, q)
                     IN  /\ d.height = c.height /\ d.authority = c.authority
                         /\ d.running = c.running /\ d.votes = c.votes
         /\ \A h, x : LET d == CoreFeed(c, h, x)
                     IN  /\ d.height = c.height /\ d.authority = c.authority
                         /\ d.running = c.running /\ d.votes = c.votes
         /\ \A v : LET d == CoreVote(c, v)
                  IN  /\ d.height = c.height /\ d.authority = c.authority
                      /\ d.running = c.running /\ d.votes \subseteq c.votes \cup {v}
BY DEF CoreState, CoreProposal, CoreVerifyResp, CoreFeed, CoreVote

LEMMA HandleSignedProposalKeeps ==
  ASSUME TypeOK, NEW sp, NEW known, HandleSignedProposal(sp, known)
  PROVE  SameCore
<1>1. core \in CoreState
  BY DEF TypeOK
<1>2. CASE core' = core
  BY <1>2 DEF SameCore
<1>3. CASE core' = WithVerdict(CoreProposal(core, ToBftProposal(sp.proposal)), sp.proposal)
  <2> DEFINE p == ToBftProposal(sp.proposal)
             c1 == CoreProposal(core, p)
             x == sp.proposal.hash
  <2>1. c1.height = core.height /\ c1.authority = core.authority /\ c1.running = core.running
        /\ c1.votes = core.votes
    BY <1>1, CoreInputsKeep
  <2>2. \A q : LET d == CoreVerifyResp(c1, x, q)
               IN  /\ d.height = core.height /\ d.authority = core.authority
                   /\ d.running = core.running /\ d.votes = core.votes
    BY <1>1, CoreInputsKeep
  <2> HIDE DEF c1
  <2>3. core' = c1 \/ \E q : core' = CoreVerifyResp(c1, x, q)
    BY <1>3 DEF WithVerdict, c1
  <2> QED
    BY <2>1, <2>2, <2>3 DEF SameCore
<1> QED
  BY <1>2, <1>3 DEF HandleSignedProposal

LEMMA AcceptStatusJumps ==
  ASSUME TypeOK, NEW h \in 0 .. MaxHeight, AcceptStatus(StatusOf(h))
  PROVE  JumpsTo(h)
<1>1. /\ StatusOf(h).height = h /\ StatusOf(h).authority_list = AuthAt[h + 1]
      /\ h \in Nat /\ height \in Nat
  BY StatusOfType, BoundsAssumption DEF TypeOK, Heights
<1>2. h >= height
  BY <1>1 DEF AcceptStatus, Outdated
<1> QED
  BY <1>1, <1>2 DEF AcceptStatus, GotoNewHeight, JumpsTo

\* Every step keeps the lists and the core's votes, hands the core one vote that
\* passed check_vote_sender, lets the core count its own vote, or is a status.
LEMMA ChainSteps ==
  ASSUME TypeOK, [Next]_vars
  PROVE  \/ UNCHANGED chain /\ SameCore
         \/ UNCHANGED chain /\ \E m \in SignedVote : TakeVote(m)
         \/ UNCHANGED chain /\ Deciding(core) /\ \E v \in Vote :
              v.voter = Self /\ v.height = core.height /\ core' = CoreVote(core, v)
         \/ \E h \in 0 .. MaxHeight : JumpsTo(h)
<1> USE DEF loop, blocks, caches, history
<1>a. core \in CoreState
  BY DEF TypeOK
<1>b. core' = core => SameCore
  BY DEF SameCore
<1>1. ASSUME NEW m \in PeerVotes, ReceiveSignedVote(m)
      PROVE  UNCHANGED chain /\ (SameCore \/ TakeVote(m))
  BY <1>1, <1>b DEF ReceiveSignedVote, Panic, CacheVote
<1>2. ASSUME NEW m \in PeerProposals, ReceiveSignedProposal(m)
      PROVE  UNCHANGED chain /\ SameCore
  BY <1>2, <1>b, HandleSignedProposalKeeps DEF ReceiveSignedProposal, Panic
<1>3. ASSUME NEW h \in 0 .. MaxHeight, ReceiveStatus(h)
      PROVE  JumpsTo(h)
  BY <1>3, AcceptStatusJumps DEF ReceiveStatus
<1>4. CASE ReplayProposal
  BY <1>4, HandleSignedProposalKeeps DEF ReplayProposal
<1>5. CASE StartVotes \/ StatusDone
  BY <1>5, <1>b DEF StartVotes, StatusDone
<1>6. CASE ReplayVote
  <2>1. iter \in Seq(SignedVote) /\ iter # <<>>
    BY <1>6 DEF ReplayVote, TypeOK
  <2>2. Head(iter) \in SignedVote
    BY <2>1
  <2> QED
    BY <1>6, <2>2 DEF ReplayVote
<1>7. CASE AsyncStep
  BY <1>7, <1>a, CoreInputsKeep DEF AsyncStep, ProcessVerifyResp, ProcessFeed, SameCore
<1>8. CASE ProcessGetProposalRequest \/ ProcessProposal \/ ProcessVote
  BY <1>8, <1>b DEF ProcessGetProposalRequest, ProcessProposal, HandleProposal, ProcessVote,
         HandleVote
<1>9. CASE ProcessCommit
  <2> DEFINE c == Head(bft_recv).commit
  <2>1. bft_recv \in Seq(CoreOutput) /\ bft_recv # <<>> /\ Head(bft_recv).type = "Commit"
    BY <1>9 DEF ProcessCommit, Takes, TypeOK
  <2>2. Head(bft_recv) \in CoreOutput
    BY <2>1
  <2>3. c \in BftCommit
    BY <2>1, <2>2 DEF CoreOutput
  <2>4. c.height \in 0 .. MaxHeight
    BY <2>3, BoundsAssumption DEF BftCommit
  <2> HIDE DEF c
  <2>5. RefuseCommit(c) \/ DoCommit(c)
    BY <1>9 DEF ProcessCommit, c
  <2>6. (UNCHANGED chain /\ UNCHANGED core) \/ AcceptStatus(StatusOf(c.height))
    BY <2>5 DEF RefuseCommit, DoCommit
  <2> QED
    BY <1>b, <2>4, <2>6, AcceptStatusJumps
<1>10. CASE CoreEmit
  <2>1. PICK o \in CoreOutputs(core) : core' = CoreEmitted(core, o)
    BY <1>10 DEF CoreEmit
  <2>2. UNCHANGED chain /\ Deciding(core)
    BY <1>10, <2>1 DEF CoreEmit, CoreOutputs
  <2>3. CASE o.type = "Vote"
    <3>1. o \in VoteOutputs(core)
      BY <2>1, <2>2, <2>3 DEF CoreOutputs, RequestOutputs, ProposalOutputs, ProposalOutput,
                              CommitOutputs
    <3>2. PICK v \in [vote_type : VoteTypes, height : {core.height}, round : Rounds,
                      proposal : Contents(core), voter : {Self}] :
            o = [type |-> "Vote", vote |-> v]
      BY <3>1 DEF VoteOutputs
    <3>3. v.voter = Self /\ v.height = core.height /\ o.vote = v
      BY <3>2
    <3>4. v \in Vote
      BY <2>1, <2>3, <3>3, <1>a, CoreOutputsType DEF CoreOutput
    <3>5. core' = CoreVote(core, v)
      BY <2>1, <2>3, <3>3 DEF CoreEmitted
    <3> QED
      BY <2>2, <3>3, <3>4, <3>5
  <2>4. CASE o.type # "Vote"
    BY <1>a, <2>1, <2>2, <2>4 DEF CoreEmitted, SameCore, CoreState
  <2> QED
    BY <2>3, <2>4
<1>11. CASE UNCHANGED vars
  BY <1>11, <1>b DEF vars
<1> QED
  BY <1>1, <1>2, <1>3, <1>4, <1>5, <1>6, <1>7, <1>8, <1>9, <1>10, <1>11, PeersAssumption
     DEF Next, Environment, EngineStep, LoopStep, CoreStep
-----------------------------------------------------------------------------
(* Authority lists and voters *)

LEMMA NextAuthorities ==
  TypeOK /\ AuthorityTracksChain /\ [Next]_vars => AuthorityTracksChain'
<1> SUFFICES ASSUME TypeOK, AuthorityTracksChain, [Next]_vars
             PROVE  AuthorityTracksChain'
  OBVIOUS
<1>1. CASE UNCHANGED chain
  BY <1>1 DEF chain, AuthorityTracksChain
<1>2. ASSUME NEW h \in 0 .. MaxHeight, JumpsTo(h)
      PROVE  AuthorityTracksChain'
  <2>1. height \in Nat /\ h \in Nat /\ h >= height /\ height' = h + 1
    BY <1>2, BoundsAssumption DEF JumpsTo, TypeOK, Heights
  <2>2. /\ authority'.authorities = AuthAt[h + 1]
        /\ authority'.authorities_old = authority.authorities
        /\ authority'.authority_h_old = height
    BY <1>2 DEF JumpsTo, UpdateAuthority
  <2> QED
    BY <2>1, <2>2 DEF AuthorityTracksChain
<1> QED
  BY <1>1, <1>2, ChainSteps

\* The lists that messages are checked against are the chain's.
THEOREM ListsTrackChain == Spec => []AuthorityTracksChain
<1>1. Init => AuthorityTracksChain
  BY ChainAssumption DEF Init, InitAuthority, AuthorityTracksChain
<1> QED
  BY <1>1, InitType, NextType, NextAuthorities, PTL DEF Spec

\* The core decides the engine's height, or one below it that the engine has
\* left without telling it; it runs only when this node is an authority of its
\* height; and it has no votes of a height the engine has not reached.
CoreBehind ==
  /\ core.height <= height
  /\ core.height < height => core.height <= authority.authority_h_old
  /\ core.authority = AuthAt[core.height]
  /\ core.running = consensus_power
  /\ consensus_power => Self \in ToSet(AuthAt[core.height])
  /\ \A v \in core.votes : v.height <= height

DrivenInv == TypeOK /\ AuthorityTracksChain /\ CoreBehind /\ CountedVotersAuthorised

LEMMA InitDriven == Init => DrivenInv
<1> SUFFICES ASSUME Init PROVE DrivenInv
  OBVIOUS
<1>1. AuthorityTracksChain
  BY ChainAssumption DEF Init, InitAuthority, AuthorityTracksChain
<1>2. CoreBehind
  <2>1. AuthAt[0] = <<>>
    BY ChainAssumption
  <2>2. /\ height = 0 /\ core.height = 0 /\ core.authority = <<>> /\ core.votes = {}
        /\ core.running = FALSE /\ consensus_power = FALSE
    BY DEF Init, InitCore
  <2>3. ~consensus_power
    BY <2>2
  <2>4. core.authority = AuthAt[core.height] /\ core.running = consensus_power
    BY <2>1, <2>2
  <2>5. core.height <= height /\ ~(core.height < height)
    BY <2>2
  <2>6. \A v \in core.votes : v.height <= height
    BY <2>2
  <2> QED
    BY <2>3, <2>4, <2>5, <2>6 DEF CoreBehind
<1>3. CountedVotersAuthorised
  BY DEF Init, InitCore, CountedVotersAuthorised
<1> QED
  BY <1>1, <1>2, <1>3, InitType DEF DrivenInv

\* A vote of the core's height that passes check_vote_sender is an authority's.
LEMMA TakenVoteAuthorised ==
  ASSUME height \in Heights, core \in CoreState, authority \in AuthorityManage,
         AuthorityTracksChain, CoreBehind,
         NEW m \in SignedVote, TakeVote(m), CheckVoteSender(m), m.vote.height = core.height
  PROVE  m.vote.voter \in ToSet(AuthAt[core.height])
<1>1. /\ height \in Nat /\ height <= MaxHeight + 1 /\ core.height \in Nat
      /\ authority.authority_h_old \in Nat /\ m.vote.height \in Nat
      /\ m.vote.height <= MaxHeight + 1
  BY BoundsAssumption DEF Heights, CoreState, AuthorityManage, SignedVote, Vote
<1>2. height > 0 /\ m.vote.height >= height - 1
  BY <1>1, BoundsAssumption, BuildAssumption DEF TakeVote, Obsolete
<1>3. authority.authority_h_old < height /\ core.height <= height
  BY <1>2 DEF AuthorityTracksChain, CoreBehind
<1>4. core.height # height => core.height = authority.authority_h_old
  BY <1>1, <1>2, <1>3 DEF CoreBehind
<1>5. AuthoritiesFor(authority, core.height) = AuthAt[core.height]
  BY <1>1, <1>3, <1>4 DEF AuthorityTracksChain, AuthoritiesFor
<1> QED
  BY <1>5 DEF CheckVoteSender

\* handle_signed_vote hands the core votes that it may count.
LEMMA TakeVoteDrives ==
  ASSUME height \in Heights, core \in CoreState, authority \in AuthorityManage,
         AuthorityTracksChain, CoreBehind, CountedVotersAuthorised,
         UNCHANGED chain, NEW m \in SignedVote, TakeVote(m)
  PROVE  CoreBehind' /\ CountedVotersAuthorised' /\ core'.height = core.height
<1>1. CASE core' = core
  BY <1>1 DEF chain, CoreBehind, CountedVotersAuthorised
<1>2. CASE CheckVoteSender(m) /\ core' = CoreVote(core, m.vote)
  <2>1. /\ core'.height = core.height /\ core'.authority = core.authority
        /\ core'.running = core.running /\ core'.votes \subseteq core.votes \cup {m.vote}
    BY <1>2, CoreInputsKeep
  <2>2. m.vote.height <= height
    BY DEF TakeVote
  <2>3. m.vote.height = core.height => m.vote.voter \in ToSet(AuthAt[core.height])
    BY <1>2, TakenVoteAuthorised
  <2>4. CoreBehind'
    BY <2>1, <2>2 DEF chain, CoreBehind
  <2>5. CountedVotersAuthorised'
    BY <2>1, <2>3 DEF CountedVotersAuthorised
  <2> QED
    BY <2>1, <2>4, <2>5
<1> QED
  BY <1>1, <1>2 DEF TakeVote

LEMMA NextDriven == DrivenInv /\ [Next]_vars => DrivenInv'
<1> SUFFICES ASSUME DrivenInv, [Next]_vars PROVE DrivenInv'
  OBVIOUS
<1> USE DEF DrivenInv
<1>1. TypeOK' /\ AuthorityTracksChain'
  BY NextType, NextAuthorities
<1>2. core \in CoreState /\ core.height \in Nat /\ height \in Nat
  BY BoundsAssumption DEF TypeOK, CoreState, Heights
<1>3. CASE UNCHANGED chain /\ SameCore
  <2>1. CoreBehind'
    BY <1>3 DEF chain, SameCore, CoreBehind
  <2>2. CountedVotersAuthorised'
    BY <1>3 DEF SameCore, CountedVotersAuthorised
  <2> QED
    BY <1>1, <2>1, <2>2
<1>4. CASE UNCHANGED chain /\ \E m \in SignedVote : TakeVote(m)
  <2>1. PICK m \in SignedVote : TakeVote(m)
    BY <1>4
  <2> QED
    BY <1>1, <1>2, <1>4, <2>1, TakeVoteDrives DEF TypeOK
<1>5. CASE UNCHANGED chain /\ Deciding(core) /\ \E v \in Vote :
             v.voter = Self /\ v.height = core.height /\ core' = CoreVote(core, v)
  <2>1. PICK v \in Vote : v.voter = Self /\ v.height = core.height /\ core' = CoreVote(core, v)
    BY <1>5
  <2>2. /\ core'.height = core.height /\ core'.authority = core.authority
        /\ core'.running = core.running /\ core'.votes \subseteq core.votes \cup {v}
    BY <1>2, <2>1, CoreInputsKeep
  <2>3. Self \in ToSet(AuthAt[core.height])
    BY <1>5 DEF Deciding, CoreBehind
  <2>4. CoreBehind'
    BY <1>5, <2>1, <2>2 DEF chain, CoreBehind
  <2>5. CountedVotersAuthorised'
    BY <2>1, <2>2, <2>3 DEF CountedVotersAuthorised
  <2> QED
    BY <1>1, <2>4, <2>5
<1>6. ASSUME NEW h \in 0 .. MaxHeight, JumpsTo(h)
      PROVE  DrivenInv'
  <2>1. /\ h \in Nat /\ h >= height /\ height' = h + 1
        /\ authority'.authority_h_old = height
    BY <1>6, BoundsAssumption DEF JumpsTo, UpdateAuthority
  <2>2. CASE UNCHANGED <<consensus_power, core>>
    <3>1. \A v \in core.votes : v.height \in Nat
      BY <1>2 DEF CoreState, Vote, Heights
    <3>2. CoreBehind'
      BY <1>2, <2>1, <2>2, <3>1 DEF CoreBehind
    <3> QED
      BY <1>1, <2>2, <3>2 DEF CountedVotersAuthorised
  <2>3. CASE /\ consensus_power' = (Self \in ToSet(AuthAt[h + 1]))
             /\ core' = CoreStatus(StartOrPause(Self \in ToSet(AuthAt[h + 1])), StatusOf(h))
    <3> DEFINE power == Self \in ToSet(AuthAt[h + 1])
               c1 == StartOrPause(power)
    <3>1. /\ c1.height = core.height /\ c1.votes = core.votes /\ c1.running = power
          /\ c1 \in CoreState
      <4>1. power \in BOOLEAN
        OBVIOUS
      <4> HIDE DEF power
      <4> QED
        BY <1>2, <4>1, CoreInputsType DEF StartOrPause, CoreRunning, CoreBehind, CoreState
    <3> HIDE DEF c1, power
    <3>2. StatusOf(h).height = h /\ StatusOf(h).authority_list = AuthAt[h + 1]
      BY StatusOfType
    <3>3. ~(h < c1.height)
      BY <1>2, <2>1, <3>1 DEF CoreBehind
    <3>4. /\ core'.height = h + 1 /\ core'.authority = AuthAt[h + 1]
          /\ core'.running = power /\ core'.votes = {v \in core.votes : v.height > h}
      BY <2>3, <3>1, <3>2, <3>3 DEF CoreStatus, CoreState, c1, power
    <3>5. core'.votes = {}
      <4>1. \A v \in core.votes : v.height \in Nat /\ v.height <= height
        BY <1>2 DEF CoreState, Vote, Heights, CoreBehind
      <4> QED
        BY <1>2, <2>1, <3>4, <4>1
    <3>6. CoreBehind'
      <4>1. consensus_power' = power
        BY <2>3 DEF power
      <4>2. power => Self \in ToSet(AuthAt[h + 1])
        BY DEF power
      <4> QED
        BY <2>1, <3>4, <3>5, <4>1, <4>2 DEF CoreBehind
    <3> QED
      BY <1>1, <3>5, <3>6 DEF CountedVotersAuthorised
  <2> QED
    BY <1>6, <2>2, <2>3 DEF JumpsTo
<1> QED
  BY <1>3, <1>4, <1>5, <1>6, ChainSteps

\* check_vote_sender lets no stranger's vote be counted, although the lists
\* change under the votes and set_height may fail.
THEOREM VotersAuthorised == Spec => []CountedVotersAuthorised
<1>1. DrivenInv => CountedVotersAuthorised
  BY DEF DrivenInv
<1> QED
  BY <1>1, InitDriven, NextDriven, PTL DEF Spec

-----------------------------------------------------------------------------
(* Commits *)

\* The commit that is appended to commits, as function.commit is called with it.
Committed(c) == [height |-> c.height, result |-> c.proposal, proof |-> Generated(c)]

\* commits only grows, by a commit that is not obsolete and that moves the
\* engine past it; and the height never falls.
LEMMA CommitSteps ==
  ASSUME TypeOK, [Next]_vars
  PROVE  \/ commits' = commits /\ height' >= height
         \/ \E c \in BftCommit :
              /\ Takes("Commit") /\ c = Head(bft_recv).commit
              /\ Provable(c) /\ c.height >= height /\ height' = c.height + 1
              /\ commits' = Append(commits, Committed(c))
<1> USE DEF loop, chain, blocks, caches, history
<1>a. height \in Nat
  BY BoundsAssumption DEF TypeOK, Heights
<1>b. \A h \in 0 .. MaxHeight : JumpsTo(h) => height' >= height
  BY <1>a, BoundsAssumption DEF JumpsTo
<1>1. ASSUME NEW m \in PeerVotes, ReceiveSignedVote(m)
      PROVE  UNCHANGED <<commits, height>>
  BY <1>1 DEF ReceiveSignedVote, Panic
<1>2. ASSUME NEW m \in PeerProposals, ReceiveSignedProposal(m)
      PROVE  UNCHANGED <<commits, height>>
  BY <1>2 DEF ReceiveSignedProposal, Panic
<1>3. ASSUME NEW h \in 0 .. MaxHeight, ReceiveStatus(h)
      PROVE  commits' = commits /\ height' >= height
  BY <1>3, <1>b, AcceptStatusJumps DEF ReceiveStatus
<1>4. ASSUME LoopStep PROVE UNCHANGED <<commits, height>>
  BY <1>4 DEF LoopStep, ReplayProposal, StartVotes, ReplayVote, StatusDone
<1>5. ASSUME AsyncStep PROVE UNCHANGED <<commits, height>>
  BY <1>5 DEF AsyncStep, ProcessVerifyResp, ProcessFeed
<1>6. ASSUME ProcessGetProposalRequest \/ ProcessProposal \/ ProcessVote
      PROVE  UNCHANGED <<commits, height>>
  BY <1>6 DEF ProcessGetProposalRequest, ProcessProposal, HandleProposal, ProcessVote, HandleVote
<1>7. CASE ProcessCommit
  <2> DEFINE c == Head(bft_recv).commit
  <2>1. Takes("Commit") /\ bft_recv \in Seq(CoreOutput) /\ bft_recv # <<>>
    BY <1>7 DEF ProcessCommit, Takes, TypeOK
  <2>2. Head(bft_recv) \in CoreOutput /\ Head(bft_recv).type = "Commit"
    BY <2>1 DEF Takes
  <2>3. c \in BftCommit
    BY <2>2 DEF CoreOutput
  <2>4. c.height \in 0 .. MaxHeight /\ c.height \in Nat
    BY <2>3, BoundsAssumption DEF BftCommit
  <2>5. RefuseCommit(c) \/ DoCommit(c)
    BY <1>7 DEF ProcessCommit
  <2>c. c = Head(bft_recv).commit
    OBVIOUS
  <2> HIDE DEF c
  <2>6. CASE UNCHANGED <<commits, height>>
    BY <1>a, <2>6
  <2>7. CASE /\ ~Outdated(c.height) /\ Provable(c) /\ commits' = Append(commits, Committed(c))
             /\ AcceptStatus(StatusOf(c.height))
    <3>1. height' = c.height + 1
      BY <2>4, <2>7, AcceptStatusJumps DEF JumpsTo
    <3>2. c.height >= height
      BY <1>a, <2>4, <2>7 DEF Outdated
    <3> QED
      BY <2>1, <2>3, <2>7, <2>c, <3>1, <3>2
  <2> QED
    BY <2>5, <2>6, <2>7 DEF RefuseCommit, DoCommit, Committed
<1>8. ASSUME CoreEmit PROVE UNCHANGED <<commits, height>>
  BY <1>8 DEF CoreEmit
<1>9. ASSUME UNCHANGED vars PROVE UNCHANGED <<commits, height>>
  BY <1>9 DEF vars
<1> QED
  BY <1>a, <1>1, <1>2, <1>3, <1>4, <1>5, <1>6, <1>7, <1>8, <1>9
     DEF Next, Environment, EngineStep, CoreStep

LEMMA NextCommitsIncrease ==
  TypeOK /\ CommitsIncrease /\ [Next]_vars => CommitsIncrease'
<1> SUFFICES ASSUME TypeOK, CommitsIncrease, [Next]_vars
             PROVE  CommitsIncrease'
  OBVIOUS
<1>1. commits \in Seq(Commit) /\ height \in Nat
  BY BoundsAssumption DEF TypeOK, Heights
<1>2. \A i \in DOMAIN commits : commits[i].height \in Nat
  <2> SUFFICES ASSUME NEW i \in DOMAIN commits PROVE commits[i].height \in Nat
    OBVIOUS
  <2>1. commits[i] \in Commit
    BY <1>1
  <2> QED
    BY <2>1, BoundsAssumption DEF Commit, Heights
<1>3. CASE commits' = commits /\ height' >= height
  <2>1. height' \in Nat
    BY NextType, BoundsAssumption DEF TypeOK, Heights
  <2> QED
    BY <1>1, <1>2, <1>3, <2>1 DEF CommitsIncrease
<1>4. ASSUME NEW c \in BftCommit, c.height >= height, height' = c.height + 1,
             commits' = Append(commits, Committed(c))
      PROVE  CommitsIncrease'
  <2>1. c.height \in Nat
    BY BoundsAssumption DEF BftCommit
  <2>2. /\ DOMAIN commits = 1 .. Len(commits) /\ Len(commits) \in Nat
        /\ DOMAIN commits' = 1 .. Len(commits) + 1
        /\ \A i \in 1 .. Len(commits) : commits'[i] = commits[i]
        /\ commits'[Len(commits) + 1] = Committed(c)
    BY <1>1, <1>4
  <2>3. Committed(c).height = c.height
    BY DEF Committed
  <2>4. \A i \in 1 .. Len(commits) : commits[i].height < c.height
    BY <1>1, <1>2, <1>4, <2>1, <2>2 DEF CommitsIncrease
  <2>5. \A i \in DOMAIN commits' : commits'[i].height < height'
    BY <1>2, <1>4, <2>1, <2>2, <2>3, <2>4
  <2>6. ASSUME NEW i \in DOMAIN commits', NEW j \in DOMAIN commits', i < j
        PROVE  commits'[i].height < commits'[j].height
    <3>1. CASE j = Len(commits) + 1
      BY <2>2, <2>3, <2>4, <2>6, <3>1
    <3>2. CASE j # Len(commits) + 1
      BY <2>2, <2>6, <3>2 DEF CommitsIncrease
    <3> QED
      BY <3>1, <3>2
  <2> QED
    BY <2>5, <2>6 DEF CommitsIncrease
<1> QED
  BY <1>3, <1>4, CommitSteps

\* The application is never asked to commit a height twice, nor a lower one
\* after a higher one.
THEOREM CommitHeightsIncrease == Spec => []CommitsIncrease
<1>1. Init => CommitsIncrease
  BY DEF Init, CommitsIncrease
<1> QED
  BY <1>1, InitType, NextType, NextCommitsIncrease, PTL DEF Spec

-----------------------------------------------------------------------------
(* The proofs of commits *)

\* A quorum of the authorities of its height, and no one else, precommitted.
Supported(c) ==
  LET voters == {v.voter : v \in c.lock_votes}
  IN  TwoThirds(voters, Len(AuthAt[c.height])) /\ voters \subseteq ToSet(AuthAt[c.height])

\* What waits in bft_recv stays true when the core goes on to other heights.
SoundOutputs ==
  \A i \in DOMAIN bft_recv :
    /\ bft_recv[i].type = "Vote" => bft_recv[i].vote.voter = Self
    /\ bft_recv[i].type = "Commit" => Supported(bft_recv[i].commit)

\* Only votes whose signature was checked, or made, are collected.
HonestCollector == \A e \in votes.pairs : e.signed.signature = e.signed.vote.voter

ProofInv == DrivenInv /\ SoundOutputs /\ HonestCollector /\ CommitsVerify

\* bft_recv is a queue that the core fills.
LEMMA OutputSteps ==
  ASSUME [Next]_vars
  PROVE  \/ bft_recv' = bft_recv
         \/ bft_recv # <<>> /\ bft_recv' = Tail(bft_recv)
         \/ \E o \in CoreOutputs(core) : bft_recv' = Append(bft_recv, o)
<1> DEFINE Kept == bft_recv' = bft_recv
           Taken == bft_recv # <<>> /\ bft_recv' = Tail(bft_recv)
<1>1. ASSUME NEW m \in PeerVotes, ReceiveSignedVote(m) PROVE Kept
  BY <1>1 DEF ReceiveSignedVote, Panic
<1>2. ASSUME NEW m \in PeerProposals, ReceiveSignedProposal(m) PROVE Kept
  BY <1>2 DEF ReceiveSignedProposal, Panic
<1>3. ASSUME NEW h \in 0 .. MaxHeight, ReceiveStatus(h) PROVE Kept
  BY <1>3 DEF ReceiveStatus
<1>4. ASSUME LoopStep PROVE Kept
  BY <1>4 DEF LoopStep, ReplayProposal, StartVotes, ReplayVote, StatusDone
<1>5. ASSUME AsyncStep PROVE Kept
  BY <1>5 DEF AsyncStep, ProcessVerifyResp, ProcessFeed
<1>6. ASSUME EngineStep, ~LoopStep, ~AsyncStep PROVE Taken
  BY <1>6 DEF EngineStep, CoreStep, ProcessGetProposalRequest, ProcessProposal, HandleProposal,
         ProcessVote, HandleVote,
              ProcessCommit, Takes
<1>7. ASSUME CoreEmit PROVE \E o \in CoreOutputs(core) : bft_recv' = Append(bft_recv, o)
  BY <1>7 DEF CoreEmit
<1>8. ASSUME UNCHANGED vars PROVE Kept
  BY <1>8 DEF vars
<1> QED
  BY <1>1, <1>2, <1>3, <1>4, <1>5, <1>6, <1>7, <1>8 DEF Next, Environment

\* What the core emits is its own vote, or is decided by the votes it counted.
LEMMA EmittedSound ==
  ASSUME DrivenInv, NEW o \in CoreOutputs(core)
  PROVE  /\ o.type = "Vote" => o.vote.voter = Self
         /\ o.type = "Commit" => Supported(o.commit)
<1>1. Deciding(core)
  BY DEF CoreOutputs
<1>2. ASSUME o.type = "Vote" PROVE o.vote.voter = Self
  <2>1. o \in VoteOutputs(core)
    BY <1>1, <1>2 DEF CoreOutputs, RequestOutputs, ProposalOutputs, ProposalOutput, CommitOutputs
  <2> QED
    BY <2>1 DEF VoteOutputs
<1>3. ASSUME o.type = "Commit" PROVE Supported(o.commit)
  <2>1. o \in CommitOutputs(core)
    BY <1>1, <1>3 DEF CoreOutputs, RequestOutputs, ProposalOutputs, ProposalOutput, VoteOutputs
  <2>2. PICK q \in Rounds \X Contents(core) :
          /\ HasQuorum(core, "Precommit", q[1], q[2])
          /\ o.commit = [height |-> core.height, round |-> q[1], proposal |-> q[2],
                         lock_votes |-> VotesFor(core, "Precommit", q[1], q[2])]
    BY <2>1 DEF CommitOutputs
  <2> DEFINE voters == {v.voter : v \in VotesFor(core, "Precommit", q[1], q[2])}
  <2>3. TwoThirds(voters, Len(AuthAt[core.height]))
    BY <2>2 DEF HasQuorum, DrivenInv, CoreBehind
  <2>4. voters \subseteq ToSet(AuthAt[core.height])
    BY DEF VotesFor, DrivenInv, CountedVotersAuthorised
  <2> QED
    BY <2>2, <2>3, <2>4 DEF Supported
<1> QED
  BY <1>2, <1>3

LEMMA NextSoundOutputs ==
  ASSUME DrivenInv, SoundOutputs, [Next]_vars
  PROVE  SoundOutputs'
<1>1. bft_recv \in Seq(CoreOutput)
  BY DEF DrivenInv, TypeOK
<1>2. CASE bft_recv' = bft_recv
  BY <1>2 DEF SoundOutputs, Supported
<1>3. CASE bft_recv # <<>> /\ bft_recv' = Tail(bft_recv)
  <2>1. \A i \in DOMAIN bft_recv' : i + 1 \in DOMAIN bft_recv /\ bft_recv'[i] = bft_recv[i + 1]
    BY <1>1, <1>3
  <2> QED
    BY <2>1 DEF SoundOutputs, Supported
<1>4. ASSUME NEW o \in CoreOutputs(core), bft_recv' = Append(bft_recv, o)
      PROVE  SoundOutputs'
  <2>1. \A i \in DOMAIN bft_recv' : (i \in DOMAIN bft_recv /\ bft_recv'[i] = bft_recv[i])
                                     \/ bft_recv'[i] = o
    BY <1>1, <1>4
  <2> QED
    BY <2>1, EmittedSound DEF SoundOutputs, Supported
<1> QED
  BY <1>2, <1>3, <1>4, OutputSteps

LEMMA NextHonestCollector ==
  ASSUME DrivenInv, SoundOutputs, HonestCollector, [Next]_vars
  PROVE  HonestCollector'
<1> USE DEF loop, chain, blocks, caches, history
<1>a. votes \in VoteCollector
  BY DEF DrivenInv, TypeOK
<1>b. votes' = votes => HonestCollector'
  BY DEF HonestCollector
<1>c. \A h, r : votes' = Looked(votes, h, r) => HonestCollector'
  BY <1>a, CollectorGrows DEF HonestCollector
<1>d. ASSUME NEW h, NEW r, NEW t, NEW S, votes' = AddVotes(votes, h, r, t, S),
             \A m \in S : m.signature = m.vote.voter
      PROVE  HonestCollector'
  BY <1>d, CollectorGrows DEF HonestCollector
<1>e. \A m : TakeVote(m) => HonestCollector'
  <2> SUFFICES ASSUME NEW m, TakeVote(m) PROVE HonestCollector'
    OBVIOUS
  <2>1. \A x \in {m} : x.signature = x.vote.voter
    BY DEF TakeVote
  <2> QED
    BY <2>1, <1>d DEF TakeVote
<1>f. \A sp \in SignedProposal, known \in SUBSET Hashes :
        HandleSignedProposal(sp, known) => HonestCollector'
  <2> SUFFICES ASSUME NEW sp \in SignedProposal, NEW known \in SUBSET Hashes,
                      HandleSignedProposal(sp, known)
               PROVE  HonestCollector'
    OBVIOUS
  <2>1. \A x \in CollectedLockVotes(sp.proposal) : x.signature = x.vote.voter
    <3> DEFINE p == sp.proposal
               passing == {k \in DOMAIN p.lock_votes :
                             LockVotePasses(p, k) /\ \A j \in 1 .. k - 1 : LockVoterIsNew(p, j)}
    <3> SUFFICES ASSUME NEW i \in passing
                 PROVE  p.lock_votes[i].signature = p.lock_votes[i].vote.voter
      BY DEF CollectedLockVotes
    <3>1. i \in 1 .. i
      <4>1. p.lock_votes \in Seq(SignedVote)
        BY DEF SignedProposal, Proposal
      <4> QED
        BY <4>1
    <3> QED
      BY <3>1 DEF LockVotePasses, CheckSignedVote
  <2> QED
    BY <2>1, <1>b, <1>d DEF HandleSignedProposal, CollectLockVotes
<1>1. ASSUME NEW m \in PeerVotes, ReceiveSignedVote(m) PROVE HonestCollector'
  BY <1>1, <1>b, <1>e DEF ReceiveSignedVote, Panic
<1>2. ASSUME NEW m \in PeerProposals, ReceiveSignedProposal(m) PROVE HonestCollector'
  <2>1. m.signed \in SignedProposal /\ block_origin_cache \cup {m.block} \in SUBSET Hashes
    BY PeersAssumption DEF ProposalMsg, DrivenInv, TypeOK
  <2> QED
    BY <1>2, <2>1, <1>b, <1>f DEF ReceiveSignedProposal, Panic
<1>3. ASSUME NEW h \in 0 .. MaxHeight, ReceiveStatus(h) PROVE HonestCollector'
  BY <1>3, <1>b DEF ReceiveStatus
<1>4. ASSUME LoopStep PROVE HonestCollector'
  <2>1. CASE ReplayProposal
    <3>1. iter \in Seq(ProposalMsg) /\ iter # <<>> /\ block_origin_cache \in SUBSET Hashes
      BY <2>1 DEF ReplayProposal, DrivenInv, TypeOK
    <3>2. Head(iter) \in ProposalMsg
      BY <3>1
    <3>3. Head(iter).signed \in SignedProposal
      BY <3>2 DEF ProposalMsg
    <3> QED
      BY <2>1, <3>1, <3>3, <1>f DEF ReplayProposal
  <2> QED
    BY <1>4, <2>1, <1>b, <1>e DEF LoopStep, StartVotes, ReplayVote, StatusDone
<1>5. ASSUME AsyncStep PROVE HonestCollector'
  BY <1>5, <1>b DEF AsyncStep, ProcessVerifyResp, ProcessFeed
<1>6. ASSUME ProcessGetProposalRequest \/ ProcessProposal \/ ProcessCommit PROVE HonestCollector'
  BY <1>6, <1>b, <1>c DEF ProcessGetProposalRequest, ProcessProposal, HandleProposal, ProcessCommit,
                          RefuseCommit, DoCommit
<1>7. ASSUME ProcessVote PROVE HonestCollector'
  <2> DEFINE v == Head(bft_recv).vote
             sv == [vote |-> v, signature |-> Self]
  <2>1. v.voter = Self
    <3>1. bft_recv \in Seq(CoreOutput) /\ bft_recv # <<>> /\ Head(bft_recv).type = "Vote"
      BY <1>7 DEF ProcessVote, HandleVote, Takes, DrivenInv, TypeOK
    <3>2. 1 \in DOMAIN bft_recv /\ Head(bft_recv) = bft_recv[1]
      BY <3>1
    <3> QED
      BY <3>1, <3>2 DEF SoundOutputs
  <2>2. \A x \in {sv} : x.signature = x.vote.voter
    BY <2>1
  <2>3. votes' = votes \/ votes' = AddVotes(votes, v.height, v.round, v.vote_type, {sv})
    BY <1>7 DEF ProcessVote, HandleVote
  <2> QED
    BY <2>2, <2>3, <1>b, <1>d
<1>8. ASSUME CoreEmit PROVE HonestCollector'
  BY <1>8, <1>b DEF CoreEmit
<1>9. ASSUME UNCHANGED vars PROVE HonestCollector'
  BY <1>9, <1>b DEF vars
<1> QED
  BY <1>1, <1>2, <1>3, <1>4, <1>5, <1>6, <1>7, <1>8, <1>9
     DEF Next, Environment, EngineStep, CoreStep

\* generate_proof finds, for each voter, the signature that recovers to it.
LEMMA GeneratedSound ==
  ASSUME HonestCollector, NEW c, Provable(c)
  PROVE  LET pf == Generated(c)
         IN  /\ pf.height = c.height /\ pf.block_hash = c.proposal
             /\ DOMAIN pf.precommit_votes = {v.voter : v \in c.lock_votes}
             /\ \A a \in DOMAIN pf.precommit_votes : pf.precommit_votes[a] = a
<1> DEFINE pf == Generated(c)
           voters == {v.voter : v \in c.lock_votes}
<1>1. pf.height = c.height /\ pf.block_hash = c.proposal
  BY DEF Generated
<1>2. DOMAIN pf.precommit_votes = voters
  BY DEF Generated
<1>3. ASSUME NEW a \in voters PROVE pf.precommit_votes[a] = a
  <2> DEFINE v == CHOOSE w \in c.lock_votes : w.voter = a
             s == CHOOSE x \in VoteSet(votes, c.height, c.round, "Precommit") : x.vote = v
  <2>1. v \in c.lock_votes /\ v.voter = a
    BY <1>3
  <2>2. pf.precommit_votes[a] = s.signature
    BY <1>3 DEF Generated, SignatureOf
  <2> HIDE DEF v
  <2>3. \E x \in VoteSet(votes, c.height, c.round, "Precommit") : x.vote = v
    BY <2>1 DEF Provable, AllHeld, Holds, VoteSet
  <2>4. s \in VoteSet(votes, c.height, c.round, "Precommit") /\ s.vote = v
    BY <2>3
  <2> HIDE DEF s
  <2>5. s.signature = s.vote.voter
    BY <2>4 DEF VoteSet, HonestCollector
  <2> QED
    BY <2>1, <2>2, <2>4, <2>5
<1> QED
  BY <1>1, <1>2, <1>3

\* A commit that a quorum supports verifies.
LEMMA CommittedVerifies ==
  ASSUME commits \in Seq(Commit), HonestCollector, CommitsVerify,
         NEW c, Supported(c), Provable(c), commits' = Append(commits, Committed(c))
  PROVE  CommitsVerify'
<1> DEFINE d == Committed(c)
           pf == d.proof
           list == AuthAt[d.height]
<1>1. d.height = c.height /\ d.result = c.proposal /\ pf = Generated(c)
  BY DEF Committed
<1>2. /\ pf.height = d.height /\ pf.block_hash = d.result
      /\ TwoThirds(DOMAIN pf.precommit_votes, Len(list))
      /\ \A a \in DOMAIN pf.precommit_votes :
           a \in ToSet(list) /\ pf.precommit_votes[a] = a
  BY <1>1, GeneratedSound DEF Supported
<1> HIDE DEF d
<1>3. \A i \in DOMAIN commits' : (i \in DOMAIN commits /\ commits'[i] = commits[i])
                                  \/ commits'[i] = d
  BY DEF d
<1> QED
  BY <1>2, <1>3 DEF CommitsVerify

LEMMA NextCommitsVerify ==
  ASSUME ProofInv, [Next]_vars
  PROVE  CommitsVerify'
<1> USE DEF ProofInv
<1>1. CASE commits' = commits
  BY <1>1 DEF CommitsVerify
<1>2. ASSUME NEW c \in BftCommit, Takes("Commit"), c = Head(bft_recv).commit, Provable(c),
             commits' = Append(commits, Committed(c))
      PROVE  CommitsVerify'
  <2>1. commits \in Seq(Commit) /\ bft_recv \in Seq(CoreOutput) /\ bft_recv # <<>>
        /\ Head(bft_recv).type = "Commit"
    BY <1>2 DEF Takes, DrivenInv, TypeOK
  <2>2. 1 \in DOMAIN bft_recv /\ Head(bft_recv) = bft_recv[1]
    BY <2>1
  <2>3. Supported(c)
    BY <1>2, <2>1, <2>2 DEF SoundOutputs
  <2> QED
    BY <1>2, <2>1, <2>3, CommittedVerifies
<1> QED
  BY <1>1, <1>2, CommitSteps DEF DrivenInv

\* The proof handed to the application with each commit convinces whoever knows
\* the chain's authorities, although check_signed_vote collects lock votes
\* unseen and lists change between the core's decision and its execution.
THEOREM CommitProofsVerify == Spec => []CommitsVerify
<1>1. Init => ProofInv
  BY InitDriven DEF Init, EmptyCollector, ProofInv, SoundOutputs, HonestCollector, CommitsVerify
<1>2. ProofInv /\ [Next]_vars => ProofInv'
  BY NextDriven, NextSoundOutputs, NextHonestCollector, NextCommitsVerify DEF ProofInv
<1>3. ProofInv => CommitsVerify
  BY DEF ProofInv
<1> QED
  BY <1>1, <1>2, <1>3, PTL DEF Spec

-----------------------------------------------------------------------------
(* The core in step *)

LEMMA NextCoreHeight ==
  ASSUME "set_height" \notin Faults, DrivenInv, core.height = height, [Next]_vars
  PROVE  core'.height = height'
<1>1. core \in CoreState /\ core.height \in Nat /\ height \in Nat
  <2>1. core \in CoreState /\ height \in Heights
    BY DEF DrivenInv, TypeOK
  <2>2. height \in Nat
    BY <2>1, BoundsAssumption DEF Heights
  <2> QED
    BY <2>1, <2>2
<1>2. CASE UNCHANGED chain /\ SameCore
  BY <1>2 DEF chain, SameCore
<1>3. ASSUME UNCHANGED chain, NEW v, core' = CoreVote(core, v)
      PROVE  core'.height = height'
  BY <1>1, <1>3, CoreInputsKeep DEF chain
<1>4. ASSUME NEW h \in 0 .. MaxHeight, JumpsTo(h)
      PROVE  core'.height = height'
  <2> DEFINE power == Self \in ToSet(AuthAt[h + 1])
             c1 == StartOrPause(power)
  <2>1. c1.height = core.height /\ c1 \in CoreState
    <3>1. power \in BOOLEAN
      OBVIOUS
    <3> HIDE DEF power
    <3> QED
      BY <1>1, <3>1, CoreInputsType DEF StartOrPause, CoreRunning, CoreState
  <2>2. core' = CoreStatus(c1, StatusOf(h)) /\ height' = h + 1 /\ h >= height
    BY <1>4 DEF JumpsTo
  <2> HIDE DEF c1
  <2>3. StatusOf(h).height = h /\ ~(h < c1.height)
    BY <1>1, <2>1, <2>2, StatusOfType
  <2> QED
    BY <2>1, <2>2, <2>3 DEF CoreStatus, CoreState
<1>5. ASSUME NEW m \in SignedVote, TakeVote(m)
      PROVE  core' = core \/ core' = CoreVote(core, m.vote)
  BY <1>5 DEF TakeVote
<1> QED
  <2>1. CASE UNCHANGED chain /\ \E m \in SignedVote : TakeVote(m)
    <3>1. PICK m \in SignedVote : TakeVote(m)
      BY <2>1
    <3>2. core' = core => core'.height = height'
      BY <2>1 DEF chain
    <3> QED
      BY <1>3, <1>5, <2>1, <3>1, <3>2
  <2>2. CASE UNCHANGED chain /\ \E v \in Vote : core' = CoreVote(core, v)
    BY <1>3, <2>2
  <2> QED
    BY <1>2, <1>4, <2>1, <2>2, ChainSteps DEF DrivenInv

\* Unless set_height fails, Start, Pause and Status keep the core where the
\* engine is.
THEOREM CoreFollows ==
  ASSUME "set_height" \notin Faults
  PROVE  Spec => []CoreInStep
<1> DEFINE Power == consensus_power = (Self \in ToSet(AuthAt[height]))
           Inv == DrivenInv /\ core.height = height /\ Power
<1>1. Init => Inv
  <2> SUFFICES ASSUME Init PROVE Inv
    OBVIOUS
  <2>1. ~(Self \in ToSet(AuthAt[0])) /\ ~consensus_power /\ height = 0 /\ core.height = 0
    BY ChainAssumption DEF Init, InitCore, ToSet
  <2>2. Power
    <3>1. (Self \in ToSet(AuthAt[height])) = FALSE
      BY <2>1
    <3>2. consensus_power = FALSE
      BY DEF Init
    <3> QED
      BY <3>1, <3>2, Zenon
  <2> QED
    BY <2>1, <2>2, InitDriven
<1>2. Inv /\ [Next]_vars => Inv'
  <2> SUFFICES ASSUME Inv, [Next]_vars PROVE Inv'
    OBVIOUS
  <2>1. DrivenInv' /\ core'.height = height'
    BY NextDriven, NextCoreHeight
  <2>2. CASE UNCHANGED chain
    BY <2>1, <2>2 DEF chain
  <2>3. ASSUME NEW h \in 0 .. MaxHeight, JumpsTo(h) PROVE Inv'
    BY <2>1, <2>3 DEF JumpsTo
  <2> QED
    BY <2>2, <2>3, ChainSteps DEF DrivenInv
<1>3. Inv => CoreInStep
  BY DEF DrivenInv, AuthorityTracksChain, CoreBehind, CoreInStep
<1> QED
  BY <1>1, <1>2, <1>3, PTL DEF Spec

-----------------------------------------------------------------------------
(* Verdicts *)

\* The core has the verdict on b, or it is on its way.
Answered(c, queue, b) ==
  \/ \E d \in c.verdicts : d.proposal = b
  \/ \E i \in DOMAIN queue : queue[i].type = "VerifyResp" /\ queue[i].proposal = b

LEMMA AnsweredGrows ==
  ASSUME NEW c, NEW d, NEW queue \in Seq(AsyncMsg), NEW x, NEW b,
         Answered(c, queue, b), c.verdicts \subseteq d.verdicts
  PROVE  Answered(d, queue, b) /\ Answered(d, Append(queue, x), b)
<1>1. \A i \in DOMAIN queue : i \in DOMAIN Append(queue, x) /\ Append(queue, x)[i] = queue[i]
  OBVIOUS
<1> QED
  BY <1>1 DEF Answered

\* A proposal is handed over with its verdict, or with its block on the way to
\* check_proposal, whose answer comes into async_recv.
LEMMA HandleSignedProposalAnswers ==
  ASSUME TypeOK, VerdictOwed, NEW sp \in SignedProposal, NEW known \in SUBSET Hashes,
         HandleSignedProposal(sp, known)
  PROVE  VerdictOwed'
<1> DEFINE p == sp.proposal
           asks == Justified(sp) /\ ~Late(p) /\ ~Verified(p.hash) /\ p.hash \in known
           c1 == CoreProposal(core, ToBftProposal(p))
           resp(pass) == [type |-> "VerifyResp", proposal |-> p.hash, is_pass |-> pass]
<1>1. core \in CoreState /\ async_recv \in Seq(AsyncMsg)
  BY DEF TypeOK
<1>2. \A b \in core.proposals : Answered(core, async_recv, b)
  BY DEF VerdictOwed, Answered
<1>3. c1.proposals \subseteq core.proposals \cup {p.hash} /\ c1.verdicts = core.verdicts
  BY <1>1 DEF CoreProposal, ToBftProposal, CoreState
<1>4. \/ asks /\ \E pass : async_recv' = Append(async_recv, resp(pass))
      \/ ~asks /\ async_recv' = async_recv
  BY DEF HandleSignedProposal
<1>5. core' = core \/ (Handed(sp, known) /\ core' = WithVerdict(c1, p))
  BY DEF HandleSignedProposal
<1>6. ASSUME core.verdicts \subseteq core'.verdicts, NEW b \in core.proposals
      PROVE  Answered(core', async_recv', b)
  <2>1. Answered(core, async_recv, b)
    BY <1>2, <1>6
  <2>2. \A x : Answered(core', async_recv, b) /\ Answered(core', Append(async_recv, x), b)
    BY <1>1, <1>6, <2>1, AnsweredGrows
  <2> HIDE DEF asks, resp
  <2> QED
    BY <1>4, <2>2
<1>7. CASE core' = core
  BY <1>6, <1>7 DEF VerdictOwed, Answered
<1>8. CASE Handed(sp, known) /\ core' = WithVerdict(c1, p)
  <2>1. core'.proposals = c1.proposals /\ c1.verdicts \subseteq core'.verdicts
    <3>1. c1 \in CoreState
      <4>1. p \in Proposal
        BY DEF SignedProposal
      <4> HIDE DEF p
      <4> QED
        BY <1>1, <4>1, ToBftProposalType, CoreInputsType
    <3> HIDE DEF c1
    <3>2. \A q : LET d == CoreVerifyResp(c1, p.hash, q)
                 IN  d.proposals = c1.proposals /\ c1.verdicts \subseteq d.verdicts
      BY <3>1 DEF CoreVerifyResp, CoreState
    <3> QED
      BY <1>8, <3>2 DEF WithVerdict
  <2>2. Answered(core', async_recv', p.hash)
    <3>1. CASE asks
      <4>1. PICK pass : async_recv' = Append(async_recv, resp(pass))
        BY <1>4, <3>1
      <4>2. /\ Len(async_recv) + 1 \in DOMAIN async_recv'
            /\ async_recv'[Len(async_recv) + 1] = resp(pass)
        BY <1>1, <4>1
      <4> QED
        BY <4>2 DEF Answered
    <3>2. CASE ~asks
      <4>1. Late(p) \/ Verified(p.hash)
        BY <1>8, <3>2 DEF Handed, BlockKnown
      <4>2. \E q : core' = CoreVerifyResp(c1, p.hash, q)
        BY <1>8, <4>1 DEF WithVerdict
      <4>3. c1 \in CoreState
        <5>1. p \in Proposal
          BY DEF SignedProposal
        <5> HIDE DEF p
        <5> QED
          BY <1>1, <5>1, ToBftProposalType, CoreInputsType
      <4> HIDE DEF c1
      <4>4. \E d \in core'.verdicts : d.proposal = p.hash
        <5>1. PICK q : core' = CoreVerifyResp(c1, p.hash, q)
          BY <4>2
        <5>2. core'.verdicts = c1.verdicts \cup {[proposal |-> p.hash, is_pass |-> q]}
          BY <4>3, <5>1 DEF CoreVerifyResp, CoreState
        <5>3. [proposal |-> p.hash, is_pass |-> q] \in core'.verdicts
          BY <5>2
        <5> QED
          BY <5>3
      <4> QED
        BY <4>4 DEF Answered
    <3> QED
      BY <3>1, <3>2
  <2>3. \A b \in core'.proposals : Answered(core', async_recv', b)
    <3> HIDE DEF c1, p
    <3> QED
      BY <1>3, <1>6, <2>1, <2>2
  <2> QED
    BY <2>3 DEF VerdictOwed, Answered
<1> QED
  BY <1>5, <1>7, <1>8

\* The inputs of the core other than a proposal and a status ask for no verdict.
LEMMA OtherInputsAskNothing ==
  ASSUME NEW c \in CoreState
  PROVE  /\ \A q : LET d == CoreRunning(c, q)
                  IN  d.proposals = c.proposals /\ c.verdicts = d.verdicts
         /\ \A v : LET d == CoreVote(c, v)
                  IN  d.proposals = c.proposals /\ c.verdicts = d.verdicts
         /\ \A h, x : LET d == CoreFeed(c, h, x)
                     IN  d.proposals = c.proposals /\ c.verdicts = d.verdicts
         /\ \A o : LET d == CoreEmitted(c, o)
                  IN  d.proposals = c.proposals /\ c.verdicts = d.verdicts
<1>1. \A q : LET d == CoreRunning(c, q)
             IN  d.proposals = c.proposals /\ c.verdicts = d.verdicts
  BY DEF CoreState, CoreRunning
<1>2. \A v : LET d == CoreVote(c, v)
             IN  d.proposals = c.proposals /\ c.verdicts = d.verdicts
  BY DEF CoreState, CoreVote
<1>3. \A h, x : LET d == CoreFeed(c, h, x)
                IN  d.proposals = c.proposals /\ c.verdicts = d.verdicts
  BY DEF CoreState, CoreFeed
<1>4. \A o : LET d == CoreEmitted(c, o)
             IN  d.proposals = c.proposals /\ c.verdicts = d.verdicts
  BY <1>2 DEF CoreState, CoreEmitted
<1> QED
  BY <1>1, <1>2, <1>3, <1>4

\* A status leaves the core nothing it was proposed, or leaves it alone.
LEMMA AcceptStatusAsksNothing ==
  ASSUME TypeOK, NEW st, AcceptStatus(st)
  PROVE  \/ core' = core
         \/ core'.proposals = {}
         \/ core'.proposals = core.proposals /\ core'.verdicts = core.verdicts
<1> DEFINE power == Self \in ToSet(st.authority_list)
           c1 == StartOrPause(power)
<1>1. c1 \in CoreState /\ c1.proposals = core.proposals /\ c1.verdicts = core.verdicts
  <2>1. core \in CoreState /\ power \in BOOLEAN
    BY DEF TypeOK
  <2> HIDE DEF power
  <2> QED
    BY <2>1, CoreInputsType, OtherInputsAskNothing DEF StartOrPause
<1>2. core' = core \/ core' = CoreStatus(c1, st)
  BY DEF AcceptStatus
<1> HIDE DEF c1
<1> QED
  BY <1>1, <1>2 DEF CoreStatus, CoreState

LEMMA NextVerdictOwed == TypeOK /\ VerdictOwed /\ [Next]_vars => VerdictOwed'
<1> SUFFICES ASSUME TypeOK, VerdictOwed, [Next]_vars
             PROVE  VerdictOwed'
  OBVIOUS
<1> USE DEF loop, chain, blocks, caches, history
<1>a. core \in CoreState /\ async_recv \in Seq(AsyncMsg)
  BY DEF TypeOK
<1>b. \A b \in core.proposals : Answered(core, async_recv, b)
  BY DEF VerdictOwed, Answered
\* Nothing more is proposed, and no answer is taken.
<1>c. ASSUME core'.proposals \subseteq core.proposals,
             core'.proposals # {} => core.verdicts \subseteq core'.verdicts,
             async_recv' = async_recv \/ \E x : async_recv' = Append(async_recv, x)
      PROVE  VerdictOwed'
  <2>1. \A b \in core'.proposals : Answered(core', async_recv', b)
    <3> SUFFICES ASSUME NEW b \in core'.proposals PROVE Answered(core', async_recv', b)
      OBVIOUS
    <3>1. Answered(core, async_recv, b) /\ core.verdicts \subseteq core'.verdicts
      BY <1>b, <1>c
    <3>2. \A x : Answered(core', async_recv, b) /\ Answered(core', Append(async_recv, x), b)
      BY <1>a, <3>1, AnsweredGrows
    <3> QED
      BY <1>c, <3>2
  <2> QED
    BY <2>1 DEF VerdictOwed, Answered
<1>d. UNCHANGED core /\ UNCHANGED async_recv => VerdictOwed'
  BY <1>c
<1>e. ASSUME UNCHANGED async_recv, NEW st, AcceptStatus(st)
      PROVE  VerdictOwed'
  BY <1>c, <1>e, AcceptStatusAsksNothing
<1>f. ASSUME UNCHANGED async_recv, NEW m, TakeVote(m)
      PROVE  VerdictOwed'
  <2>1. core' = core \/ core' = CoreVote(core, m.vote)
    BY <1>f DEF TakeVote
  <2> QED
    BY <1>a, <1>c, <1>f, <2>1, OtherInputsAskNothing
<1>1. ASSUME NEW m \in PeerVotes, ReceiveSignedVote(m) PROVE VerdictOwed'
  BY <1>1, <1>d, <1>f DEF ReceiveSignedVote, Panic
<1>2. ASSUME NEW m \in PeerProposals, ReceiveSignedProposal(m) PROVE VerdictOwed'
  <2>1. m.signed \in SignedProposal /\ block_origin_cache \cup {m.block} \in SUBSET Hashes
    BY PeersAssumption DEF ProposalMsg, TypeOK
  <2> QED
    BY <1>2, <1>d, <2>1, HandleSignedProposalAnswers DEF ReceiveSignedProposal, Panic
<1>3. ASSUME NEW h \in 0 .. MaxHeight, ReceiveStatus(h) PROVE VerdictOwed'
  BY <1>3, <1>e DEF ReceiveStatus
<1>4. ASSUME ReplayProposal PROVE VerdictOwed'
  <2>1. iter \in Seq(ProposalMsg) /\ iter # <<>> /\ block_origin_cache \in SUBSET Hashes
    BY <1>4 DEF ReplayProposal, TypeOK
  <2>2. Head(iter) \in ProposalMsg
    BY <2>1
  <2>3. Head(iter).signed \in SignedProposal
    BY <2>2 DEF ProposalMsg
  <2> QED
    BY <1>4, <2>1, <2>3, HandleSignedProposalAnswers DEF ReplayProposal
<1>5. ASSUME StartVotes \/ ReplayVote \/ StatusDone PROVE VerdictOwed'
  BY <1>5, <1>d, <1>f DEF StartVotes, ReplayVote, StatusDone
<1>6. ASSUME ProcessVerifyResp PROVE VerdictOwed'
  <2> DEFINE vr == Head(async_recv)
  <2>1. async_recv # <<>> /\ async_recv' = Tail(async_recv)
        /\ core' = CoreVerifyResp(core, vr.proposal, vr.is_pass)
    BY <1>6 DEF ProcessVerifyResp
  <2>2. /\ core'.proposals = core.proposals
        /\ core'.verdicts = core.verdicts \cup {[proposal |-> vr.proposal, is_pass |-> vr.is_pass]}
    BY <1>a, <2>1 DEF CoreVerifyResp, CoreState
  <2>3. \A i \in DOMAIN async_recv : i = 1 \/ (i - 1 \in DOMAIN async_recv'
                                               /\ async_recv'[i - 1] = async_recv[i])
    BY <1>a, <2>1
  <2>4. vr = async_recv[1]
    BY <1>a, <2>1
  <2>5. \E d \in core'.verdicts : d.proposal = vr.proposal
    <3>1. [proposal |-> vr.proposal, is_pass |-> vr.is_pass] \in core'.verdicts
      BY <2>2
    <3> QED
      BY <3>1
  <2> HIDE DEF vr
  <2>6. \A b \in core'.proposals : Answered(core', async_recv', b)
    BY <1>b, <2>2, <2>3, <2>4, <2>5 DEF Answered
  <2> QED
    BY <2>6 DEF VerdictOwed, Answered
<1>7. ASSUME ProcessFeed PROVE VerdictOwed'
  <2>1. async_recv # <<>> /\ async_recv' = Tail(async_recv) /\ Head(async_recv).type = "Feed"
        /\ core' = CoreFeed(core, Head(async_recv).height, Head(async_recv).content)
    BY <1>7 DEF ProcessFeed
  <2>2. core'.proposals = core.proposals /\ core'.verdicts = core.verdicts
    BY <1>a, <2>1, OtherInputsAskNothing
  <2>3. \A i \in DOMAIN async_recv : async_recv[i].type = "Feed"
           \/ (i - 1 \in DOMAIN async_recv' /\ async_recv'[i - 1] = async_recv[i])
    BY <1>a, <2>1
  <2>4. \A b \in core'.proposals : Answered(core', async_recv', b)
    BY <1>b, <2>2, <2>3 DEF Answered
  <2> QED
    BY <2>4 DEF VerdictOwed, Answered
<1>8. ASSUME ProcessGetProposalRequest \/ ProcessProposal \/ ProcessVote PROVE VerdictOwed'
  BY <1>8, <1>c DEF ProcessGetProposalRequest, ProcessProposal, HandleProposal, ProcessVote,
         HandleVote
<1>9. ASSUME ProcessCommit PROVE VerdictOwed'
  BY <1>9, <1>d, <1>e DEF ProcessCommit, RefuseCommit, DoCommit
<1>10. ASSUME CoreEmit PROVE VerdictOwed'
  BY <1>10, <1>a, <1>c, OtherInputsAskNothing DEF CoreEmit
<1>11. ASSUME UNCHANGED vars PROVE VerdictOwed'
  BY <1>11, <1>d DEF vars
<1> QED
  BY <1>1, <1>2, <1>3, <1>4, <1>5, <1>6, <1>7, <1>8, <1>9, <1>10, <1>11
     DEF Next, Environment, EngineStep, LoopStep, AsyncStep, CoreStep

\* The core is never left waiting for a verdict that nobody will deliver.
THEOREM VerdictsOwed == Spec => []VerdictOwed
<1>1. Init => VerdictOwed
  BY DEF Init, InitCore, VerdictOwed
<1> QED
  BY <1>1, InitType, NextType, NextVerdictOwed, PTL DEF Spec

-----------------------------------------------------------------------------
(* The refinement of ChainDriver *)

\* The commits as ChainDriver sees them.
Decisions == [i \in DOMAIN commits |-> DecisionOf(commits[i])]

\* The core never runs ahead of the engine, so neither does what it emitted.
ReachedOutputs ==
  \A i \in DOMAIN bft_recv :
    bft_recv[i].type = "Commit" => bft_recv[i].commit.height <= height

DriverInv == ProofInv /\ ReachedOutputs

LEMMA InitDriver == Init => DriverInv
  BY InitDriven DEF Init, EmptyCollector, ProofInv, SoundOutputs, HonestCollector, CommitsVerify,
                    DriverInv, ReachedOutputs

\* A commit that the core emits is for the height it decides.
LEMMA EmittedHeight ==
  ASSUME NEW o \in CoreOutputs(core), o.type = "Commit"
  PROVE  o.commit.height = core.height
<1>1. o \in CommitOutputs(core)
  BY DEF CoreOutputs, RequestOutputs, ProposalOutputs, ProposalOutput, VoteOutputs
<1> QED
  BY <1>1 DEF CommitOutputs

LEMMA NextReachedOutputs ==
  ASSUME DriverInv, [Next]_vars
  PROVE  ReachedOutputs'
<1> USE DEF DriverInv, ProofInv
<1>1. /\ bft_recv \in Seq(CoreOutput) /\ height \in Nat /\ height' \in Nat
      /\ core.height <= height
  BY NextType, BoundsAssumption DEF DrivenInv, TypeOK, Heights, CoreBehind
<1>2. height' >= height
  <2>1. \A c \in BftCommit : c.height \in Nat
    BY BoundsAssumption DEF BftCommit
  <2> QED
    BY <1>1, <2>1, CommitSteps DEF DrivenInv
<1>3. \A i \in DOMAIN bft_recv : bft_recv[i].type = "Commit" =>
        bft_recv[i].commit.height \in Nat /\ bft_recv[i].commit.height <= height'
  <2> SUFFICES ASSUME NEW i \in DOMAIN bft_recv, bft_recv[i].type = "Commit"
               PROVE  /\ bft_recv[i].commit.height \in Nat
                      /\ bft_recv[i].commit.height <= height'
    OBVIOUS
  <2>1. bft_recv[i] \in CoreOutput
    BY <1>1
  <2>2. bft_recv[i].commit \in BftCommit
    BY <2>1 DEF CoreOutput
  <2>3. bft_recv[i].commit.height \in Nat
    BY <2>2, BoundsAssumption DEF BftCommit
  <2>4. bft_recv[i].commit.height <= height
    BY DEF ReachedOutputs
  <2> QED
    BY <1>1, <1>2, <2>3, <2>4
<1>4. CASE bft_recv' = bft_recv
  BY <1>3, <1>4 DEF ReachedOutputs
<1>5. CASE bft_recv # <<>> /\ bft_recv' = Tail(bft_recv)
  <2>1. \A i \in DOMAIN bft_recv' : i + 1 \in DOMAIN bft_recv /\ bft_recv'[i] = bft_recv[i + 1]
    BY <1>1, <1>5
  <2> QED
    BY <1>3, <2>1 DEF ReachedOutputs
<1>6. ASSUME NEW o \in CoreOutputs(core), bft_recv' = Append(bft_recv, o)
      PROVE  ReachedOutputs'
  <2>1. \A i \in DOMAIN bft_recv' : (i \in DOMAIN bft_recv /\ bft_recv'[i] = bft_recv[i])
                                     \/ bft_recv'[i] = o
    BY <1>1, <1>6
  <2>2. o.type = "Commit" => o.commit.height <= height'
    <3>1. core.height \in Nat
      BY BoundsAssumption DEF DrivenInv, TypeOK, CoreState, Heights
    <3> QED
      BY <1>1, <1>2, <3>1, EmittedHeight
  <2> QED
    BY <1>3, <2>1, <2>2 DEF ReachedOutputs
<1> QED
  BY <1>4, <1>5, <1>6, OutputSteps

LEMMA NextDriver == DriverInv /\ [Next]_vars => DriverInv'
<1> SUFFICES ASSUME DriverInv, [Next]_vars PROVE DriverInv'
  OBVIOUS
<1>1. ProofInv'
  BY NextDriven, NextSoundOutputs, NextHonestCollector, NextCommitsVerify DEF DriverInv, ProofInv
<1> QED
  BY <1>1, NextReachedOutputs DEF DriverInv

-----------------------------------------------------------------------------
(* Every step of the shell is one of ChainDriver, or none                   *)

LEMMA StepDrives ==
  ASSUME DriverInv, [Next]_vars
  PROVE  \/ Driver!DriverNext
         \/ UNCHANGED <<height, Decisions>>
<1> USE DEF DriverInv, ProofInv
<1>1. commits \in Seq(Commit) /\ height \in Nat /\ height' \in Nat
  BY NextType, BoundsAssumption DEF DrivenInv, TypeOK, Heights
<1>2. CASE commits' = commits /\ height' >= height
  <2>1. Decisions' = Decisions
    BY <1>2 DEF Decisions
  <2>2. CASE height' = height
    BY <2>1, <2>2
  <2>3. CASE height' > height
    BY <2>1, <2>3 DEF Driver!DriverNext, Driver!Learn, Decisions
  <2> QED
    BY <1>1, <1>2, <2>2, <2>3
<1>3. ASSUME NEW c \in BftCommit, Takes("Commit"), c = Head(bft_recv).commit, Provable(c),
             c.height >= height, height' = c.height + 1,
             commits' = Append(commits, Committed(c))
      PROVE  Driver!DriverNext
  <2>1. c.height = height /\ Supported(c)
    <3>1. bft_recv \in Seq(CoreOutput) /\ bft_recv # <<>> /\ Head(bft_recv).type = "Commit"
      BY <1>3 DEF Takes, DrivenInv, TypeOK
    <3>2. 1 \in DOMAIN bft_recv /\ Head(bft_recv) = bft_recv[1]
      BY <3>1
    <3>3. c.height <= height /\ Supported(c)
      BY <1>3, <3>1, <3>2 DEF ReachedOutputs, SoundOutputs
    <3>4. c.height \in Nat
      BY BoundsAssumption DEF BftCommit
    <3> QED
      BY <1>1, <1>3, <3>3, <3>4
  <2> DEFINE voters == {v.voter : v \in c.lock_votes}
  <2>2. DecisionOf(Committed(c)) =
          [height |-> height, block |-> c.proposal, voters |-> voters]
    BY <1>3, <2>1, GeneratedSound DEF DecisionOf, Committed
  <2>3. Decisions' = Append(Decisions, DecisionOf(Committed(c)))
    BY <1>1, <1>3 DEF Decisions
  <2>4. voters \in QuorumsAt[height]
    BY <2>1 DEF QuorumsAt, Supported, DrivenInv, TypeOK
  <2>5. Driver!Decide(c.proposal, voters)
    BY <1>3, <2>1, <2>2, <2>3, <2>4 DEF Driver!Decide, Decisions
  <2>6. c.proposal \in Hashes
    BY DEF BftCommit
  <2> HIDE DEF voters
  <2> QED
    BY <2>4, <2>5, <2>6 DEF Driver!DriverNext
<1> QED
  BY <1>2, <1>3, CommitSteps DEF DrivenInv

\* To its application the engine is a node that follows the chain: whatever is
\* queued, cached, late, repeated or refused, each step decides the height it is
\* at by that height's authorities, moves up the chain, or does nothing.
THEOREM ShellDrivesChain == Spec => DrivesChain
<1>1. Init => Driver!DriverInit
  BY DEF Init, Driver!DriverInit
<1>2. DriverInv /\ [Next]_vars =>
        [Driver!DriverNext]_<<height, [i \in DOMAIN commits |-> DecisionOf(commits[i])]>>
  BY StepDrives DEF Decisions
<1> QED
  BY <1>1, <1>2, InitDriver, NextDriver, PTL DEF Spec, DrivesChain, Driver!DriverSpec
=============================================================================
