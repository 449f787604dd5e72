--------------------------- MODULE EvidenceProofs ---------------------------
(***************************************************************************)
(* What the shell keeps as evidence: the votes of the height it decides,   *)
(* the locks it has shown the core, the votes and the block of a decision, *)
(* and the proof of the last commit.                                       *)
(***************************************************************************)
EXTENDS ConsensusProofs

-----------------------------------------------------------------------------
(* What waits *)

\* A cached proposal arrived from a peer, and is filed under its height; the
\* ones being replayed are of the height just reached.
Filed ==
  /\ \A h \in Heights : \A i \in DOMAIN proposal_cache[h] :
       /\ proposal_cache[h][i] \in PeerProposals
       /\ proposal_cache[h][i].signed.proposal.height = h
  /\ pc = "proposals" => \A i \in DOMAIN iter :
       iter[i] \in PeerProposals /\ iter[i].signed.proposal.height = height

\* What the core has emitted is of a height the engine has reached.
OutputsReached ==
  \A i \in DOMAIN bft_recv :
    /\ bft_recv[i].type = "Proposal" => bft_recv[i].proposal.height <= height
    /\ bft_recv[i].type = "Vote" =>
         0 < bft_recv[i].vote.height /\ bft_recv[i].vote.height <= height
    /\ bft_recv[i].type = "Commit" => bft_recv[i].commit.height <= height

\* A status that arrives when the engine is idle files nothing and takes the
\* proposals of the height reached.
LEMMA AcceptStatusFiled ==
  ASSUME TypeOK, Filed, Idle, NEW h \in 0 .. MaxHeight, AcceptStatus(StatusOf(h))
  PROVE  Filed'
<1>1. /\ StatusOf(h).height = h /\ h + 1 \in Heights /\ height' = h + 1
      /\ proposal_cache \in [Heights -> Seq(ProposalMsg)] /\ pc = "select"
  BY StatusOfType DEF AcceptStatus, GotoNewHeight, TypeOK, Idle
<1>2. CASE UNCHANGED <<pc, iter, proposal_cache>>
  BY <1>1, <1>2 DEF Filed
<1>3. CASE /\ pc' = "proposals" /\ iter' = proposal_cache[h + 1]
           /\ proposal_cache' = [proposal_cache EXCEPT ![h + 1] = <<>>]
  BY <1>1, <1>3 DEF Filed
<1> QED
  BY <1>1, <1>2, <1>3 DEF AcceptStatus

LEMMA NextFiled == TypeOK /\ Filed /\ [Next]_vars => Filed'
<1> SUFFICES ASSUME TypeOK, Filed, [Next]_vars PROVE Filed'
  OBVIOUS
<1> USE DEF loop, chain, blocks, caches, history
<1>a. UNCHANGED <<pc, iter, height, proposal_cache>> => Filed'
  BY DEF Filed
<1>1. ASSUME NEW m \in PeerVotes, ReceiveSignedVote(m) PROVE Filed'
  BY <1>1, <1>a DEF ReceiveSignedVote, Panic
<1>2. ASSUME NEW m \in PeerProposals, ReceiveSignedProposal(m) PROVE Filed'
  <2> DEFINE h == m.signed.proposal.height
  <2>1. CASE UNCHANGED <<pc, iter, height, proposal_cache>>
    BY <1>a, <2>1
  <2>2. CASE /\ proposal_cache' = [proposal_cache EXCEPT ![h] = Append(@, m)]
             /\ UNCHANGED <<pc, iter, height>>
    <3>1. /\ proposal_cache \in [Heights -> Seq(ProposalMsg)] /\ h \in Heights
          /\ m \in ProposalMsg
      BY PeersAssumption DEF TypeOK, ProposalMsg, SignedProposal, Proposal
    <3>b. m.signed.proposal.height = h
      OBVIOUS
    <3> DEFINE q == proposal_cache[h]
    <3>2. \A x \in Heights : proposal_cache'[x] =
            IF x = h THEN Append(q, m) ELSE proposal_cache[x]
      BY <2>2, <3>1
    <3>c. q \in Seq(ProposalMsg) /\ \A i \in DOMAIN q : /\ q[i] \in PeerProposals
                                                        /\ q[i].signed.proposal.height = h
      BY <3>1 DEF Filed
    <3> HIDE DEF h, q
    <3>3. \A i \in DOMAIN Append(q, m) :
            (i \in DOMAIN q /\ Append(q, m)[i] = q[i]) \/ Append(q, m)[i] = m
      BY <3>1, <3>c
    <3>d. \A i \in DOMAIN Append(q, m) : /\ Append(q, m)[i] \in PeerProposals
                                         /\ Append(q, m)[i].signed.proposal.height = h
      BY <3>b, <3>c, <3>3
    <3>4. \A x \in Heights : \A i \in DOMAIN proposal_cache'[x] :
            /\ proposal_cache'[x][i] \in PeerProposals
            /\ proposal_cache'[x][i].signed.proposal.height = x
      BY <3>2, <3>d DEF Filed
    <3> QED
      BY <2>2, <3>4 DEF Filed
  <2> QED
    BY <1>2, <2>1, <2>2 DEF ReceiveSignedProposal, Panic
<1>3. ASSUME NEW h \in 0 .. MaxHeight, ReceiveStatus(h) PROVE Filed'
  BY <1>3, AcceptStatusFiled DEF ReceiveStatus
<1>4. ASSUME ReplayProposal PROVE Filed'
  <2>1. iter \in Seq(ProposalMsg) /\ iter # <<>> /\ UNCHANGED <<height, proposal_cache>>
    BY <1>4 DEF ReplayProposal, TypeOK
  <2>2. CASE iter' = Tail(iter) /\ UNCHANGED pc
    <3>1. \A i \in DOMAIN iter' : i + 1 \in DOMAIN iter /\ iter'[i] = iter[i + 1]
      BY <2>1, <2>2
    <3> QED
      BY <2>1, <2>2, <3>1 DEF Filed
  <2>3. CASE iter' = <<>> /\ pc' = "select"
    BY <2>1, <2>3 DEF Filed
  <2> QED
    BY <1>4, <2>2, <2>3 DEF ReplayProposal
<1>5. ASSUME StartVotes \/ ReplayVote \/ StatusDone PROVE Filed'
  <2>1. pc' \in {"votes", "select"} /\ UNCHANGED <<height, proposal_cache>>
    BY <1>5 DEF StartVotes, ReplayVote, StatusDone
  <2> QED
    BY <2>1 DEF Filed
<1>6. ASSUME AsyncStep PROVE Filed'
  BY <1>6, <1>a DEF AsyncStep, ProcessVerifyResp, ProcessFeed
<1>7. ASSUME ProcessGetProposalRequest \/ ProcessProposal \/ ProcessVote PROVE Filed'
  BY <1>7, <1>a DEF ProcessGetProposalRequest, ProcessProposal, HandleProposal, ProcessVote,
                    HandleVote
<1>8. ASSUME ProcessCommit PROVE Filed'
  <2> DEFINE c == Head(bft_recv).commit
  <2>1. Idle /\ bft_recv \in Seq(CoreOutput) /\ bft_recv # <<>> /\ Head(bft_recv).type = "Commit"
    BY <1>8 DEF ProcessCommit, Takes, TypeOK
  <2>2. Head(bft_recv) \in CoreOutput
    BY <2>1
  <2>3. c.height \in 0 .. MaxHeight
    BY <2>1, <2>2, BoundsAssumption DEF CoreOutput, BftCommit
  <2> HIDE DEF c
  <2>4. RefuseCommit(c) \/ DoCommit(c)
    BY <1>8 DEF ProcessCommit, c
  <2>5. UNCHANGED <<pc, iter, height, proposal_cache>> \/ AcceptStatus(StatusOf(c.height))
    BY <2>4 DEF RefuseCommit, DoCommit
  <2> QED
    BY <1>a, <2>1, <2>3, <2>5, AcceptStatusFiled
<1>9. ASSUME CoreEmit PROVE Filed'
  BY <1>9, <1>a DEF CoreEmit
<1>10. ASSUME UNCHANGED vars PROVE Filed'
  BY <1>10, <1>a DEF vars
<1> QED
  BY <1>1, <1>2, <1>3, <1>4, <1>5, <1>6, <1>7, <1>8, <1>9, <1>10
     DEF Next, Environment, EngineStep, LoopStep, CoreStep

LEMMA InitFiled == Init => Filed
BY DEF Init, Filed

\* What the core emits is of the height it decides.
LEMMA EmittedAt ==
  ASSUME NEW c, NEW o \in CoreOutputs(c)
  PROVE  /\ o.type = "Proposal" => o.proposal.height = c.height
         /\ o.type = "Vote" => o.vote.height = c.height
         /\ o.type = "Commit" => o.commit.height = c.height
<1>1. CASE o \in RequestOutputs(c)
  BY <1>1 DEF RequestOutputs
<1>2. CASE o \in ProposalOutputs(c)
  BY <1>2 DEF ProposalOutputs, ProposalOutput
<1>3. CASE o \in VoteOutputs(c)
  BY <1>3 DEF VoteOutputs
<1>4. CASE o \in CommitOutputs(c)
  BY <1>4 DEF CommitOutputs
<1> QED
  BY <1>1, <1>2, <1>3, <1>4 DEF CoreOutputs

\* The height never falls.
LEMMA HeightRises ==
  ASSUME TypeOK, [Next]_vars
  PROVE  height' >= height /\ height \in Nat /\ height' \in Nat
<1>1. height \in Nat /\ height' \in Nat
  BY NextType, BoundsAssumption DEF TypeOK, Heights
<1> QED
  BY <1>1, CommitSteps, BoundsAssumption DEF BftCommit

LEMMA NextOutputsReached ==
  ASSUME DrivenInv, OutputsReached, [Next]_vars
  PROVE  OutputsReached'
<1>1. /\ bft_recv \in Seq(CoreOutput) /\ core.height <= height
      /\ core.height \in Nat /\ height \in Nat /\ height' \in Nat /\ height' >= height
  <2>1. TypeOK /\ core.height <= height
    BY DEF DrivenInv, CoreBehind
  <2>2. core.height \in Nat
    BY <2>1, BoundsAssumption DEF TypeOK, CoreState, Heights
  <2>3. bft_recv \in Seq(CoreOutput)
    BY <2>1 DEF TypeOK
  <2> QED
    BY <2>1, <2>2, <2>3, HeightRises
<1>2. \A x \in Nat : x <= height => x <= height'
  BY <1>1
<1>3. \A x \in CoreOutput : /\ x.type = "Proposal" => x.proposal.height \in Nat
                            /\ x.type = "Vote" => x.vote.height \in Nat
                            /\ x.type = "Commit" => x.commit.height \in Nat
  BY BoundsAssumption DEF CoreOutput, BftProposal, Vote, BftCommit, Heights
<1>4. \A i \in DOMAIN bft_recv : bft_recv[i] \in CoreOutput
  BY <1>1
<1>5. \A i \in DOMAIN bft_recv :
        /\ bft_recv[i].type = "Proposal" => bft_recv[i].proposal.height <= height'
        /\ bft_recv[i].type = "Vote" =>
             0 < bft_recv[i].vote.height /\ bft_recv[i].vote.height <= height'
        /\ bft_recv[i].type = "Commit" => bft_recv[i].commit.height <= height'
  BY <1>2, <1>3, <1>4 DEF OutputsReached
<1>6. CASE bft_recv' = bft_recv
  BY <1>5, <1>6 DEF OutputsReached
<1>7. CASE bft_recv # <<>> /\ bft_recv' = Tail(bft_recv)
  <2>1. \A i \in DOMAIN bft_recv' : i + 1 \in DOMAIN bft_recv /\ bft_recv'[i] = bft_recv[i + 1]
    BY <1>1, <1>7
  <2> QED
    BY <1>5, <2>1 DEF OutputsReached
<1>8. ASSUME NEW o \in CoreOutputs(core), bft_recv' = Append(bft_recv, o)
      PROVE  OutputsReached'
  <2>1. \A i \in DOMAIN bft_recv' : (i \in DOMAIN bft_recv /\ bft_recv'[i] = bft_recv[i])
                                     \/ bft_recv'[i] = o
    BY <1>1, <1>8
  <2>2. core.height <= height' /\ 0 < core.height
    BY <1>1, <1>8 DEF CoreOutputs, Deciding
  <2> QED
    <3>1. /\ o.type = "Proposal" => o.proposal.height <= height'
          /\ o.type = "Vote" => 0 < o.vote.height /\ o.vote.height <= height'
          /\ o.type = "Commit" => o.commit.height <= height'
      BY <1>8, <2>2, EmittedAt
    <3> QED
      BY <1>5, <2>1, <3>1 DEF OutputsReached
<1> QED
  BY <1>6, <1>7, <1>8, OutputSteps

LEMMA InitOutputsReached == Init => OutputsReached
BY DEF Init, OutputsReached

-----------------------------------------------------------------------------
(* The votes of the current height are kept *)

VotesInv == DrivenInv /\ Filed /\ OutputsReached /\ CollectorInv(votes)

\* A message that is not obsolete is of the height before the one being decided, or
\* of a later one.
LEMMA NotObsolete ==
  ASSUME DrivenInv, NEW h \in Heights, ~Obsolete(h)
  PROVE  h + 1 >= height /\ height > 0
<1>1. height \in Nat /\ h \in Nat /\ h <= MaxHeight + 1
  BY BoundsAssumption DEF DrivenInv, TypeOK, Heights
<1> QED
  BY <1>1, BuildAssumption, BoundsAssumption DEF Obsolete

\* A vote, or the lock votes of a proposal, that is not obsolete is added without
\* loss to the height being decided.
LEMMA AddedKeeps ==
  ASSUME VotesInv, NEW k \in Heights, k + 1 >= height, NEW r \in Rounds, NEW t \in VoteTypes,
         NEW S \in SUBSET SignedVote, votes' = AddVotes(votes, k, r, t, S)
  PROVE  /\ CollectorInv(votes')
         /\ \A q, u, v : Retained(votes, height, q, u, v) => Retained(votes', height, q, u, v)
         /\ k = height => \A s \in S : Retained(votes', height, r, t, s.vote)
<1>1. votes \in VoteCollector /\ height \in Heights /\ CollectorInv(votes)
  BY DEF VotesInv, DrivenInv, TypeOK
<1> QED
  BY <1>1, AddVotesKeeps

LEMMA NextVotes ==
  ASSUME VotesInv, [Next]_vars
  PROVE  /\ CollectorInv(votes')
         /\ \A q, u, v : Retained(votes, height, q, u, v) => Retained(votes', height, q, u, v)
<1> DEFINE Safe ==
      /\ CollectorInv(votes')
      /\ \A q, u, v : Retained(votes, height, q, u, v) => Retained(votes', height, q, u, v)
<1> USE DEF loop, chain, blocks, caches, history
<1>a. votes' = votes => Safe
  BY DEF VotesInv
<1>b. /\ votes \in VoteCollector /\ height \in Heights /\ height \in Nat /\ CollectorInv(votes)
  BY BoundsAssumption DEF VotesInv, DrivenInv, TypeOK, Heights
<1>c. ASSUME NEW k \in Heights, NEW r \in Rounds, k + 1 >= height, votes' = Looked(votes, k, r)
      PROVE  Safe
  BY <1>b, <1>c, LookedKeeps
<1>d. ASSUME NEW m \in SignedVote, TakeVote(m) PROVE Safe
  <2>1. /\ m.vote.height \in Heights /\ m.vote.round \in Rounds
        /\ m.vote.vote_type \in VoteTypes /\ {m} \in SUBSET SignedVote
    BY DEF SignedVote, Vote
  <2>2. m.vote.height + 1 >= height
    BY <1>d, <2>1, NotObsolete DEF TakeVote, VotesInv
  <2>3. votes' = AddVotes(votes, m.vote.height, m.vote.round, m.vote.vote_type, {m})
    BY <1>d DEF TakeVote
  <2> QED
    BY <2>1, <2>2, <2>3, AddedKeeps
<1>e. ASSUME NEW m \in PeerProposals, NEW known, HandleSignedProposal(m.signed, known)
      PROVE  Safe
  <2> DEFINE p == m.signed.proposal
  <2>1. /\ p.height \in Heights /\ p.lock_round \in Rounds \cup {NoLock}
        /\ p.lock_votes \in Seq(SignedVote)
    BY PeersAssumption DEF ProposalMsg, SignedProposal, Proposal
  <2>2. CollectedLockVotes(p) \in SUBSET SignedVote
    BY <2>1 DEF CollectedLockVotes
  <2>3. CASE Admitted(m.signed) /\ p.lock_round # NoLock
    <3>1. p.height + 1 >= height
      BY <2>1, <2>3, NotObsolete DEF Admitted, VotesInv
    <3>2. votes' = AddVotes(votes, p.height, p.lock_round, "Prevote", CollectedLockVotes(p))
      BY <1>e, <2>3 DEF HandleSignedProposal, CollectLockVotes
    <3>3. p.lock_round \in Rounds /\ "Prevote" \in VoteTypes
      BY <2>1, <2>3 DEF VoteTypes
    <3> HIDE DEF p
    <3> QED
      BY <2>1, <2>2, <3>1, <3>2, <3>3, AddedKeeps
  <2>4. CASE ~(Admitted(m.signed) /\ p.lock_round # NoLock)
    BY <1>a, <1>e, <2>4 DEF HandleSignedProposal
  <2> QED
    BY <2>3, <2>4
<1> HIDE DEF Safe
<1>o. bft_recv # <<>> => Head(bft_recv) \in CoreOutput
  <2>1. bft_recv \in Seq(CoreOutput)
    BY DEF VotesInv, DrivenInv, TypeOK
  <2> QED
    BY <2>1
\* What is not outdated is of the present height or a later one.
<1>p. \A k \in Heights : ~Outdated(k) => k + 1 >= height
  BY <1>b, BoundsAssumption DEF Outdated, Heights
<1>1. ASSUME NEW m \in PeerVotes, ReceiveSignedVote(m) PROVE Safe
  BY <1>1, <1>a, <1>d, PeersAssumption DEF ReceiveSignedVote, Panic, CacheVote
<1>2. ASSUME NEW m \in PeerProposals, ReceiveSignedProposal(m) PROVE Safe
  BY <1>2, <1>a, <1>e DEF ReceiveSignedProposal, Panic
<1>3. ASSUME NEW h \in 0 .. MaxHeight, ReceiveStatus(h) PROVE Safe
  BY <1>3, <1>a DEF ReceiveStatus
<1>4. ASSUME ReplayProposal PROVE Safe
  <2>1. iter \in Seq(ProposalMsg) /\ iter # <<>> /\ pc = "proposals"
    BY <1>4 DEF ReplayProposal, VotesInv, DrivenInv, TypeOK
  <2>2. 1 \in DOMAIN iter /\ Head(iter) = iter[1]
    BY <2>1
  <2>3. Head(iter) \in PeerProposals
    BY <2>1, <2>2 DEF VotesInv, Filed
  <2> QED
    BY <1>4, <1>e, <2>3 DEF ReplayProposal
<1>5. ASSUME ReplayVote PROVE Safe
  <2>1. iter \in Seq(SignedVote) /\ iter # <<>>
    BY <1>5 DEF ReplayVote, VotesInv, DrivenInv, TypeOK
  <2>2. Head(iter) \in SignedVote
    BY <2>1
  <2> QED
    BY <1>5, <1>d, <2>2 DEF ReplayVote
<1>6. ASSUME StartVotes \/ StatusDone \/ AsyncStep \/ ProcessGetProposalRequest PROVE Safe
  BY <1>6, <1>a DEF StartVotes, StatusDone, AsyncStep, ProcessVerifyResp, ProcessFeed,
                    ProcessGetProposalRequest
<1>7. ASSUME ProcessProposal PROVE Safe
  <2> DEFINE p == Head(bft_recv).proposal
  <2>1. p.round \in Rounds
    BY <1>7, <1>o DEF ProcessProposal, Takes, CoreOutput, BftProposal
  <2>2. votes' = votes \/ (p.height = height /\ votes' = Looked(votes, height, p.round))
    BY <1>7 DEF ProcessProposal, HandleProposal
  <2>3. height + 1 >= height
    BY <1>b
  <2> HIDE DEF p
  <2> QED
    BY <1>a, <1>b, <1>c, <2>1, <2>2, <2>3
<1>8. ASSUME ProcessVote PROVE Safe
  <2> DEFINE v == Head(bft_recv).vote
             sv == [vote |-> v, signature |-> Self]
  <2>1. v \in Vote
    BY <1>8, <1>o DEF ProcessVote, Takes, CoreOutput
  <2>2. /\ v.height \in Heights /\ v.round \in Rounds /\ v.vote_type \in VoteTypes
        /\ {sv} \in SUBSET SignedVote
    BY <2>1, SelfAssumption DEF Vote, SignedVote, Signatures
  <2>3. votes' = votes \/ (~Outdated(v.height)
          /\ votes' = AddVotes(votes, v.height, v.round, v.vote_type, {sv}))
    BY <1>8 DEF ProcessVote, HandleVote
  <2> HIDE DEF v, sv
  <2>4. CASE votes' = votes
    BY <1>a, <2>4
  <2>5. CASE ~Outdated(v.height) /\ votes' = AddVotes(votes, v.height, v.round, v.vote_type, {sv})
    BY <1>p, <2>2, <2>5, AddedKeeps DEF Safe
  <2> QED
    BY <2>3, <2>4, <2>5
<1>9. ASSUME ProcessCommit PROVE Safe
  <2> DEFINE c == Head(bft_recv).commit
  <2>1. c \in BftCommit
    BY <1>9, <1>o DEF ProcessCommit, Takes, CoreOutput
  <2>2. RefuseCommit(c) \/ DoCommit(c)
    BY <1>9 DEF ProcessCommit
  <2> HIDE DEF c
  <2>3. votes' = votes \/ (~Outdated(c.height) /\ votes' = Looked(votes, c.height, c.round))
    BY <2>2 DEF RefuseCommit, DoCommit
  <2>4. c.height \in Heights /\ c.round \in Rounds
    BY <2>1, BoundsAssumption DEF BftCommit, Heights
  <2> QED
    BY <1>a, <1>c, <1>p, <2>3, <2>4
<1>10. ASSUME CoreEmit PROVE Safe
  BY <1>10, <1>a DEF CoreEmit
<1>11. ASSUME UNCHANGED vars PROVE Safe
  BY <1>11, <1>a DEF vars
<1>12. Safe
  BY <1>1, <1>2, <1>3, <1>4, <1>5, <1>6, <1>7, <1>8, <1>9, <1>10, <1>11
     DEF Next, Environment, EngineStep, LoopStep, CoreStep
<1> QED
  BY <1>12 DEF Safe

LEMMA InitVotes == Init => VotesInv
<1> SUFFICES ASSUME Init PROVE VotesInv
  OBVIOUS
<1>1. CollectorInv(votes)
  BY DEF Init, EmptyCollector, CollectorInv, IsInjective
<1> QED
  BY <1>1, InitDriven, InitFiled, InitOutputsReached DEF VotesInv

LEMMA NextVotesInv ==
  ASSUME VotesInv, [Next]_vars
  PROVE  VotesInv'
<1>1. DrivenInv' /\ Filed' /\ OutputsReached'
  BY NextDriven, NextFiled, NextOutputsReached DEF VotesInv, DrivenInv
<1>2. CollectorInv(votes')
  BY NextVotes
<1> QED
  BY <1>1, <1>2 DEF VotesInv

\* What is retained is held, while the caches have room.
LEMMA RetainedHolds ==
  ASSUME NEW r, NEW t, NEW v, Retained(votes, height, r, t, v)
  PROVE  Holds(votes, height, r, t, v) \/ Crowded
BY DEF Retained, Overrun, Crowded

-----------------------------------------------------------------------------
(* What the core is told *)

\* A proposal is handled with the blocks known: one that just arrived and is not
\* of the future, or the next of the cached ones.
Handles(m, known) ==
  /\ HandleSignedProposal(m.signed, known)
  /\ UNCHANGED <<chain, verified_block, bft_recv, commits, transmitted>>
  /\ \/ ReceiveSignedProposal(m) /\ ~Future(m.signed.proposal)
        /\ known = block_origin_cache \cup {m.block}
     \/ ReplayProposal /\ m = Head(iter) /\ known = block_origin_cache
  /\ block_origin_cache' = known

\* How a step may change the core.
LEMMA CoreSteps ==
  ASSUME TypeOK, Filed, [Next]_vars
  PROVE  \/ UNCHANGED core
         \/ UNCHANGED <<chain, blocks, bft_recv, async_recv>>
            /\ \E m \in SignedVote : TakeVote(m) /\ core' = CoreVote(core, m.vote)
         \/ \E m \in PeerProposals, known \in SUBSET Hashes : Handles(m, known)
         \/ ProcessVerifyResp \/ ProcessFeed \/ CoreEmit
         \/ Idle /\ \E h \in 0 .. MaxHeight : AcceptStatus(StatusOf(h))
<1> USE DEF loop, chain, blocks, caches, history
<1>1. ASSUME NEW m \in PeerVotes, ReceiveSignedVote(m)
      PROVE  UNCHANGED core \/ (UNCHANGED <<chain, blocks, bft_recv, async_recv>> /\ TakeVote(m)
                                /\ core' = CoreVote(core, m.vote))
  BY <1>1 DEF ReceiveSignedVote, Panic, CacheVote, TakeVote
<1>2. ASSUME NEW m \in PeerProposals, ReceiveSignedProposal(m)
      PROVE  UNCHANGED core \/ \E known \in SUBSET Hashes : Handles(m, known)
  <2> DEFINE known == block_origin_cache \cup {m.block}
  <2>1. known \in SUBSET Hashes
    BY PeersAssumption DEF ProposalMsg, TypeOK
  <2>2. CASE /\ ~Future(m.signed.proposal) /\ HandleSignedProposal(m.signed, known)
             /\ block_origin_cache' = known
             /\ UNCHANGED <<loop, chain, verified_block, caches, bft_recv, history>>
    <3>1. Handles(m, known)
      BY <1>2, <2>2 DEF Handles
    <3> QED
      BY <2>1, <3>1
  <2> QED
    BY <1>2, <2>2 DEF ReceiveSignedProposal, Panic
<1>3. ASSUME ReplayProposal
      PROVE  \E m \in PeerProposals, known \in SUBSET Hashes : Handles(m, known)
  <2>1. iter \in Seq(ProposalMsg) /\ iter # <<>> /\ pc = "proposals"
    BY <1>3 DEF ReplayProposal, TypeOK
  <2>2. 1 \in DOMAIN iter /\ Head(iter) = iter[1]
    BY <2>1
  <2>3. Head(iter) \in PeerProposals
    BY <2>1, <2>2 DEF Filed
  <2>4. Handles(Head(iter), block_origin_cache)
    BY <1>3 DEF Handles, ReplayProposal
  <2>5. block_origin_cache \in SUBSET Hashes
    BY DEF TypeOK
  <2> QED
    BY <2>3, <2>4, <2>5
<1>4. ASSUME ReplayVote
      PROVE  UNCHANGED core \/ (UNCHANGED <<chain, blocks, bft_recv, async_recv>>
               /\ \E m \in SignedVote : TakeVote(m) /\ core' = CoreVote(core, m.vote))
  <2>1. iter \in Seq(SignedVote) /\ iter # <<>>
    BY <1>4 DEF ReplayVote, TypeOK
  <2>2. Head(iter) \in SignedVote
    BY <2>1
  <2> QED
    BY <1>4, <2>2 DEF ReplayVote, TakeVote
<1>5. ASSUME ProcessCommit
      PROVE  UNCHANGED core \/ (Idle /\ \E h \in 0 .. MaxHeight : AcceptStatus(StatusOf(h)))
  <2> DEFINE c == Head(bft_recv).commit
  <2>1. Idle /\ bft_recv \in Seq(CoreOutput) /\ bft_recv # <<>> /\ Head(bft_recv).type = "Commit"
    BY <1>5 DEF ProcessCommit, Takes, TypeOK
  <2>2. Head(bft_recv) \in CoreOutput
    BY <2>1
  <2>3. c.height \in 0 .. MaxHeight
    BY <2>1, <2>2, BoundsAssumption DEF CoreOutput, BftCommit
  <2> HIDE DEF c
  <2>4. RefuseCommit(c) \/ DoCommit(c)
    BY <1>5 DEF ProcessCommit, c
  <2> QED
    BY <2>1, <2>3, <2>4 DEF RefuseCommit, DoCommit
<1>6. ASSUME StartVotes \/ StatusDone \/ ProcessGetProposalRequest \/ ProcessProposal \/ ProcessVote
      PROVE  UNCHANGED core
  BY <1>6 DEF StartVotes, StatusDone, ProcessGetProposalRequest, ProcessProposal, ProcessVote
<1>7. ASSUME NEW h \in 0 .. MaxHeight, ReceiveStatus(h)
      PROVE  Idle /\ AcceptStatus(StatusOf(h))
  BY <1>7 DEF ReceiveStatus
<1>8. UNCHANGED vars => UNCHANGED core
  BY DEF vars
<1> QED
  BY <1>1, <1>2, <1>3, <1>4, <1>5, <1>6, <1>7, <1>8, PeersAssumption
     DEF Next, Environment, EngineStep, LoopStep, AsyncStep, CoreStep

\* Blocks and verdicts are forgotten, and the authorities change, only with the height.
LEMMA BlockSteps ==
  ASSUME TypeOK, [Next]_vars
  PROVE  \/ /\ block_origin_cache \subseteq block_origin_cache' /\ UNCHANGED chain
            /\ DOMAIN verified_block \subseteq DOMAIN verified_block'
         \/ height' > height
<1> DEFINE Kept == /\ block_origin_cache \subseteq block_origin_cache' /\ UNCHANGED chain
                   /\ DOMAIN verified_block \subseteq DOMAIN verified_block'
<1> USE DEF loop, chain, blocks, caches, history
<1>1. ASSUME NEW h \in 0 .. MaxHeight, AcceptStatus(StatusOf(h)) PROVE height' > height
  <2>1. JumpsTo(h)
    BY <1>1, AcceptStatusJumps
  <2>2. h \in Nat /\ height \in Nat
    BY BoundsAssumption DEF TypeOK, Heights
  <2> QED
    BY <2>1, <2>2 DEF JumpsTo
<1>2. ASSUME Environment, ~CoreEmit PROVE Kept \/ height' > height
  BY <1>1, <1>2 DEF Environment, ReceiveSignedVote, Panic, ReceiveSignedProposal, ReceiveStatus
<1>3. ASSUME LoopStep \/ AsyncStep \/ CoreEmit PROVE Kept
  BY <1>3 DEF LoopStep, ReplayProposal, StartVotes, ReplayVote, StatusDone, AsyncStep,
              ProcessVerifyResp, Remember, ProcessFeed, CoreEmit
<1>4. ASSUME ProcessGetProposalRequest \/ ProcessProposal \/ ProcessVote PROVE Kept
  BY <1>4 DEF ProcessGetProposalRequest, ProcessProposal, ProcessVote
<1>5. ASSUME ProcessCommit PROVE Kept \/ height' > height
  <2> DEFINE c == Head(bft_recv).commit
  <2>1. bft_recv \in Seq(CoreOutput) /\ bft_recv # <<>> /\ Head(bft_recv).type = "Commit"
    BY <1>5 DEF ProcessCommit, Takes, TypeOK
  <2>2. Head(bft_recv) \in CoreOutput
    BY <2>1
  <2>3. c.height \in 0 .. MaxHeight
    BY <2>1, <2>2, BoundsAssumption DEF CoreOutput, BftCommit
  <2> HIDE DEF c
  <2>4. RefuseCommit(c) \/ DoCommit(c)
    BY <1>5 DEF ProcessCommit, c
  <2> QED
    BY <1>1, <2>3, <2>4 DEF RefuseCommit, DoCommit
<1>6. ASSUME UNCHANGED vars PROVE Kept
  BY <1>6 DEF vars
<1> QED
  BY <1>2, <1>3, <1>4, <1>5, <1>6 DEF Next, EngineStep, CoreStep

-----------------------------------------------------------------------------
(* Locks *)

\* The inputs of the core other than a proposal and a status show it no lock.
LEMMA OtherInputsLockNothing ==
  ASSUME NEW c \in CoreState
  PROVE  /\ \A v : CoreVote(c, v).locks = c.locks
         /\ \A x, q : CoreVerifyResp(c, x, q).locks = c.locks
         /\ \A h, x : CoreFeed(c, h, x).locks = c.locks
         /\ \A o : CoreEmitted(c, o).locks = c.locks
<1>1. \A v : CoreVote(c, v).locks = c.locks
  BY DEF CoreState, CoreVote
<1> QED
  BY <1>1 DEF CoreState, CoreVerifyResp, CoreFeed, CoreEmitted

\* The lock l passes check_lock_votes against the lists former and list, and its
\* votes are retained at height h.
EvidentLock(l, former, list, vc, h) ==
  LET voters == {v.voter : v \in l.votes}
  IN  /\ Cardinality(voters) * 3 > Len(former) * 2 /\ voters \cap ToSet(former) # {}
      /\ voters \subseteq ToSet(list)
      /\ \A v, w \in l.votes : v.voter = w.voter => v = w
      /\ \A v \in l.votes : v.proposal = l.content /\ Retained(vc, h, l.round, "Prevote", v)

LocksEvident ==
  \A l \in core.locks :
    EvidentLock(l, authority.authorities_old, AuthAt[height], votes, height)

\* A core that was left behind by a failed set_height gets nothing from the
\* engine until a status brings it to the engine's height, and then starts anew.
LockInv == VotesInv /\ (core.height = height => LocksEvident)

\* Once check_lock_votes has returned Ok it has collected every lock vote, one of
\* each voter.
LEMMA HoldingLocksCollected ==
  ASSUME NEW p \in Proposal, p.lock_round # NoLock, LockVotesHold(p)
  PROVE  /\ CollectedLockVotes(p) = ToSet(p.lock_votes)
         /\ \A sv \in ToSet(p.lock_votes) : CheckSignedVote(p, sv)
         /\ \A x, y \in ToSet(p.lock_votes) : x.vote.voter = y.vote.voter => x = y
<1>1. p.lock_votes \in Seq(SignedVote)
  BY DEF Proposal
<1>2. \A i \in DOMAIN p.lock_votes : LockVotePasses(p, i) /\ LockVoterIsNew(p, i)
  BY DEF LockVotesHold
<1>3. \A i \in DOMAIN p.lock_votes : /\ i \in 1 .. i
                                     /\ \A j \in 1 .. i - 1 : j \in DOMAIN p.lock_votes
  BY <1>1
<1>4. {i \in DOMAIN p.lock_votes :
         LockVotePasses(p, i) /\ \A j \in 1 .. i - 1 : LockVoterIsNew(p, j)} = DOMAIN p.lock_votes
  BY <1>2, <1>3
<1>5. CollectedLockVotes(p) = ToSet(p.lock_votes)
  BY <1>4 DEF CollectedLockVotes, ToSet
<1>6. \A i \in DOMAIN p.lock_votes : CheckSignedVote(p, p.lock_votes[i])
  BY <1>2, <1>3 DEF LockVotePasses
<1>7. \A i, j \in DOMAIN p.lock_votes :
        i < j => p.lock_votes[i].vote.voter # p.lock_votes[j].vote.voter
  <2>1. \A i, j \in DOMAIN p.lock_votes : i < j => i \in 1 .. j - 1
    BY <1>1
  <2> QED
    BY <1>2, <2>1 DEF LockVoterIsNew
<1>8. \A i, j \in DOMAIN p.lock_votes : i < j \/ j < i \/ i = j
  BY <1>1
<1>9. \A x, y \in ToSet(p.lock_votes) : x.vote.voter = y.vote.voter => x = y
  BY <1>7, <1>8 DEF ToSet
<1> QED
  BY <1>5, <1>6, <1>9 DEF ToSet

\* A lock that handle_signed_proposal shows the core is evident.
LEMMA ShownLocks ==
  ASSUME VotesInv, core.height = height, NEW m \in PeerProposals, NEW known,
         HandleSignedProposal(m.signed, known)
  PROVE  \A l \in core'.locks : \/ l \in core.locks
           \/ EvidentLock(l, authority.authorities_old, AuthAt[height], votes', height)
<1> USE DEF VotesInv
<1> DEFINE p == m.signed.proposal
           bp == ToBftProposal(p)
           new == [content |-> p.hash, round |-> p.lock_round,
                   votes |-> {x.vote : x \in ToSet(p.lock_votes)}]
<1>1. /\ p \in Proposal /\ p.height \in Heights /\ p.lock_round \in Rounds \cup {NoLock}
      /\ p.lock_votes \in Seq(SignedVote)
  BY PeersAssumption DEF ProposalMsg, SignedProposal, Proposal
<1>2. core \in CoreState /\ core.height = height /\ height \in Nat
  BY BoundsAssumption DEF DrivenInv, TypeOK, Heights
<1>3. CoreProposal(core, bp) \in CoreState
  BY <1>1, <1>2, ToBftProposalType, CoreInputsType
<1>4. \/ core' = core
      \/ Handed(m.signed, known) /\ core'.locks = CoreProposal(core, bp).locks
  <2>1. WithVerdict(CoreProposal(core, bp), p).locks = CoreProposal(core, bp).locks
    <3> DEFINE c1 == CoreProposal(core, bp)
    <3>1. \A q : CoreVerifyResp(c1, p.hash, q).locks = c1.locks
      BY <1>3, OtherInputsLockNothing
    <3>2. WithVerdict(c1, p) = c1 \/ \E q : WithVerdict(c1, p) = CoreVerifyResp(c1, p.hash, q)
      BY DEF WithVerdict
    <3> HIDE DEF c1
    <3>3. WithVerdict(c1, p).locks = c1.locks
      BY <3>1, <3>2
    <3> QED
      BY <3>3 DEF c1
  <2> QED
    BY <2>1 DEF HandleSignedProposal
<1>5. CoreProposal(core, bp).locks =
        IF p.height # height \/ p.lock_round = NoLock THEN core.locks ELSE core.locks \cup {new}
  <2>1. bp.height = p.height /\ bp.content = p.hash /\ bp.lock_round = p.lock_round
        /\ bp.lock_votes = IF p.lock_round = NoLock THEN {} ELSE new.votes
    BY DEF ToBftProposal
  <2> HIDE DEF bp, p
  <2> QED
    BY <1>2, <2>1 DEF CoreProposal, CoreState, new
<1>6. CASE core' = core \/ p.height # height \/ p.lock_round = NoLock
  BY <1>4, <1>5, <1>6
<1>7. CASE Handed(m.signed, known) /\ p.height = height /\ p.lock_round # NoLock
  <2>1. Admitted(m.signed) /\ LockVotesHold(p)
    BY <1>7 DEF Handed, Justified
  <2>2. /\ CollectedLockVotes(p) = ToSet(p.lock_votes)
        /\ \A sv \in ToSet(p.lock_votes) : CheckSignedVote(p, sv)
        /\ \A x, y \in ToSet(p.lock_votes) : x.vote.voter = y.vote.voter => x = y
    BY <1>1, <1>7, <2>1, HoldingLocksCollected
  <2>3. ToSet(p.lock_votes) \in SUBSET SignedVote
    BY <1>1 DEF ToSet
  <2>4. votes' = AddVotes(votes, p.height, p.lock_round, "Prevote", ToSet(p.lock_votes))
    BY <1>7, <2>1, <2>2 DEF HandleSignedProposal, CollectLockVotes
  <2>5. \A sv \in ToSet(p.lock_votes) : Retained(votes', height, p.lock_round, "Prevote", sv.vote)
    <3>1. p.lock_round \in Rounds /\ "Prevote" \in VoteTypes /\ p.height + 1 >= height
      BY <1>1, <1>2, <1>7 DEF VoteTypes
    <3> HIDE DEF p
    <3> QED
      BY <1>1, <1>7, <2>3, <2>4, <3>1, AddedKeeps
  <2>6. height > 0
    BY <1>1, <1>7, <2>1, <1>2, NotObsolete DEF Admitted
  <2>7. AuthoritiesFor(authority, p.height) = AuthAt[height]
    <3>1. authority.authority_h_old < height /\ authority.authority_h_old \in Nat
      BY <2>6, BoundsAssumption DEF DrivenInv, AuthorityTracksChain, TypeOK, AuthorityManage, Heights
    <3> QED
      BY <1>2, <1>7, <3>1 DEF AuthoritiesFor, DrivenInv, AuthorityTracksChain
  <2>8. /\ new.content = p.hash /\ new.round = p.lock_round
        /\ \A v \in new.votes : \E sv \in ToSet(p.lock_votes) : v = sv.vote
        /\ {v.voter : v \in new.votes} = {sv.vote.voter : sv \in ToSet(p.lock_votes)}
    OBVIOUS
  <2>9. /\ \A v, w \in new.votes : v.voter = w.voter => v = w
        /\ \A v \in new.votes :
             /\ v.proposal = new.content /\ v.voter \in ToSet(AuthAt[height])
             /\ Retained(votes', height, new.round, "Prevote", v)
    <3> HIDE DEF new, p
    <3> QED
      BY <2>2, <2>5, <2>7, <2>8 DEF CheckSignedVote
  <2>10. LET voters == {v.voter : v \in new.votes}
             former == authority.authorities_old
         IN  Cardinality(voters) * 3 > Len(former) * 2 /\ voters \cap ToSet(former) # {}
    <3> DEFINE voters == {sv.vote.voter : sv \in ToSet(p.lock_votes)}
               former == authority.authorities_old
    <3>1. Cardinality(voters) * 3 > Len(former) * 2 /\ voters \cap ToSet(former) # {}
      BY <1>7, <2>1 DEF LockVotesHold, IsAboveThreshold, ContainsSender
    <3> HIDE DEF voters, former
    <3>2. {v.voter : v \in new.votes} = voters
      BY <2>8 DEF voters
    <3> QED
      BY <3>1, <3>2 DEF former
  <2> HIDE DEF new, p
  <2>11. EvidentLock(new, authority.authorities_old, AuthAt[height], votes', height)
    BY <2>9, <2>10 DEF EvidentLock
  <2> QED
    BY <1>4, <1>5, <1>7, <2>11
<1> QED
  BY <1>4, <1>6, <1>7

LEMMA NextLocksEvident ==
  ASSUME LockInv, [Next]_vars, core'.height = height'
  PROVE  LocksEvident'
<1> USE DEF LockInv, VotesInv
<1>1. core \in CoreState /\ TypeOK /\ Filed
  BY DEF DrivenInv, TypeOK
<1>2. /\ core.height \in Nat /\ height \in Nat /\ height' \in Nat
      /\ core.height <= height /\ height <= height'
  BY <1>1, HeightRises DEF DrivenInv, CoreBehind, CoreState, Heights
\* The locks of the height are kept, and their votes are retained.
<1>3. ASSUME core'.height = core.height,
             core.height = height => \A l \in core'.locks : \/ l \in core.locks
               \/ EvidentLock(l, authority.authorities_old, AuthAt[height], votes', height)
      PROVE  LocksEvident'
  <2>1. core.height = height /\ height' = height
    BY <1>2, <1>3
  <2>2. authority' = authority
    BY <1>1, <1>2, <2>1, BlockSteps DEF chain
  <2>3. \A q, u, v : Retained(votes, height, q, u, v) => Retained(votes', height, q, u, v)
    BY NextVotes
  <2>4. \A l \in core.locks :
          EvidentLock(l, authority.authorities_old, AuthAt[height], votes', height)
    BY <2>1, <2>3 DEF LocksEvident, EvidentLock
  <2>5. \A l \in core'.locks :
          EvidentLock(l, authority.authorities_old, AuthAt[height], votes', height)
    BY <1>3, <2>1, <2>4
  <2> QED
    BY <2>1, <2>2, <2>5 DEF LocksEvident
<1>4. CASE UNCHANGED core
  BY <1>3, <1>4
<1>5. ASSUME NEW m \in SignedVote, core' = CoreVote(core, m.vote) PROVE LocksEvident'
  BY <1>1, <1>3, <1>5, CoreInputsKeep, OtherInputsLockNothing
<1>6. ASSUME NEW m \in PeerProposals, NEW known, Handles(m, known) PROVE LocksEvident'
  <2>1. HandleSignedProposal(m.signed, known)
    BY <1>6 DEF Handles
  <2>2. core'.height = core.height
    BY <1>1, <2>1, HandleSignedProposalKeeps DEF SameCore
  <2> QED
    BY <1>3, <2>1, <2>2, ShownLocks
<1>7. CASE ProcessVerifyResp \/ ProcessFeed
  BY <1>1, <1>3, <1>7, CoreInputsKeep, OtherInputsLockNothing DEF ProcessVerifyResp, ProcessFeed
<1>8. CASE CoreEmit
  <2>1. PICK o \in CoreOutputs(core) : core' = CoreEmitted(core, o)
    BY <1>8 DEF CoreEmit
  <2>2. core'.height = core.height
    <3>1. \A v : CoreVote(core, v).height = core.height
      BY <1>1, CoreInputsKeep
    <3> QED
      BY <1>1, <2>1, <3>1 DEF CoreEmitted, CoreState
  <2> QED
    BY <1>1, <1>3, <2>1, <2>2, OtherInputsLockNothing
<1>9. ASSUME NEW h \in 0 .. MaxHeight, AcceptStatus(StatusOf(h)) PROVE LocksEvident'
  <2> DEFINE power == Self \in ToSet(AuthAt[h + 1])
             c1 == StartOrPause(power)
  <2>1. c1 \in CoreState /\ c1.height = core.height
    <3>1. power \in BOOLEAN
      OBVIOUS
    <3> HIDE DEF power
    <3> QED
      BY <1>1, <3>1, CoreInputsType DEF StartOrPause, CoreRunning, CoreState
  <2>2. /\ StatusOf(h).height = h /\ StatusOf(h).authority_list = AuthAt[h + 1]
        /\ h \in Nat /\ height \in Nat
    BY <1>1, StatusOfType, BoundsAssumption DEF TypeOK, Heights
  <2>3. UNCHANGED core \/ (core' = CoreStatus(c1, StatusOf(h)) /\ h >= height)
    BY <1>9, <2>2 DEF AcceptStatus, Outdated
  <2> HIDE DEF c1
  <2>4. CASE core' = CoreStatus(c1, StatusOf(h)) /\ h >= height
    <3>1. ~(StatusOf(h).height < c1.height)
      BY <1>2, <2>1, <2>2, <2>4
    <3>2. core'.locks = {}
      BY <2>1, <2>4, <3>1 DEF CoreStatus, CoreState
    <3> QED
      BY <3>2 DEF LocksEvident
  <2> QED
    BY <1>4, <2>3, <2>4
<1> QED
  BY <1>1, <1>4, <1>5, <1>6, <1>7, <1>8, <1>9, CoreSteps

LEMMA LocksKept == Spec => []LockInv
<1>1. Init => LockInv
  BY InitVotes DEF Init, InitCore, LockInv, LocksEvident
<1>2. LockInv /\ [Next]_vars => LockInv'
  BY NextVotesInv, NextLocksEvident DEF LockInv, VotesInv
<1> QED
  BY <1>1, <1>2, PTL DEF Spec

\* Every lock a core in step was shown has more than two thirds of the former list
\* in votes of its authorities for the locked content, one each, and unless the
\* caches overflow each of them is collected under the lock round: whatever fails,
\* and whatever other votes were collected since.
THEOREM LocksShownInStep == Spec => [](core.height = height => LockEvidence)
<1>1. ASSUME LockInv, core.height = height PROVE LockEvidence
  <2>1. \A l \in core.locks : \A v \in l.votes :
          Holds(votes, height, l.round, "Prevote", v) \/ Crowded
    BY <1>1, RetainedHolds DEF LockInv, LocksEvident, EvidentLock
  <2> QED
    BY <1>1, <2>1 DEF LockInv, LocksEvident, EvidentLock, LockEvidence
<1>2. LockInv => (core.height = height => LockEvidence)
  BY <1>1
<1> QED
  BY <1>2, LocksKept, PTL

\* The same of every state, when set_height can't leave the core behind.
THEOREM LocksShown ==
  ASSUME "set_height" \notin Faults
  PROVE  Spec => []LockEvidence
<1>1. CoreInStep => core.height = height
  BY DEF CoreInStep
<1> QED
  BY <1>1, LocksShownInStep, CoreFollows, PTL

-----------------------------------------------------------------------------
(* Decisions *)

\* The blocks of what the core was given at the engine's height are at hand; while
\* cached messages are replayed no verdict of the new height is known yet.
BlocksKept ==
  /\ core.height = height => \A b \in Contents(core) : BlockAtHand(b)
  /\ pc # "select" => DOMAIN verified_block = {}

\* The vote v waits in the queue q to be signed and collected.
Waits(q, v) == \E j \in DOMAIN q : q[j].type = "Vote" /\ q[j].vote = v

\* Every vote that the core counts at the engine's height is retained, or is
\* the node's own and waits.
VotesHeld ==
  \A v \in core.votes : v.height = height =>
    Retained(votes, height, v.round, v.vote_type, v) \/ Waits(bft_recv, v)

\* The votes of a commit are precommits of its height and round.
DecisionsShaped ==
  \A i \in DOMAIN bft_recv : bft_recv[i].type = "Commit" =>
    \A v \in bft_recv[i].commit.lock_votes :
      /\ v.height = bft_recv[i].commit.height /\ v.round = bft_recv[i].commit.round
      /\ v.vote_type = "Precommit"

\* What a decision of the engine's height needs is retained, or waits ahead of it.
CommitEvident ==
  \A i \in DOMAIN bft_recv :
    (bft_recv[i].type = "Commit" /\ bft_recv[i].commit.height = height) =>
      LET c == bft_recv[i].commit
      IN  /\ BlockAtHand(c.proposal)
          /\ \A v \in c.lock_votes :
               \/ Retained(votes, height, c.round, "Precommit", v)
               \/ \E j \in 1 .. i - 1 : bft_recv[j].type = "Vote" /\ bft_recv[j].vote = v

ProvableInv == VotesInv /\ BlocksKept /\ VotesHeld /\ DecisionsShaped /\ CommitEvident

LEMMA InitProvable == Init => ProvableInv
<1> SUFFICES ASSUME Init PROVE ProvableInv
  OBVIOUS
<1>1. BlocksKept /\ VotesHeld /\ DecisionsShaped /\ CommitEvident
  BY DEF Init, InitCore, Contents, BlocksKept, VotesHeld, DecisionsShaped, CommitEvident
<1> QED
  BY <1>1, InitVotes DEF ProvableInv

\* Verdicts are remembered only while the engine is idle.
LEMMA VerdictSteps ==
  ASSUME [Next]_vars
  PROVE  \/ UNCHANGED <<verified_block, pc>> \/ (UNCHANGED verified_block /\ pc # "select")
         \/ pc' = "select" \/ verified_block' = NoVerdicts
<1> USE DEF loop, chain, blocks, caches, history
<1>1. ASSUME NEW st, AcceptStatus(st) PROVE verified_block' = NoVerdicts
  BY <1>1 DEF AcceptStatus, GotoNewHeight
<1>2. ASSUME Environment PROVE UNCHANGED <<verified_block, pc>> \/ verified_block' = NoVerdicts
  BY <1>1, <1>2 DEF Environment, ReceiveSignedVote, Panic, ReceiveSignedProposal, ReceiveStatus,
                    CoreEmit
<1>3. ASSUME LoopStep PROVE UNCHANGED verified_block /\ pc # "select"
  BY <1>3 DEF LoopStep, ReplayProposal, StartVotes, ReplayVote, StatusDone
<1>4. ASSUME AsyncStep PROVE pc' = "select"
  BY <1>4 DEF AsyncStep, ProcessVerifyResp, ProcessFeed, Idle
<1>5. ASSUME CoreStep PROVE UNCHANGED <<verified_block, pc>> \/ verified_block' = NoVerdicts
  BY <1>1, <1>5 DEF CoreStep, ProcessGetProposalRequest, ProcessProposal, ProcessVote,
                    ProcessCommit, RefuseCommit, DoCommit
<1>6. ASSUME UNCHANGED vars PROVE UNCHANGED <<verified_block, pc>>
  BY <1>6 DEF vars
<1> QED
  BY <1>2, <1>3, <1>4, <1>5, <1>6 DEF Next, EngineStep

\* The inputs of the core other than a proposal, a feed and a status give it
\* no content.
LEMMA OtherInputsGiveNothing ==
  ASSUME NEW c \in CoreState
  PROVE  /\ \A v : Contents(CoreVote(c, v)) = Contents(c)
         /\ \A x, q : Contents(CoreVerifyResp(c, x, q)) = Contents(c)
         /\ \A o : Contents(CoreEmitted(c, o)) = Contents(c)
<1>1. \A v : Contents(CoreVote(c, v)) = Contents(c)
  BY DEF CoreState, CoreVote, Contents
<1>2. \A x, q : Contents(CoreVerifyResp(c, x, q)) = Contents(c)
  BY DEF CoreState, CoreVerifyResp, Contents
<1>3. \A o : Contents(CoreEmitted(c, o)) = Contents(c)
  BY <1>1 DEF CoreState, CoreEmitted, Contents
<1> QED
  BY <1>1, <1>2, <1>3

\* What handle_signed_proposal hands to the core, and the core keeps.
LEMMA HandledContents ==
  ASSUME TypeOK, NEW sp \in SignedProposal, NEW known, HandleSignedProposal(sp, known)
  PROVE  \/ Contents(core') = Contents(core)
         \/ /\ Contents(core') = Contents(core) \cup {sp.proposal.hash}
            /\ Handed(sp, known) /\ sp.proposal.height = core.height
<1> DEFINE p == sp.proposal
           bp == ToBftProposal(p)
           c1 == CoreProposal(core, bp)
<1>1. p \in Proposal /\ core \in CoreState
  BY DEF SignedProposal, TypeOK
<1>2. bp.content = p.hash /\ bp.height = p.height
  BY DEF ToBftProposal
<1>3. c1 \in CoreState
  <2> HIDE DEF p
  <2> QED
    BY <1>1, ToBftProposalType, CoreInputsType
<1> HIDE DEF bp
<1>4. \/ Contents(c1) = Contents(core)
      \/ Contents(c1) = Contents(core) \cup {p.hash} /\ p.height = core.height
  BY <1>1, <1>2 DEF CoreProposal, Contents, CoreState
<1> HIDE DEF c1
<1>5. Contents(WithVerdict(c1, p)) = Contents(c1)
  <2>1. \A q : Contents(CoreVerifyResp(c1, p.hash, q)) = Contents(c1)
    BY <1>3, OtherInputsGiveNothing
  <2>2. WithVerdict(c1, p) = c1 \/ \E q : WithVerdict(c1, p) = CoreVerifyResp(c1, p.hash, q)
    BY DEF WithVerdict
  <2> QED
    BY <2>1, <2>2
<1>6. core' = core \/ (Handed(sp, known) /\ core' = WithVerdict(c1, p))
  BY DEF HandleSignedProposal, c1, bp
<1> QED
  BY <1>4, <1>5, <1>6

LEMMA NextBlocksKept ==
  ASSUME VotesInv, BlocksKept, [Next]_vars
  PROVE  BlocksKept'
<1> USE DEF VotesInv
<1>1. /\ core \in CoreState /\ TypeOK /\ Filed /\ core.height <= height
      /\ core.height \in Nat /\ height \in Nat
  <2>1. TypeOK /\ Filed /\ core.height <= height
    BY DEF DrivenInv, CoreBehind
  <2>2. core \in CoreState /\ height \in Heights
    BY <2>1 DEF TypeOK
  <2>3. core.height \in Heights
    BY <2>2 DEF CoreState
  <2> QED
    BY <2>1, <2>2, <2>3, BoundsAssumption DEF Heights
<1>2. pc' # "select" => DOMAIN verified_block' = {}
  BY VerdictSteps DEF BlocksKept, NoVerdicts
\* A block that was at hand still is, unless the height changes.
<1>b. ASSUME NEW b, BlockAtHand(b), ~(height' > height) PROVE BlockAtHand(b)'
  BY <1>1, <1>b, BlockSteps DEF BlockAtHand, Verified
<1>c. height' \in Nat /\ height' >= height
  BY <1>1, HeightRises
<1>3. ASSUME core'.height = core.height, Contents(core') \subseteq Contents(core)
      PROVE  BlocksKept'
  <2>1. core'.height = height' => core.height = height /\ ~(height' > height)
    BY <1>1, <1>c, <1>3
  <2> QED
    BY <1>2, <1>3, <1>b, <2>1 DEF BlocksKept
<1>4. CASE UNCHANGED core
  BY <1>3, <1>4
<1>5. ASSUME NEW m \in SignedVote, core' = CoreVote(core, m.vote) PROVE BlocksKept'
  BY <1>1, <1>3, <1>5, CoreInputsKeep, OtherInputsGiveNothing
<1>6. ASSUME NEW m \in PeerProposals, NEW known \in SUBSET Hashes, Handles(m, known)
      PROVE  BlocksKept'
  <2> DEFINE p == m.signed.proposal
  <2>1. m.signed \in SignedProposal
    BY PeersAssumption DEF ProposalMsg
  <2>2. /\ HandleSignedProposal(m.signed, known) /\ block_origin_cache' = known
        /\ height' = height
    BY <1>6 DEF Handles, chain
  <2>3. core'.height = core.height
    BY <1>1, <2>2, HandleSignedProposalKeeps DEF SameCore
  <2>4. CASE Contents(core') = Contents(core)
    BY <1>3, <2>3, <2>4
  <2>5. CASE /\ Contents(core') = Contents(core) \cup {p.hash}
             /\ Handed(m.signed, known) /\ p.height = core.height
    <3>1. core.height = height => BlockAtHand(p.hash)'
      <4> SUFFICES ASSUME core.height = height PROVE BlockAtHand(p.hash)'
        OBVIOUS
      <4>1. ~Late(p)
        BY <1>1, <2>5 DEF Late
      <4>2. Verified(p.hash) \/ p.hash \in known
        BY <2>5, <4>1 DEF Handed, BlockKnown
      <4>3. CASE p.hash \in known
        BY <2>2, <4>3 DEF BlockAtHand
      <4>4. CASE p.hash \notin known /\ ReceiveSignedProposal(m) /\ known = block_origin_cache \cup {m.block}
        <5>1. m.block # p.hash /\ Verified(p.hash)'
          BY <1>6, <4>2, <4>4 DEF Handles, Verified
        <5> QED
          BY <5>1 DEF BlockAtHand
      <4>5. CASE p.hash \notin known /\ ReplayProposal
        BY <4>2, <4>5 DEF ReplayProposal, BlocksKept, Verified
      <4> QED
        BY <1>6, <4>3, <4>4, <4>5 DEF Handles
    <3>2. ~(height' > height) /\ core'.height = core.height
      BY <1>1, <2>2, <2>3
    <3> HIDE DEF p
    <3> QED
      BY <1>2, <1>b, <2>2, <2>5, <3>1, <3>2 DEF BlocksKept
  <2> QED
    BY <1>1, <2>1, <2>2, <2>4, <2>5, HandledContents
<1>7. CASE ProcessVerifyResp
  BY <1>1, <1>3, <1>7, CoreInputsKeep, OtherInputsGiveNothing DEF ProcessVerifyResp
<1>8. CASE ProcessFeed
  <2> DEFINE f == Head(async_recv)
  <2>1. /\ core' = CoreFeed(core, f.height, f.content) /\ height' = height
        /\ block_origin_cache' = block_origin_cache \cup {f.content}
    BY <1>8 DEF ProcessFeed, chain
  <2> HIDE DEF f
  <2>2. /\ core'.height = core.height
        /\ Contents(core') \subseteq Contents(core) \cup {f.content}
    BY <1>1, <2>1 DEF CoreFeed, Contents, CoreState
  <2>3. /\ \A b \in Contents(core') : b \in Contents(core) \/ BlockAtHand(b)'
        /\ ~(height' > height)
    BY <1>1, <2>1, <2>2 DEF BlockAtHand
  <2> QED
    BY <1>2, <1>b, <2>1, <2>2, <2>3 DEF BlocksKept
<1>9. CASE CoreEmit
  <2>1. PICK o \in CoreOutputs(core) : core' = CoreEmitted(core, o)
    BY <1>9 DEF CoreEmit
  <2>2. core'.height = core.height
    <3>1. \A v : CoreVote(core, v).height = core.height
      BY <1>1, CoreInputsKeep
    <3> QED
      BY <1>1, <2>1, <3>1 DEF CoreEmitted, CoreState
  <2> QED
    BY <1>1, <1>3, <2>1, <2>2, OtherInputsGiveNothing
<1>10. ASSUME NEW h \in 0 .. MaxHeight, AcceptStatus(StatusOf(h)) PROVE BlocksKept'
  <2>1. JumpsTo(h) /\ h \in Nat
    BY <1>1, <1>10, AcceptStatusJumps, BoundsAssumption
  <2>2. height' = h + 1 /\ h >= height
    BY <2>1 DEF JumpsTo
  <2>3. core' = core \/ Contents(core') = {}
    <3> DEFINE power == Self \in ToSet(AuthAt[h + 1])
               c1 == StartOrPause(power)
    <3>1. c1 \in CoreState /\ c1.height = core.height
      <4>1. power \in BOOLEAN
        OBVIOUS
      <4> HIDE DEF power
      <4> QED
        BY <1>1, <4>1, CoreInputsType DEF StartOrPause, CoreRunning, CoreState
    <3>2. core' = core \/ core' = CoreStatus(c1, StatusOf(h))
      BY <2>1 DEF JumpsTo
    <3> HIDE DEF c1
    <3>3. StatusOf(h).height = h /\ ~(h < c1.height)
      BY <1>1, <2>1, <2>2, <3>1, StatusOfType
    <3>4. CoreStatus(c1, StatusOf(h)).proposals = {} /\ CoreStatus(c1, StatusOf(h)).feeds = {}
      BY <3>1, <3>3 DEF CoreStatus, CoreState
    <3> QED
      BY <3>2, <3>4 DEF Contents
  <2> QED
    BY <1>1, <1>2, <2>1, <2>2, <2>3 DEF BlocksKept
<1> QED
  BY <1>1, <1>4, <1>5, <1>6, <1>7, <1>8, <1>9, <1>10, CoreSteps

\* The queue moves up by d messages and gets at most one new one.
QueueMoves(d) ==
  /\ \A i \in DOMAIN bft_recv :
       d < i => (i - d) \in DOMAIN bft_recv' /\ bft_recv'[i - d] = bft_recv[i]
  /\ \A i \in DOMAIN bft_recv' :
       \/ (i + d) \in DOMAIN bft_recv /\ bft_recv'[i] = bft_recv[i + d]
       \/ /\ d = 0 /\ i = Len(bft_recv) + 1 /\ CoreEmit
          /\ bft_recv'[i] \in CoreOutputs(core) /\ core' = CoreEmitted(core, bft_recv'[i])

\* A vote of the height being decided leaves the queue to be collected.
LEMMA QueueSteps ==
  ASSUME "sign" \notin Faults, VotesInv, [Next]_vars
  PROVE  \/ QueueMoves(0)
         \/ /\ QueueMoves(1) /\ bft_recv # <<>>
            /\ (bft_recv[1].type = "Vote" /\ bft_recv[1].vote.height = height) =>
                 LET v == bft_recv[1].vote
                 IN  Retained(votes', height, v.round, v.vote_type, v)
<1> USE DEF VotesInv
<1>1. TypeOK /\ Filed /\ bft_recv \in Seq(CoreOutput)
  BY DEF DrivenInv, TypeOK
<1>2. CASE bft_recv' = bft_recv
  BY <1>1, <1>2 DEF QueueMoves
<1>3. CASE CoreEmit
  <2>1. PICK o \in CoreOutputs(core) :
          bft_recv' = Append(bft_recv, o) /\ core' = CoreEmitted(core, o)
    BY <1>3 DEF CoreEmit
  <2>2. DOMAIN bft_recv = 1 .. Len(bft_recv) /\ DOMAIN bft_recv' = 1 .. Len(bft_recv) + 1
        /\ Len(bft_recv) \in Nat
    BY <1>1, <2>1
  <2>3. \A i \in DOMAIN bft_recv : i \in DOMAIN bft_recv' /\ bft_recv'[i] = bft_recv[i]
    BY <1>1, <2>1
  <2>4. bft_recv'[Len(bft_recv) + 1] = o
    BY <1>1, <2>1
  <2>5. \A i \in DOMAIN bft_recv' : i \in DOMAIN bft_recv \/ i = Len(bft_recv) + 1
    BY <2>2
  <2> QED
    BY <1>3, <2>1, <2>2, <2>3, <2>4, <2>5 DEF QueueMoves
<1>4. ASSUME bft_recv # <<>>, bft_recv' = Tail(bft_recv) PROVE QueueMoves(1)
  <2>1. DOMAIN bft_recv = 1 .. Len(bft_recv) /\ DOMAIN bft_recv' = 1 .. Len(bft_recv) - 1
        /\ Len(bft_recv) \in Nat
    BY <1>1, <1>4
  <2>2. \A i \in DOMAIN bft_recv' : bft_recv'[i] = bft_recv[i + 1]
    BY <1>1, <1>4
  <2> QED
    BY <2>1, <2>2 DEF QueueMoves
<1>5. CASE ProcessVote
  <2> DEFINE v == bft_recv[1].vote
             sv == [vote |-> v, signature |-> Self]
  <2>1. /\ bft_recv # <<>> /\ bft_recv' = Tail(bft_recv) /\ Head(bft_recv) = bft_recv[1]
        /\ bft_recv[1] \in CoreOutput /\ bft_recv[1].type = "Vote" /\ HandleVote(v)
    BY <1>1, <1>5 DEF ProcessVote, Takes
  <2>2. v \in Vote /\ sv \in SignedVote /\ v.height \in Heights /\ v.round \in Rounds
        /\ v.vote_type \in VoteTypes
    <3>1. v \in Vote
      BY <2>1 DEF CoreOutput
    <3> HIDE DEF v
    <3> QED
      BY <3>1, SelfAssumption DEF Vote, SignedVote, Signatures
  <2>3. ASSUME v.height = height PROVE Retained(votes', height, v.round, v.vote_type, v)
    <3>1. ~Outdated(v.height)
      BY <1>1, <2>3, BoundsAssumption DEF Outdated, TypeOK, Heights
    <3>2. votes' = AddVotes(votes, v.height, v.round, v.vote_type, {sv})
      BY <2>1, <3>1 DEF HandleVote
    <3>3. {sv} \in SUBSET SignedVote /\ v.height + 1 >= height
      BY <1>1, <2>2, <2>3, BoundsAssumption DEF TypeOK, Heights
    <3>4. \A s \in {sv} : Retained(votes', height, v.round, v.vote_type, s.vote)
      <4> HIDE DEF v, sv
      <4> QED
        BY <2>2, <2>3, <3>2, <3>3, AddedKeeps
    <3> QED
      BY <3>4
  <2> QED
    BY <1>4, <2>1, <2>3
<1>6. CASE ProcessGetProposalRequest \/ ProcessProposal \/ ProcessCommit
  <2>1. bft_recv # <<>> /\ bft_recv' = Tail(bft_recv) /\ Head(bft_recv).type # "Vote"
    BY <1>6 DEF ProcessGetProposalRequest, ProcessProposal, ProcessCommit, Takes
  <2>2. Head(bft_recv) = bft_recv[1]
    BY <1>1, <2>1
  <2> QED
    BY <1>4, <2>1, <2>2
<1>7. ASSUME Environment, ~CoreEmit PROVE bft_recv' = bft_recv
  BY <1>7 DEF Environment, ReceiveSignedVote, Panic, ReceiveSignedProposal, ReceiveStatus
<1>8. ASSUME LoopStep \/ AsyncStep PROVE bft_recv' = bft_recv
  BY <1>8 DEF LoopStep, ReplayProposal, StartVotes, ReplayVote, StatusDone, AsyncStep,
              ProcessVerifyResp, ProcessFeed
<1>9. UNCHANGED vars => bft_recv' = bft_recv
  BY DEF vars
<1> QED
  BY <1>2, <1>3, <1>5, <1>6, <1>7, <1>8, <1>9 DEF Next, EngineStep, CoreStep

LEMMA NextVotesHeld ==
  ASSUME "sign" \notin Faults, VotesInv, VotesHeld, [Next]_vars
  PROVE  VotesHeld'
<1> USE DEF VotesInv
<1>1. /\ TypeOK /\ Filed /\ core \in CoreState /\ height' >= height
      /\ height \in Nat /\ height' \in Nat
      /\ \A v \in core.votes : v.height <= height
  BY HeightRises DEF DrivenInv, TypeOK, CoreBehind
\* A vote that was held still is.
<1>2. ASSUME NEW v \in core.votes, v.height = height
      PROVE  Retained(votes', height, v.round, v.vote_type, v) \/ Waits(bft_recv', v)
  <2>1. CASE Retained(votes, height, v.round, v.vote_type, v)
    BY <2>1, NextVotes
  <2>2. CASE Waits(bft_recv, v)
    <3>1. PICK j \in DOMAIN bft_recv : bft_recv[j].type = "Vote" /\ bft_recv[j].vote = v
      BY <2>2 DEF Waits
    <3>2. DOMAIN bft_recv = 1 .. Len(bft_recv)
      BY <1>1 DEF TypeOK
    <3>3. j \in Nat /\ (0 < j) /\ (j = 1 \/ 1 < j) /\ j - 0 = j
      BY <3>2
    <3> QED
      BY <1>2, <3>1, <3>3, QueueSteps DEF QueueMoves, Waits
  <2> QED
    BY <1>2, <2>1, <2>2 DEF VotesHeld
<1>3. ASSUME \A v \in core'.votes : v.height = height' /\ height' = height =>
               v \in core.votes \/ Retained(votes', height, v.round, v.vote_type, v)
                 \/ Waits(bft_recv', v),
             \A v \in core'.votes : v.height = height' => height' = height
      PROVE  VotesHeld'
  BY <1>2, <1>3 DEF VotesHeld
<1>4. ASSUME height' = height,
             \A v \in core'.votes : v.height = height =>
               v \in core.votes \/ Retained(votes', height, v.round, v.vote_type, v)
                 \/ Waits(bft_recv', v)
      PROVE  VotesHeld'
  BY <1>3, <1>4
<1>5. CASE UNCHANGED core
  BY <1>1, <1>3, <1>5
<1>6. ASSUME NEW m \in SignedVote, TakeVote(m), core' = CoreVote(core, m.vote), height' = height
      PROVE  VotesHeld'
  <2>1. core'.votes \subseteq core.votes \cup {m.vote}
    BY <1>1, <1>6, CoreInputsKeep
  <2>2. m.vote \in Vote /\ m.vote.height \in Heights /\ m.vote.round \in Rounds
        /\ m.vote.vote_type \in VoteTypes
    BY DEF SignedVote, Vote
  <2>3. votes' = AddVotes(votes, m.vote.height, m.vote.round, m.vote.vote_type, {m})
    BY <1>6 DEF TakeVote
  <2>4. m.vote.height = height =>
          Retained(votes', height, m.vote.round, m.vote.vote_type, m.vote)
    <3>1. {m} \in SUBSET SignedVote /\ (m.vote.height = height => m.vote.height + 1 >= height)
      BY <1>1
    <3>2. m.vote.height = height => \A s \in {m} :
            Retained(votes', height, m.vote.round, m.vote.vote_type, s.vote)
      BY <2>2, <2>3, <3>1, AddedKeeps
    <3> QED
      BY <3>2
  <2> QED
    BY <1>4, <1>6, <2>1, <2>4
<1>7. ASSUME NEW m \in PeerProposals, NEW known, Handles(m, known) PROVE VotesHeld'
  <2>1. core'.votes = core.votes /\ height' = height
    BY <1>1, <1>7, HandleSignedProposalKeeps DEF Handles, SameCore, chain
  <2> QED
    BY <1>4, <2>1
<1>8. CASE ProcessVerifyResp \/ ProcessFeed
  <2>1. core'.votes = core.votes /\ height' = height
    BY <1>1, <1>8, CoreInputsKeep DEF ProcessVerifyResp, ProcessFeed, chain
  <2> QED
    BY <1>4, <2>1
<1>9. CASE CoreEmit
  <2>1. PICK o \in CoreOutputs(core) :
          bft_recv' = Append(bft_recv, o) /\ core' = CoreEmitted(core, o)
    BY <1>9 DEF CoreEmit
  <2>2. height' = height
    BY <1>9 DEF CoreEmit, chain
  <2>3. o.type = "Vote" => Waits(bft_recv', o.vote)
    <3>1. bft_recv \in Seq(CoreOutput)
      BY <1>1 DEF TypeOK
    <3>2. Len(bft_recv) + 1 \in DOMAIN bft_recv' /\ bft_recv'[Len(bft_recv) + 1] = o
      BY <2>1, <3>1
    <3> QED
      BY <3>2 DEF Waits
  <2>4. core'.votes \subseteq IF o.type = "Vote" THEN core.votes \cup {o.vote} ELSE core.votes
    <3>1. \A v : CoreVote(core, v).votes \subseteq core.votes \cup {v}
      BY <1>1, CoreInputsKeep
    <3> QED
      BY <1>1, <2>1, <3>1 DEF CoreEmitted, CoreState
  <2> QED
    BY <1>4, <2>2, <2>3, <2>4
<1>10. ASSUME NEW h \in 0 .. MaxHeight, AcceptStatus(StatusOf(h)) PROVE VotesHeld'
  <2> DEFINE power == Self \in ToSet(AuthAt[h + 1])
             c1 == StartOrPause(power)
  <2>1. JumpsTo(h) /\ h \in Nat
    BY <1>1, <1>10, AcceptStatusJumps, BoundsAssumption
  <2>2. height' > height
    BY <1>1, <2>1 DEF JumpsTo
  <2>3. core'.votes \subseteq core.votes
    <3>1. c1 \in CoreState /\ c1.votes = core.votes
      <4>1. power \in BOOLEAN
        OBVIOUS
      <4> HIDE DEF power
      <4> QED
        BY <1>1, <4>1, CoreInputsType DEF StartOrPause, CoreRunning, CoreState
    <3>2. core' = core \/ core' = CoreStatus(c1, StatusOf(h))
      BY <2>1 DEF JumpsTo
    <3> HIDE DEF c1
    <3>3. CoreStatus(c1, StatusOf(h)).votes \subseteq c1.votes
      BY <3>1 DEF CoreStatus, CoreState
    <3> QED
      BY <3>1, <3>2, <3>3
  <2> QED
    BY <1>1, <1>3, <2>2, <2>3
<1> QED
  BY <1>1, <1>5, <1>6, <1>7, <1>8, <1>9, <1>10, CoreSteps DEF chain

LEMMA NextDecisionsShaped ==
  ASSUME TypeOK, DecisionsShaped, [Next]_vars
  PROVE  DecisionsShaped'
<1> DEFINE Shaped(o) == o.type = "Commit" =>
      \A v \in o.commit.lock_votes : /\ v.height = o.commit.height /\ v.round = o.commit.round
                                     /\ v.vote_type = "Precommit"
<1>1. bft_recv \in Seq(CoreOutput) /\ \A i \in DOMAIN bft_recv : Shaped(bft_recv[i])
  BY DEF TypeOK, DecisionsShaped
<1>2. ASSUME NEW o \in CoreOutputs(core) PROVE Shaped(o)
  BY <1>2 DEF CoreOutputs, RequestOutputs, ProposalOutputs, ProposalOutput, VoteOutputs,
              CommitOutputs, VotesFor
<1>3. \A i \in DOMAIN bft_recv' : Shaped(bft_recv'[i])
  <2> HIDE DEF Shaped
  <2>1. CASE bft_recv' = bft_recv
    BY <1>1, <2>1
  <2>2. CASE bft_recv # <<>> /\ bft_recv' = Tail(bft_recv)
    <3>1. \A i \in DOMAIN bft_recv' : i + 1 \in DOMAIN bft_recv /\ bft_recv'[i] = bft_recv[i + 1]
      BY <1>1, <2>2
    <3> QED
      BY <1>1, <3>1
  <2>3. ASSUME NEW o \in CoreOutputs(core), bft_recv' = Append(bft_recv, o)
        PROVE  \A i \in DOMAIN bft_recv' : Shaped(bft_recv'[i])
    <3>1. \A i \in DOMAIN bft_recv' :
            (i \in DOMAIN bft_recv /\ bft_recv'[i] = bft_recv[i]) \/ bft_recv'[i] = o
      BY <1>1, <2>3
    <3> QED
      BY <1>1, <1>2, <2>3, <3>1
  <2> QED
    BY <2>1, <2>2, <2>3, OutputSteps
<1> QED
  BY <1>3 DEF DecisionsShaped

\* What the core knows of a decision of the engine's height as it emits it.
LEMMA EmittedHeld ==
  ASSUME VotesInv, BlocksKept, VotesHeld, NEW o \in CoreOutputs(core), o.type = "Commit",
         o.commit.height = height
  PROVE  /\ BlockAtHand(o.commit.proposal)
         /\ \A v \in o.commit.lock_votes :
              \/ Retained(votes, height, o.commit.round, "Precommit", v)
              \/ Waits(bft_recv, v)
<1>1. o \in CommitOutputs(core)
  BY DEF CoreOutputs, RequestOutputs, ProposalOutputs, ProposalOutput, VoteOutputs
<1>2. PICK r \in Rounds, b \in Contents(core) :
        o.commit = [height |-> core.height, round |-> r, proposal |-> b,
                    lock_votes |-> VotesFor(core, "Precommit", r, b)]
  BY <1>1 DEF CommitOutputs
<1>3. core.height = height
  BY <1>2
<1>4. \A v \in o.commit.lock_votes : /\ v \in core.votes /\ v.height = height
                                     /\ v.round = o.commit.round /\ v.vote_type = "Precommit"
  BY <1>2, <1>3 DEF VotesFor
<1> QED
  BY <1>2, <1>3, <1>4 DEF BlocksKept, VotesHeld

LEMMA NextCommitEvident ==
  ASSUME "sign" \notin Faults, ProvableInv, [Next]_vars
  PROVE  CommitEvident'
<1> USE DEF ProvableInv, VotesInv
<1> DEFINE StillAtHand(b) ==
      \/ b \in block_origin_cache'
      \/ /\ b \in DOMAIN verified_block'
         /\ \E m \in PeerProposals : m.signed.proposal.hash = b /\ m.block # b
<1>a. \A b : StillAtHand(b) <=> BlockAtHand(b)'
  BY DEF BlockAtHand, Verified
<1> HIDE DEF StillAtHand
<1> SUFFICES ASSUME NEW i \in DOMAIN bft_recv', bft_recv'[i].type = "Commit",
                    bft_recv'[i].commit.height = height'
             PROVE  /\ StillAtHand(bft_recv'[i].commit.proposal)
                    /\ \A v \in bft_recv'[i].commit.lock_votes :
                         \/ Retained(votes', height', bft_recv'[i].commit.round, "Precommit", v)
                         \/ \E j \in 1 .. i - 1 :
                              bft_recv'[j].type = "Vote" /\ bft_recv'[j].vote = v
  BY <1>a DEF CommitEvident
<1> DEFINE c == bft_recv'[i].commit
<1>1. /\ TypeOK /\ bft_recv \in Seq(CoreOutput) /\ height' >= height
      /\ height \in Nat /\ height' \in Nat
  BY HeightRises DEF DrivenInv, TypeOK
<1>2. \A q, u, v : Retained(votes, height, q, u, v) => Retained(votes', height, q, u, v)
  BY NextVotes
<1>3. /\ DOMAIN bft_recv = 1 .. Len(bft_recv) /\ Len(bft_recv) \in Nat
      /\ \E n \in Nat : DOMAIN bft_recv' = 1 .. n
  <2>1. bft_recv' \in Seq(CoreOutput)
    BY <1>1, NextType DEF TypeOK
  <2>2. DOMAIN bft_recv' = 1 .. Len(bft_recv') /\ Len(bft_recv') \in Nat
    BY <2>1
  <2>3. \E n \in Nat : DOMAIN bft_recv' = 1 .. n
    BY <2>2
  <2>4. DOMAIN bft_recv = 1 .. Len(bft_recv) /\ Len(bft_recv) \in Nat
    BY <1>1
  <2> QED
    BY <2>3, <2>4
\* A decision that waited still can be carried out.
<1>4. ASSUME NEW d \in {0, 1}, QueueMoves(d), (i + d) \in DOMAIN bft_recv,
             bft_recv'[i] = bft_recv[i + d],
             (d = 1 /\ bft_recv[1].type = "Vote" /\ bft_recv[1].vote.height = height) =>
               LET v == bft_recv[1].vote
               IN  Retained(votes', height, v.round, v.vote_type, v)
      PROVE  /\ StillAtHand(c.proposal)
             /\ \A v \in c.lock_votes :
                  \/ Retained(votes', height', c.round, "Precommit", v)
                  \/ \E j \in 1 .. i - 1 : bft_recv'[j].type = "Vote" /\ bft_recv'[j].vote = v
  <2>1. c = bft_recv[i + d].commit /\ bft_recv[i + d].type = "Commit"
    BY <1>4
  <2>2. c.height = height' /\ height' = height
    BY <1>1, <1>4, <2>1 DEF OutputsReached
  <2>3. /\ BlockAtHand(c.proposal)
        /\ \A v \in c.lock_votes :
             \/ Retained(votes, height, c.round, "Precommit", v)
             \/ \E j \in 1 .. i + d - 1 : bft_recv[j].type = "Vote" /\ bft_recv[j].vote = v
    <3>1. PICK n \in DOMAIN bft_recv : n = i + d
      BY <1>4
    <3> HIDE DEF c
    <3>2. c = bft_recv[n].commit /\ bft_recv[n].type = "Commit" /\ c.height = height
      BY <2>1, <2>2, <3>1
    <3>3. /\ BlockAtHand(c.proposal)
          /\ \A v \in c.lock_votes :
               \/ Retained(votes, height, c.round, "Precommit", v)
               \/ \E j \in 1 .. n - 1 : bft_recv[j].type = "Vote" /\ bft_recv[j].vote = v
      BY <3>2 DEF CommitEvident
    <3>4. 1 .. n - 1 = 1 .. i + d - 1
      <4>1. i \in Nat /\ n \in Nat
        BY <1>3
      <4> QED
        BY <3>1, <4>1
    <3> QED
      BY <3>3, <3>4
  <2>4. \A v \in c.lock_votes : v.height = height /\ v.round = c.round /\ v.vote_type = "Precommit"
    BY <1>4, <2>1, <2>2 DEF DecisionsShaped
  <2>5. StillAtHand(c.proposal)
    BY <1>1, <2>2, <2>3, BlockSteps DEF BlockAtHand, Verified, StillAtHand
  <2>6. ASSUME NEW v \in c.lock_votes, Retained(votes, height, c.round, "Precommit", v)
        PROVE  Retained(votes', height', c.round, "Precommit", v)
    BY <1>2, <2>2, <2>6
  <2>7. ASSUME NEW v \in c.lock_votes, NEW j \in 1 .. i + d - 1,
               bft_recv[j].type = "Vote", bft_recv[j].vote = v
        PROVE  \/ Retained(votes', height', c.round, "Precommit", v)
               \/ \E k \in 1 .. i - 1 : bft_recv'[k].type = "Vote" /\ bft_recv'[k].vote = v
    <3> HIDE DEF c
    <3>1. j \in DOMAIN bft_recv /\ i \in Nat /\ j \in Nat /\ j >= 1
      BY <1>3, <1>4
    <3>2. CASE d < j
      <4>1. bft_recv'[j - d] = bft_recv[j] /\ (j - d) \in 1 .. i - 1
        BY <1>4, <2>7, <3>1, <3>2 DEF QueueMoves
      <4> QED
        BY <2>7, <4>1
    <3>3. CASE ~(d < j)
      <4>1. j = 1 /\ d = 1
        BY <3>1, <3>3
      <4> QED
        BY <1>4, <2>2, <2>4, <2>7, <4>1
    <3> QED
      BY <3>2, <3>3
  <2> HIDE DEF c
  <2> QED
    BY <2>3, <2>5, <2>6, <2>7
\* A new decision rests on what the core knows.
<1>5. ASSUME i = Len(bft_recv) + 1, CoreEmit, bft_recv'[i] \in CoreOutputs(core), QueueMoves(0)
      PROVE  /\ StillAtHand(c.proposal)
             /\ \A v \in c.lock_votes :
                  \/ Retained(votes', height', c.round, "Precommit", v)
                  \/ \E j \in 1 .. i - 1 : bft_recv'[j].type = "Vote" /\ bft_recv'[j].vote = v
  <2>1. UNCHANGED <<height, votes, block_origin_cache, verified_block>>
    BY <1>5 DEF CoreEmit, chain, blocks
  <2>2. /\ BlockAtHand(c.proposal)
        /\ \A v \in c.lock_votes :
             Retained(votes, height, c.round, "Precommit", v) \/ Waits(bft_recv, v)
    BY <1>5, <2>1, EmittedHeld
  <2>b. StillAtHand(c.proposal)
    BY <2>1, <2>2 DEF BlockAtHand, Verified, StillAtHand
  <2>3. \A v : Waits(bft_recv, v) =>
          \E j \in 1 .. i - 1 : bft_recv'[j].type = "Vote" /\ bft_recv'[j].vote = v
    BY <1>3, <1>5 DEF Waits, QueueMoves
  <2> HIDE DEF c
  <2> QED
    BY <2>1, <2>2, <2>3, <2>b
<1>6. CASE QueueMoves(0)
  BY <1>4, <1>5, <1>6 DEF QueueMoves
<1>7. CASE ~QueueMoves(0)
  BY <1>4, <1>7, QueueSteps DEF QueueMoves
<1> QED
  BY <1>6, <1>7

\* A vote that the core counts stays collected until its height is decided, whatever
\* else is collected, looked up or evicted and whichever calls other than sign
\* fail, unless the caches overflow.
THEOREM CountedVotesStay ==
  ASSUME "sign" \notin Faults
  PROVE  Spec => []CountedVotesHeld
<1> DEFINE HeldInv == VotesInv /\ VotesHeld
<1>1. Init => HeldInv
  BY InitProvable DEF ProvableInv
<1>2. HeldInv /\ [Next]_vars => HeldInv'
  BY NextVotesInv, NextVotesHeld
<1>3. HeldInv => CountedVotesHeld
  BY RetainedHolds DEF VotesHeld, Waits, CountedVotesHeld
<1> HIDE DEF HeldInv
<1> QED
  BY <1>1, <1>2, <1>3, PTL DEF Spec

\* Whatever arrives, is cached, replayed or looked up, and whichever calls other
\* than sign fail: what a decision of the engine's height needs to become a proof
\* and be committed is there, unless the caches overflow or a proposal came
\* with another block than it names.
THEOREM DecisionsProvable ==
  ASSUME "sign" \notin Faults
  PROVE  Spec => []CommitProvable
<1>1. ProvableInv /\ [Next]_vars => ProvableInv'
  BY NextVotesInv, NextBlocksKept, NextVotesHeld, NextDecisionsShaped, NextCommitEvident
     DEF ProvableInv, VotesInv, DrivenInv
<1>2. ASSUME ProvableInv PROVE CommitProvable
  <2> SUFFICES ASSUME NEW i \in DOMAIN bft_recv, bft_recv[i].type = "Commit",
                      bft_recv[i].commit.height = height
               PROVE  LET c == bft_recv[i].commit
                      IN  /\ BlockAtHand(c.proposal)
                          /\ \A v \in c.lock_votes :
                               \/ Holds(votes, c.height, c.round, "Precommit", v)
                               \/ \E j \in 1 .. i - 1 :
                                    bft_recv[j].type = "Vote" /\ bft_recv[j].vote = v
                               \/ Crowded
    BY DEF CommitProvable
  <2> QED
    BY <1>2, RetainedHolds DEF ProvableInv, CommitEvident
<1> QED
  BY <1>1, <1>2, InitProvable, PTL DEF Spec
=============================================================================
