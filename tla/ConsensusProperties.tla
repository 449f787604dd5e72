------------------------ MODULE ConsensusProperties ------------------------
(***************************************************************************)
(* What the consensus shell of one node promises: to the application that  *)
(* is asked to commit, to the peers it proposes and votes to, and to the   *)
(* BFT core it feeds.                                                      *)
(***************************************************************************)
EXTENDS Consensus

\* The messages in the channels, and the history, are well formed; the
\* heights stay inside the bound.
TypeOK ==
  /\ alive \in BOOLEAN /\ pc \in {"select", "proposals", "votes"}
  /\ iter \in IF pc = "proposals" THEN Seq(ProposalMsg) ELSE Seq(SignedVote)
  /\ height \in Heights /\ authority \in AuthorityManage /\ consensus_power \in BOOLEAN
  /\ votes \in VoteCollector /\ proof \in Proof \cup {NoProof}
  /\ verified_block \in UNION {[S -> BOOLEAN] : S \in SUBSET Hashes}
  /\ block_origin_cache \in SUBSET Hashes
  /\ proposal_cache \in [Heights -> Seq(ProposalMsg)]
  /\ vote_cache \in [Heights -> Seq(SignedVote)]
  /\ bft_recv \in Seq(CoreOutput) /\ async_recv \in Seq(AsyncMsg)
  /\ core \in CoreState
  /\ commits \in Seq(Commit) /\ transmitted \in SUBSET Transmission

-----------------------------------------------------------------------------
(* Authority lists *)

\* update_authority pairs each list with the height it is filed under: the
\* current list is the chain's list of the height being decided, and the old
\* list is the chain's list of authority_h_old, a strictly lower height, also
\* after the node has jumped over heights or failed half way.  After a jump
\* authority_h_old is not the height before, and messages of that height are
\* judged by the current list (lines 848, 932, 974, 992).
AuthorityTracksChain ==
  /\ authority.authorities = AuthAt[height]
  /\ authority.authorities_old = AuthAt[authority.authority_h_old]
  /\ height > 0 => authority.authority_h_old < height

\* check_vote_sender keeps strangers out: whatever list was current when a
\* vote arrived, and whether it arrived in time, early (send_cache_vote) or
\* late, the votes that the core counts for the height it decides come from
\* the authorities of that height.
CountedVotersAuthorised ==
  \A v \in core.votes : v.height = core.height => v.voter \in ToSet(AuthAt[core.height])

-----------------------------------------------------------------------------
(* The core is driven in step *)

\* When no call of set_height fails, the core decides the height the engine
\* is at, among the engine's authorities, and it runs exactly when this node
\* is one of them, across Start, Pause and jumps.
CoreInStep ==
  /\ core.height = height /\ core.authority = authority.authorities
  /\ core.running = consensus_power
  /\ consensus_power = (Self \in ToSet(AuthAt[height]))

\* The core waits for a verdict on every content it was given in a proposal:
\* handle_signed_proposal passes one along, or a VerifyResp is on its way in
\* async_recv, or the core has it.
VerdictOwed ==
  \A b \in core.proposals :
    \/ \E d \in core.verdicts : d.proposal = b
    \/ \E i \in DOMAIN async_recv : /\ async_recv[i].type = "VerifyResp"
                                    /\ async_recv[i].proposal = b

\* A late proposal, answered unseen (lines 728-736), names the content b: any
\* authority of the height before may sign one, and may name any hash in it.
NamedLate(b) ==
  \E m \in PeerProposals :
    /\ m.signed.proposal.hash = b /\ m.signed.proposal.height + 1 = height
    /\ Justified(m.signed)

\* A verdict names no height, it may wait in async_recv across a status, it is
\* remembered for later proposals of the same hash, and it may concern a content
\* the core was never given.  Still the core is told only what check_proposal may
\* say of the content, except that late proposals make it hear TRUE of what they name.
VerdictHonest ==
  \A d \in core.verdicts :
    d.is_pass \in Verdicts(d.proposal) \/ (d.is_pass /\ NamedLate(d.proposal))

-----------------------------------------------------------------------------
(* The collector keeps the evidence *)

\* The LRU caches have no room left without the present height: CACHE_NUMBER
\* rounds of it are cached (a vote is collected before its sender is checked, so
\* anyone's votes fill them), or CACHE_NUMBER heights, none below the height
\* before (only proposals CACHE_NUMBER or more ahead bring those in).
Crowded ==
  \/ Len(votes.rounds[height]) = CacheNumber
  \/ /\ Len(votes.heights) = CacheNumber
     /\ \A h \in ToSet(votes.heights) : h + 1 >= height

\* What a Commit will need: a vote that the core counts for the present height
\* stays collected under its own keys, or is this node's and waits in bft_recv,
\* whatever votes of other rounds and heights are collected or looked up in
\* between.  (No sign fault.)
CountedVotesHeld ==
  \A v \in core.votes : v.height = height =>
    \/ Holds(votes, v.height, v.round, v.vote_type, v)
    \/ \E i \in DOMAIN bft_recv : bft_recv[i].type = "Vote" /\ bft_recv[i].vote = v
    \/ Crowded

\* The lock that a proposal shows the core: one vote each of so many authorities of
\* its height, all for the locked content, as is_above_threshold and
\* contains_sender ask for by the list before; and each is filed as a prevote of
\* the lock round, while the caches have room.  check_signed_vote compares
\* neither the type nor the height nor the round of the vote with the lock.
LockEvidence ==
  \A l \in core.locks :
    LET voters == {v.voter : v \in l.votes}
        former == authority.authorities_old
    IN  /\ Cardinality(voters) * 3 > Len(former) * 2 /\ voters \cap ToSet(former) # {}
        /\ voters \subseteq ToSet(AuthAt[core.height])
        /\ \A v, w \in l.votes : v.voter = w.voter => v = w
        /\ \A v \in l.votes : /\ v.proposal = l.content
                              /\ Holds(votes, core.height, l.round, "Prevote", v) \/ Crowded

-----------------------------------------------------------------------------
(* Commits *)

\* The block of b is cached, or was not asked for: while a verdict on b is
\* remembered, a proposal of b passes that came with another block.
BlockAtHand(b) ==
  \/ b \in block_origin_cache
  \/ Verified(b) /\ \E m \in PeerProposals : m.signed.proposal.hash = b /\ m.block # b

\* A decision of the core can be carried out: when a Commit of the current
\* height waits in bft_recv, its block is at hand, and the signed vote of each of
\* its votes is collected, or is this node's own vote in a message ahead of it,
\* while the caches have room.  (No sign fault.)
CommitProvable ==
  \A i \in DOMAIN bft_recv :
    (bft_recv[i].type = "Commit" /\ bft_recv[i].commit.height = height) =>
      LET c == bft_recv[i].commit
      IN  /\ BlockAtHand(c.proposal)
          /\ \A v \in c.lock_votes :
               \/ Holds(votes, c.height, c.round, "Precommit", v)
               \/ \E j \in 1 .. i - 1 : bft_recv[j].type = "Vote" /\ bft_recv[j].vote = v
               \/ Crowded

\* The proof of each commit convinces any node that knows the chain: more than
\* two thirds of the authorities of its height, no one else, each with a
\* signature that recovers to the voter.
CommitsVerify ==
  \A i \in DOMAIN commits :
    LET pf == commits[i].proof
        list == AuthAt[commits[i].height]
    IN  /\ pf.height = commits[i].height
        /\ TwoThirds(DOMAIN pf.precommit_votes, Len(list))
        /\ \A a \in DOMAIN pf.precommit_votes :
             a \in ToSet(list) /\ pf.precommit_votes[a] = a

\* The application never takes a height twice, nor a lower one after it, although
\* the core may repeat a Commit and late ones may wait in bft_recv across a
\* status.  (A call of function.commit that failed may be made again.)
CommitsIncrease ==
  /\ \A i \in DOMAIN commits : commits[i].height < height
  /\ \A i, j \in DOMAIN commits : i < j => commits[i].height < commits[j].height

-----------------------------------------------------------------------------
(* The shell implements the abstract node of ChainDriver *)

\* A commit as the application sees it: its height, its block, its voters.
DecisionOf(c) ==
  [height |-> c.height, block |-> c.result, voters |-> DOMAIN c.proof.precommit_votes]

QuorumsAt ==
  [h \in Heights |-> {voters \in SUBSET ToSet(AuthAt[h]) : TwoThirds(voters, Len(AuthAt[h]))}]

Driver == INSTANCE ChainDriver WITH
            at <- height, decided <- [i \in DOMAIN commits |-> DecisionOf(commits[i])],
            Quorums <- QuorumsAt, Blocks <- Hashes

\* Queues, caches, late answers and failing calls are invisible to the
\* application: every step of the engine is a decision of the height it is at
\* by that height's authorities, a move up the chain, or nothing at all.
DrivesChain == Driver!DriverSpec

-----------------------------------------------------------------------------
(* Messages sent *)

\* A node that committed the previous height itself proposes with the proof of
\* that commit, whatever proofs check_proof has seen since.
OwnProposalProof ==
  \A t \in transmitted, i \in DOMAIN commits :
    (t.type = "SignedProposal" /\ t.height = commits[i].height + 1) =>
      t.proof = commits[i].proof

-----------------------------------------------------------------------------
(* Progress, under FairSpec *)

\* Each content proposed to the core gets its verdict, unless the chain moves on.
VerdictDelivered ==
  \A h \in Heights, b \in Hashes :
    (core.height = h /\ b \in core.proposals)
      ~> (core.height # h \/ \E d \in core.verdicts : d.proposal = b)

\* A decision moves the node: once the core has emitted a Commit of a height,
\* the engine leaves that height behind.
DecisionAdvances ==
  \A h \in Heights :
    (\E i \in DOMAIN bft_recv : bft_recv[i].type = "Commit" /\ bft_recv[i].commit.height = h)
      ~> height > h

-----------------------------------------------------------------------------
(* What comments and messages of the source say, and the code does not do *)

\* "Consensus hands over bft_proposal to bft-rs!" (consensus.rs:368): a cached
\* proposal that is rightful, well locked and well proved reaches the core
\* when its height comes.
CachedProposalHandedOver ==
  [][(pc = "proposals" /\ iter # <<>> /\ iter' # iter) =>
       LET m == Head(iter)
       IN  (Justified(m.signed) /\ CheckProof(m.signed.proposal))
             => m.signed.proposal.hash \in core'.proposals]_vars

\* "The lock votes of a proposal." (types.rs:122): when the core proposes again
\* what it is locked on, and the signed lock votes are collected under their
\* round, the proposal goes out with them.
LockedProposalSent ==
  [][(Idle /\ bft_recv # <<>> /\ bft_recv' = Tail(bft_recv) /\ Head(bft_recv).type = "Proposal") =>
       LET p == Head(bft_recv).proposal
       IN  (/\ p.height = height /\ p.content \in block_origin_cache
            /\ p.lock_round # NoLock /\ (proof # NoProof \/ height = 1)
            /\ \A v \in p.lock_votes : Holds(votes, p.height, p.lock_round, "Prevote", v))
           => \E t \in transmitted' : /\ t.type = "SignedProposal" /\ t.height = p.height
                                      /\ t.round = p.round /\ t.lock_votes = p.lock_votes]_vars

\* "The authority list at present." (types.rs:389): a lock of the current
\* height is held by two thirds of the present authorities.
LockQuorum ==
  \A m \in PeerProposals :
    LET p == m.signed.proposal
    IN  (p.height = height /\ p.lock_round # NoLock /\ LockVotesHold(p))
          => TwoThirds({v.vote.voter : v \in ToSet(p.lock_votes)}, Len(authority.authorities))
=============================================================================
