----------------------------- MODULE Consensus -----------------------------
(***************************************************************************)
(* The consensus shell of one node (src/src/consensus.rs, default build:   *)
(* the wal_on feature is off).  One engine thread serves three channels in *)
(* any order: outputs of the BFT core (bft_recv), inputs of the            *)
(* application and the peers (interface_recv) and answers of its own       *)
(* helper threads (async_recv).  A handler runs to its end before the next *)
(* message is taken, except that the loops over cached messages are one    *)
(* step per message, since the core thread runs meanwhile.                 *)
(*                                                                         *)
(* interface_recv is not kept: the environment may put any input there at  *)
(* any time, so the input taken next is any of them.  A handler that       *)
(* returns an error before it has changed anything is a stuttering step    *)
(* and is not written.  What the shell sends to the core reaches it within *)
(* the step: the core's outputs depend on its inputs alone and wait in     *)
(* bft_recv, so a later reading would only be a later answer.              *)
(***************************************************************************)
EXTENDS BftCore, Collection

CONSTANTS
  AuthAt,          \* the chain's authority list of each height
  PeerVotes,       \* the signed votes that may arrive, any number of times
  PeerProposals,   \* the signed proposals that may arrive, likewise
  ContentAt,       \* the contents get_content may answer with, by height
  Valid,           \* the contents check_proposal accepts
  Faults,          \* the calls that may return Err
  OverflowChecks,  \* TRUE for a build that panics on u64 underflow
  U64Max,          \* what 0 - 1 is in a build that wraps
  MaxQueue,        \* bound: messages in bft_recv and in async_recv, no two alike in bft_recv
  MaxCached        \* bound: messages cached for one height

ASSUME ChainAssumption ==
  /\ AuthAt \in [Heights -> Seq(Nodes)] /\ AuthAt[0] = <<>>   \* no list before a status
  /\ ContentAt \in [Heights -> SUBSET Hashes]

ASSUME PeersAssumption ==
  PeerVotes \subseteq SignedVote /\ PeerProposals \subseteq ProposalMsg

ASSUME BuildAssumption ==
  /\ Valid \subseteq Hashes
  /\ Faults \subseteq {"get_content", "check_proposal", "commit", "sign", "set_height"}
  /\ OverflowChecks \in BOOLEAN
  /\ U64Max \in Nat /\ U64Max > MaxHeight + 1
  /\ MaxQueue \in Nat /\ MaxCached \in Nat

VARIABLES
  alive,               \* the engine thread has not panicked
  pc,                  \* "select", or the send_cache_* loop the engine is in
  iter,                \* what is left of the Vec that loop consumes
  height, authority, votes, proof, consensus_power,
  verified_block,      \* HashMap<Hash, bool>
  block_origin_cache,  \* the hashes with a block
  proposal_cache, vote_cache,
  bft_recv, async_recv,
  core,                \* the bft-core thread
  commits,             \* history: the calls of function.commit that returned Ok
  transmitted          \* history: the arguments of function.transmit

loop == <<alive, pc, iter>>
chain == <<height, authority, consensus_power>>
blocks == <<verified_block, block_origin_cache>>
caches == <<proposal_cache, vote_cache>>
history == <<commits, transmitted>>
vars == <<loop, chain, votes, proof, blocks, caches, bft_recv, async_recv, core, history>>

NoVerdicts == [b \in {} |-> FALSE]

Init ==
  /\ alive = TRUE /\ pc = "select" /\ iter = <<>>
  /\ height = 0 /\ authority = InitAuthority /\ consensus_power = FALSE
  /\ votes = EmptyCollector /\ proof = NoProof
  /\ verified_block = NoVerdicts /\ block_origin_cache = {}
  /\ proposal_cache = [h \in Heights |-> <<>>]
  /\ vote_cache = [h \in Heights |-> <<>>]
  /\ bft_recv = <<>> /\ async_recv = <<>>
  /\ core = InitCore
  /\ commits = <<>> /\ transmitted = {}

Idle == alive /\ pc = "select"

\* height < self.height
Outdated_loose(h) == h + 1 < height
Outdated(h) == h < height

\* height < self.height - 1, on u64
Obsolete(h) == h < IF height = 0 THEN U64Max ELSE height - 1
Underflows == OverflowChecks /\ height = 0

\* A panic ends the engine thread where it stands.
Panic ==
  /\ alive' = FALSE
  /\ UNCHANGED <<pc, iter, chain, votes, proof, blocks, caches, bft_recv, async_recv,
                 core, history>>

\* What function.check_proposal may say of a content.
Verdicts(b) == {b \in Valid} \cup (IF "check_proposal" \in Faults THEN {FALSE} ELSE {})

-----------------------------------------------------------------------------
(* handle_signed_vote *)

\* check_vote_sender
CheckVoteSender_none(m) == TRUE
CheckVoteSender_either(m) ==
  m.vote.voter \in ToSet(authority.authorities) \cup ToSet(authority.authorities_old)
CheckVoteSender(m) == m.vote.voter \in ToSet(AuthoritiesFor(authority, m.vote.height))

TakeVote_uncollected(m) ==
  /\ m.signature = m.vote.voter /\ ~Obsolete(m.vote.height) /\ m.vote.height <= height
  /\ votes' = votes
  /\ core' = IF CheckVoteSender(m) THEN CoreVote(core, m.vote) ELSE core

\* A vote that is neither obsolete, nor future, nor signed by another: it is
\* collected before its sender is checked.
TakeVote(m) ==
  /\ m.signature = m.vote.voter /\ ~Obsolete(m.vote.height) /\ m.vote.height <= height
  /\ votes' = AddVotes(votes, m.vote.height, m.vote.round, m.vote.vote_type, {m})
  /\ core' = IF CheckVoteSender(m) THEN CoreVote(core, m.vote) ELSE core

CacheVote(m) ==
  /\ m.signature = m.vote.voter /\ ~Obsolete(m.vote.height) /\ m.vote.height > height
  /\ Len(vote_cache[m.vote.height]) < MaxCached
  /\ vote_cache' = [vote_cache EXCEPT ![m.vote.height] = Append(@, m)]

\* external_process, SignedVote
ReceiveSignedVote(m) ==
  /\ Idle
  /\ \/ m.signature # Unrecoverable /\ Underflows /\ Panic
     \/ /\ ~Underflows /\ TakeVote(m)
        /\ UNCHANGED <<loop, chain, proof, blocks, caches, bft_recv, async_recv, history>>
     \/ /\ ~Underflows /\ CacheVote(m)
        /\ UNCHANGED <<loop, chain, votes, proof, blocks, proposal_cache, bft_recv,
                       async_recv, core, history>>

-----------------------------------------------------------------------------
(* handle_signed_proposal *)

\* The signature is the proposer's, the height is not obsolete and the
\* proposer is the rightful one.
Admitted(sp) ==
  LET p == sp.proposal
  IN  /\ sp.signature = p.proposer
      /\ ~Obsolete(p.height)
      /\ CheckProposer(authority, p.height, p.round, p.proposer)

\* check_signed_vote of a lock vote: its content, its voter and its signature,
\* but neither its height, its round nor its type.
CheckSignedVote(p, sv) ==
  /\ sv.vote.proposal = p.hash
  /\ sv.vote.voter \in ToSet(AuthoritiesFor(authority, p.height))
  /\ sv.signature = sv.vote.voter

\* The i-th lock vote is reached and passes; its voter is new.
LockVotePasses(p, i) == \A j \in 1 .. i : CheckSignedVote(p, p.lock_votes[j])
LockVoterIsNew(p, i) ==
  \A j \in 1 .. i - 1 : p.lock_votes[j].vote.voter # p.lock_votes[i].vote.voter

\* The lock votes that check_lock_votes collects before it returns.
CollectedLockVotes(p) ==
  {p.lock_votes[i] : i \in {k \in DOMAIN p.lock_votes :
     LockVotePasses(p, k) /\ \A j \in 1 .. k - 1 : LockVoterIsNew(p, j)}}

\* check_lock_votes returns Ok
LockVotesHold(p) ==
  LET voters == {v.vote.voter : v \in ToSet(p.lock_votes)}
      is_old == p.height = authority.authority_h_old
  IN  \/ p.lock_round = NoLock
      \/ /\ \A i \in DOMAIN p.lock_votes : LockVotePasses(p, i) /\ LockVoterIsNew(p, i)
         /\ IsAboveThreshold(authority, Cardinality(voters), is_old)
         /\ ContainsSender(authority, voters, is_old)

Justified(sp) == Admitted(sp) /\ LockVotesHold(sp.proposal)

\* verify_proof: a signature that verify_signature refuses does not fail it.
VerifyProof(pf, h, list) ==
  \/ h = 0
  \/ /\ h = pf.height
     /\ 2 * Len(list) < 3 * Cardinality(DOMAIN pf.precommit_votes)
     /\ \A a \in DOMAIN pf.precommit_votes :
          a \in ToSet(list) /\ pf.precommit_votes[a] \in {a, Unrecoverable}

\* check_proof
CheckProof(p) ==
  /\ p.height = height
  /\ VerifyProof(p.proof, p.height - 1, AuthoritiesFor(authority, p.height - 1))

Late_early(p) == p.height <= height
Late(p) == p.height + 1 = height
Verified(b) == b \in DOMAIN verified_block

\* A proposal that is not late gets to the block check, where its block is
\* known, was verified before, or is missing (LoseBlock).
BlockKnown(p, known) == Verified(p.hash) \/ p.hash \in known

Handed_blockless(sp, known) ==
  /\ Justified(sp)
  /\ Late(sp.proposal) \/ CheckProof(sp.proposal)

\* Returns Ok: the proposal goes to the core.
Handed(sp, known) ==
  /\ Justified(sp)
  /\ Late(sp.proposal) \/ (BlockKnown(sp.proposal, known) /\ CheckProof(sp.proposal))

\* The verdict that goes to the core with the proposal, if there is one.
WithVerdict(c, p) ==
  CASE Late(p) -> CoreVerifyResp(c, p.hash, TRUE)
    [] ~Late(p) /\ Verified(p.hash) -> CoreVerifyResp(c, p.hash, verified_block[p.hash])
    [] OTHER -> c

\* What check_signed_vote collects the lock votes under.
CollectLockVotes_round(p) ==
  AddVotes(votes, p.height, p.round, "Prevote", CollectedLockVotes(p))
CollectLockVotes(p) ==
  AddVotes(votes, p.height, p.lock_round, "Prevote", CollectedLockVotes(p))

\* handle_signed_proposal with the blocks in known, and what its caller then
\* sends to the core.  The content is checked before the proof is.
HandleSignedProposal(sp, known) ==
  LET p == sp.proposal
      asks == Justified(sp) /\ ~Late(p) /\ ~Verified(p.hash) /\ p.hash \in known
      adopts == /\ Handed(sp, known) /\ ~Late(p)
                /\ proof = NoProof \/ proof.height # p.height - 1
  IN  /\ votes' = IF Admitted(sp) /\ p.lock_round # NoLock
                  THEN CollectLockVotes(p) ELSE votes
      /\ \/ asks /\ \E pass \in Verdicts(p.hash) :
              async_recv' = Append(async_recv, [type |-> "VerifyResp", proposal |-> p.hash,
                                                is_pass |-> pass])
         \/ ~asks /\ UNCHANGED async_recv
      /\ proof' = IF adopts THEN p.proof ELSE proof
      /\ core' = IF Handed(sp, known) THEN WithVerdict(CoreProposal(core, ToBftProposal(p)), p)
                 ELSE core

Future(p) == p.height > height /\ p.height - height < CacheNumber

\* external_process, SignedProposal
ReceiveSignedProposal(m) ==
  LET p == m.signed.proposal
      known == block_origin_cache \cup {m.block}
  IN  /\ Idle
      /\ \/ ~Future(p) /\ m.signed.signature = p.proposer /\ Underflows /\ Panic
         \/ /\ Future(p)
            /\ Len(proposal_cache[p.height]) < MaxCached
            /\ proposal_cache' = [proposal_cache EXCEPT ![p.height] = Append(@, m)]
            /\ block_origin_cache' = known
            /\ UNCHANGED <<loop, chain, votes, proof, verified_block, vote_cache, bft_recv,
                           async_recv, core, history>>
         \/ /\ ~Future(p) /\ ~(m.signed.signature = p.proposer /\ Underflows)
            /\ Len(async_recv) < MaxQueue
            /\ HandleSignedProposal(m.signed, known)
            /\ block_origin_cache' = known
            /\ UNCHANGED <<loop, chain, verified_block, caches, bft_recv, history>>

-----------------------------------------------------------------------------
(* handle_rich_status, goto_new_height *)

\* Start when this node joins the authorities, Pause when it leaves them.
StartOrPause_start(power) == IF power THEN CoreRunning(core, TRUE) ELSE core
StartOrPause_pause(power) == IF power THEN core ELSE CoreRunning(core, FALSE)
StartOrPause(power) == IF power = consensus_power THEN core ELSE CoreRunning(core, power)

GotoNewHeight_behind(h) ==
  verified_block' = NoVerdicts /\ block_origin_cache' = {} /\ height' = h
GotoNewHeight(h) ==
  verified_block' = NoVerdicts /\ block_origin_cache' = {} /\ height' = h + 1

\* external_process, Status, when the status is not obsolete.  When set_height
\* fails the height has changed but the core is not told.
AcceptStatus(st) ==
  LET power == Self \in ToSet(st.authority_list)
  IN  /\ ~Outdated(st.height)
      /\ authority' = UpdateAuthority(authority, height, st.authority_list)
      /\ GotoNewHeight(st.height)
      /\ \/ /\ "set_height" \in Faults
            /\ UNCHANGED <<consensus_power, core, pc, iter, proposal_cache>>
         \/ /\ consensus_power' = power
            /\ core' = CoreStatus(StartOrPause(power), st)
            /\ pc' = "proposals" /\ iter' = proposal_cache[st.height + 1]
            /\ proposal_cache' = [proposal_cache EXCEPT ![st.height + 1] = <<>>]

StatusOf(h) == [height |-> h, authority_list |-> AuthAt[h + 1]]

\* The application reports that the chain has reached height h.
ReceiveStatus(h) ==
  /\ Idle
  /\ AcceptStatus(StatusOf(h))
  /\ UNCHANGED <<alive, votes, proof, vote_cache, bft_recv, async_recv, history>>

\* One turn of the loop of send_cache_proposal; an error leaves the handler.
ReplayProposal ==
  /\ alive /\ pc = "proposals" /\ iter # <<>>
  /\ HandleSignedProposal(Head(iter).signed, block_origin_cache)
  /\ IF Handed(Head(iter).signed, block_origin_cache)
     THEN iter' = Tail(iter) /\ UNCHANGED pc
     ELSE iter' = <<>> /\ pc' = "select"
  /\ UNCHANGED <<alive, chain, blocks, caches, bft_recv, history>>

\* send_cache_proposal returns Ok and send_cache_vote starts.
StartVotes ==
  /\ alive /\ pc = "proposals" /\ iter = <<>>
  /\ pc' = "votes" /\ iter' = vote_cache[height]
  /\ vote_cache' = [vote_cache EXCEPT ![height] = <<>>]
  /\ UNCHANGED <<alive, chain, votes, proof, blocks, proposal_cache, bft_recv, async_recv,
                 core, history>>

\* One turn of the loop of send_cache_vote; an error leaves the handler.
ReplayVote ==
  /\ alive /\ pc = "votes" /\ iter # <<>>
  /\ TakeVote(Head(iter))
  /\ IF CheckVoteSender(Head(iter))
     THEN iter' = Tail(iter) /\ UNCHANGED pc
     ELSE iter' = <<>> /\ pc' = "select"
  /\ UNCHANGED <<alive, chain, proof, blocks, caches, bft_recv, async_recv, history>>

StatusDone ==
  /\ alive /\ pc = "votes" /\ iter = <<>> /\ pc' = "select"
  /\ UNCHANGED <<alive, iter, chain, votes, proof, blocks, caches, bft_recv, async_recv,
                 core, history>>

-----------------------------------------------------------------------------
(* async_process *)

\* verified_block.entry(hash).or_insert(is_pass)
Remember(b, pass) ==
  IF Verified(b) THEN verified_block
  ELSE [x \in DOMAIN verified_block \cup {b} |-> IF x = b THEN pass ELSE verified_block[x]]

ProcessVerifyResp_unsent ==
  /\ Idle /\ async_recv # <<>> /\ Head(async_recv).type = "VerifyResp"
  /\ verified_block' = Remember(Head(async_recv).proposal, Head(async_recv).is_pass)
  /\ async_recv' = Tail(async_recv)
  /\ UNCHANGED <<loop, chain, votes, proof, core, block_origin_cache, caches, bft_recv, history>>

ProcessVerifyResp ==
  /\ Idle /\ async_recv # <<>> /\ Head(async_recv).type = "VerifyResp"
  /\ LET vr == Head(async_recv)
     IN  /\ core' = CoreVerifyResp(core, vr.proposal, vr.is_pass)
         /\ verified_block' = Remember(vr.proposal, vr.is_pass)
  /\ async_recv' = Tail(async_recv)
  /\ UNCHANGED <<loop, chain, votes, proof, block_origin_cache, caches, bft_recv, history>>

ProcessFeed ==
  /\ Idle /\ async_recv # <<>> /\ Head(async_recv).type = "Feed"
  /\ core' = CoreFeed(core, Head(async_recv).height, Head(async_recv).content)
  /\ block_origin_cache' = block_origin_cache \cup {Head(async_recv).content}
  /\ async_recv' = Tail(async_recv)
  /\ UNCHANGED <<loop, chain, votes, proof, verified_block, caches, bft_recv, history>>

-----------------------------------------------------------------------------
(* core_process *)

Takes(type) ==
  /\ Idle /\ bft_recv # <<>> /\ Head(bft_recv).type = type
  /\ bft_recv' = Tail(bft_recv)

\* ask_for_proposal: get_content may also fail, and then nothing is fed.
ProcessGetProposalRequest ==
  /\ Takes("GetProposalRequest")
  /\ \/ /\ Len(async_recv) < MaxQueue
        /\ \E b \in ContentAt[Head(bft_recv).height] : async_recv' = Append(async_recv,
             [type |-> "Feed", height |-> Head(bft_recv).height, content |-> b])
     \/ "get_content" \in Faults /\ UNCHANGED async_recv
  /\ UNCHANGED <<loop, chain, votes, proof, blocks, caches, core, history>>

\* generate_proof and build_signed_proposal find the signed vote of every vote.
AllHeld(h, r, t, vs) == VoteSet(votes, h, r, t) # {} /\ \A v \in vs : Holds(votes, h, r, t, v)

GenesisProof(b) ==
  [height |-> 0, round |-> 0, block_hash |-> b, precommit_votes |-> [a \in {} |-> a]]

\* What function.transmit is called with: SignedProposal with the votes that
\* lock it, or SignedVote.
Transmission ==
  [type : {"SignedProposal"}, height : Heights, round : Rounds, hash : Hashes,
   proof : Proof, lock_round : Rounds \cup {NoLock}, lock_votes : SUBSET Vote,
   proposer : Nodes, signature : Signatures]
  \cup [type : {"SignedVote"}, signed : SignedVote]

\* build_signed_proposal: the lock votes are looked up under the round of the
\* proposal, not under its lock round.
CanBuild(p) ==
  /\ proof # NoProof \/ height = 1
  /\ p.lock_round # NoLock => AllHeld(p.height, p.round, "Prevote", p.lock_votes)

Built(p) ==
  [type |-> "SignedProposal", height |-> p.height, round |-> p.round, hash |-> p.content,
   proof |-> IF height = 1 THEN GenesisProof(p.content) ELSE proof,
   lock_round |-> p.lock_round, lock_votes |-> p.lock_votes, proposer |-> p.proposer,
   signature |-> Self]

\* handle_proposal and transmit
HandleProposal(p) ==
  LET looks == p.height = height /\ (proof # NoProof \/ height = 1) /\ p.lock_round # NoLock
      sends == p.height = height /\ CanBuild(p) /\ p.content \in block_origin_cache
  IN  /\ votes' = IF looks THEN Looked(votes, p.height, p.round) ELSE votes
      /\ \/ /\ sends /\ Len(async_recv) < MaxQueue
            /\ \E pass \in Verdicts(p.content) : async_recv' = Append(async_recv,
                 [type |-> "VerifyResp", proposal |-> p.content, is_pass |-> pass])
            /\ transmitted' = transmitted \cup {Built(p)}
         \/ /\ ~sends \/ "sign" \in Faults
            /\ UNCHANGED <<async_recv, transmitted>>

ProcessProposal ==
  /\ Takes("Proposal")
  /\ HandleProposal(Head(bft_recv).proposal)
  /\ UNCHANGED <<loop, chain, proof, blocks, caches, core, commits>>

\* handle_vote and transmit
HandleVote(v) ==
  LET sv == [vote |-> v, signature |-> Self]
  IN  \/ /\ ~Outdated(v.height)
         /\ votes' = AddVotes(votes, v.height, v.round, v.vote_type, {sv})
         /\ transmitted' = transmitted \cup {[type |-> "SignedVote", signed |-> sv]}
      \/ /\ Outdated(v.height) \/ "sign" \in Faults
         /\ UNCHANGED <<votes, transmitted>>

ProcessVote ==
  /\ Takes("Vote")
  /\ HandleVote(Head(bft_recv).vote)
  /\ UNCHANGED <<loop, chain, proof, blocks, caches, async_recv, core, commits>>

\* generate_proof
SignatureOf(h, r, v) == (CHOOSE s \in VoteSet(votes, h, r, "Precommit") : s.vote = v).signature
Generated_by_vote(c) ==
  [height |-> c.height, round |-> c.round, block_hash |-> c.proposal,
   precommit_votes |-> [v \in c.lock_votes |-> SignatureOf(c.height, c.round, v)]]

Generated(c) ==
  [height |-> c.height, round |-> c.round, block_hash |-> c.proposal,
   precommit_votes |-> [a \in {v.voter : v \in c.lock_votes} |->
     SignatureOf(c.height, c.round, CHOOSE v \in c.lock_votes : v.voter = a)]]

Provable(c) == AllHeld(c.height, c.round, "Precommit", c.lock_votes)

\* handle_commit fails: the commit is obsolete, its block is unknown, or the
\* signed vote of one of its votes is.
RefuseCommit(c) ==
  /\ Outdated(c.height) \/ c.proposal \notin block_origin_cache \/ ~Provable(c)
  /\ votes' = IF ~Outdated(c.height) /\ c.proposal \in block_origin_cache
              THEN Looked(votes, c.height, c.round) ELSE votes
  /\ UNCHANGED <<loop, chain, proof, blocks, caches, core, commits>>

DoCommit_stale(c) ==
  /\ ~Outdated(c.height) /\ c.proposal \in block_origin_cache /\ Provable(c)
  /\ votes' = Looked(votes, c.height, c.round)
  /\ proof' = IF proof = NoProof THEN Generated(c) ELSE proof
  /\ \/ /\ commits' = Append(commits, [height |-> c.height, result |-> c.proposal,
                                       proof |-> Generated(c)])
        /\ AcceptStatus(StatusOf(c.height))
        /\ UNCHANGED <<alive, vote_cache>>
     \/ /\ "commit" \in Faults
        /\ UNCHANGED <<loop, chain, blocks, caches, core, commits>>

\* handle_commit, function.commit and the status it answers with.
DoCommit(c) ==
  /\ ~Outdated(c.height) /\ c.proposal \in block_origin_cache /\ Provable(c)
  /\ votes' = Looked(votes, c.height, c.round)
  /\ proof' = Generated(c)
  /\ \/ /\ commits' = Append(commits, [height |-> c.height, result |-> c.proposal,
                                       proof |-> Generated(c)])
        /\ AcceptStatus(StatusOf(c.height))
        /\ UNCHANGED <<alive, vote_cache>>
     \/ /\ "commit" \in Faults
        /\ UNCHANGED <<loop, chain, blocks, caches, core, commits>>

ProcessCommit ==
  /\ Takes("Commit")
  /\ RefuseCommit(Head(bft_recv).commit) \/ DoCommit(Head(bft_recv).commit)
  /\ UNCHANGED <<async_recv, transmitted>>

-----------------------------------------------------------------------------
\* The core thread emits an output.
CoreEmit ==
  /\ alive /\ Len(bft_recv) < MaxQueue
  /\ \E o \in CoreOutputs(core) :
       /\ o \notin ToSet(bft_recv)
       /\ bft_recv' = Append(bft_recv, o)
       /\ core' = CoreEmitted(core, o)
  /\ UNCHANGED <<loop, chain, votes, proof, blocks, caches, async_recv, history>>

\* What the engine does on its own with what it has.
LoopStep == ReplayProposal \/ StartVotes \/ ReplayVote \/ StatusDone
AsyncStep == ProcessVerifyResp \/ ProcessFeed
CoreStep == ProcessGetProposalRequest \/ ProcessProposal \/ ProcessVote \/ ProcessCommit
EngineStep == LoopStep \/ AsyncStep \/ CoreStep

Environment ==
  \/ \E m \in PeerVotes : ReceiveSignedVote(m)
  \/ \E m \in PeerProposals : ReceiveSignedProposal(m)
  \/ \E h \in 0 .. MaxHeight : ReceiveStatus(h)
  \/ CoreEmit

Next == EngineStep \/ Environment

Spec == Init /\ [][Next]_vars

\* select! takes a random one of the ready channels, so each is served in the
\* end; a loop over cached messages runs to its end.
FairSpec == Spec /\ WF_vars(LoopStep) /\ WF_vars(AsyncStep) /\ WF_vars(CoreStep)
=============================================================================
