--------------------------- MODULE MessageProofs ---------------------------
(***************************************************************************)
(* What the shell tells others: the verdicts it gives the core, and the    *)
(* proof of the last commit that it proposes with.                         *)
(***************************************************************************)
EXTENDS EvidenceProofs

-----------------------------------------------------------------------------
(* Verdicts *)

\* What waits in async_recv, or is remembered, check_proposal may have said.
HonestAnswers ==
  /\ \A i \in DOMAIN async_recv : async_recv[i].type = "VerifyResp" =>
       async_recv[i].is_pass \in Verdicts(async_recv[i].proposal)
  /\ \A b \in DOMAIN verified_block : verified_block[b] \in Verdicts(b)

\* What a core that a failed set_height left behind is told is forgotten when a
\* status brings it to the engine's height.
VerdictInv ==
  DrivenInv /\ Filed /\ HonestAnswers /\ (core.height = height => VerdictHonest)

\* async_recv is a queue of answers, and verified_block remembers the first one
\* for a content.
LEMMA AnswerSteps ==
  ASSUME [Next]_vars
  PROVE  /\ \/ async_recv' = async_recv
            \/ async_recv # <<>> /\ async_recv' = Tail(async_recv)
            \/ \E x : /\ async_recv' = Append(async_recv, x)
                      /\ x.type = "VerifyResp" => x.is_pass \in Verdicts(x.proposal)
         /\ \/ verified_block' = verified_block
            \/ verified_block' = NoVerdicts
            \/ /\ async_recv # <<>> /\ Head(async_recv).type = "VerifyResp"
               /\ verified_block' = Remember(Head(async_recv).proposal, Head(async_recv).is_pass)
<1> DEFINE Queued ==
      \/ async_recv' = async_recv
      \/ async_recv # <<>> /\ async_recv' = Tail(async_recv)
      \/ \E x : /\ async_recv' = Append(async_recv, x)
                /\ x.type = "VerifyResp" => x.is_pass \in Verdicts(x.proposal)
    Remembered ==
      \/ verified_block' = verified_block
      \/ verified_block' = NoVerdicts
      \/ /\ async_recv # <<>> /\ Head(async_recv).type = "VerifyResp"
         /\ verified_block' = Remember(Head(async_recv).proposal, Head(async_recv).is_pass)
<1> USE DEF loop, chain, blocks, caches, history
<1>1. ASSUME NEW st, AcceptStatus(st) PROVE verified_block' = NoVerdicts
  BY <1>1 DEF AcceptStatus, GotoNewHeight
<1>2. ASSUME NEW sp, NEW known, HandleSignedProposal(sp, known) PROVE Queued
  <2>1. CASE async_recv' = async_recv
    BY <2>1
  <2>2. ASSUME NEW pass \in Verdicts(sp.proposal.hash),
               async_recv' = Append(async_recv, [type |-> "VerifyResp",
                               proposal |-> sp.proposal.hash, is_pass |-> pass])
        PROVE  Queued
    BY <2>2
  <2> QED
    BY <1>2, <2>1, <2>2 DEF HandleSignedProposal
<1>3. ASSUME Environment PROVE Queued /\ Remembered
  BY <1>1, <1>2, <1>3 DEF Environment, ReceiveSignedVote, Panic, ReceiveSignedProposal,
                          ReceiveStatus, CoreEmit
<1>4. ASSUME LoopStep PROVE Queued /\ Remembered
  BY <1>2, <1>4 DEF LoopStep, ReplayProposal, StartVotes, ReplayVote, StatusDone
<1>5. ASSUME AsyncStep PROVE Queued /\ Remembered
  BY <1>5 DEF AsyncStep, ProcessVerifyResp, ProcessFeed
<1>6. ASSUME ProcessGetProposalRequest PROVE Queued /\ Remembered
  <2>1. CASE async_recv' = async_recv
    BY <1>6, <2>1 DEF ProcessGetProposalRequest
  <2>2. ASSUME NEW b, async_recv' = Append(async_recv,
                 [type |-> "Feed", height |-> Head(bft_recv).height, content |-> b])
        PROVE  Queued
    BY <2>2
  <2> QED
    BY <1>6, <2>1, <2>2 DEF ProcessGetProposalRequest
<1>7. ASSUME ProcessProposal PROVE Queued /\ Remembered
  <2> DEFINE p == Head(bft_recv).proposal
  <2>1. ASSUME NEW pass \in Verdicts(p.content),
               async_recv' = Append(async_recv, [type |-> "VerifyResp",
                               proposal |-> p.content, is_pass |-> pass])
        PROVE  Queued
    BY <2>1
  <2> HIDE DEF p
  <2>2. HandleProposal(p) /\ UNCHANGED verified_block
    BY <1>7 DEF ProcessProposal, p
  <2> QED
    BY <2>1, <2>2 DEF HandleProposal
<1>8. ASSUME ProcessVote \/ ProcessCommit PROVE Queued /\ Remembered
  BY <1>1, <1>8 DEF ProcessVote, ProcessCommit, RefuseCommit, DoCommit
<1>9. ASSUME UNCHANGED vars PROVE Queued /\ Remembered
  BY <1>9 DEF vars
<1> QED
  BY <1>3, <1>4, <1>5, <1>6, <1>7, <1>8, <1>9 DEF Next, EngineStep, CoreStep

LEMMA NextHonestAnswers ==
  ASSUME TypeOK, HonestAnswers, [Next]_vars
  PROVE  HonestAnswers'
<1> DEFINE Honest(x) == x.type = "VerifyResp" => x.is_pass \in Verdicts(x.proposal)
<1>1. async_recv \in Seq(AsyncMsg) /\ \A i \in DOMAIN async_recv : Honest(async_recv[i])
  BY DEF TypeOK, HonestAnswers
<1>2. \A i \in DOMAIN async_recv' : Honest(async_recv'[i])
  <2>1. ASSUME NEW x, async_recv' = Append(async_recv, x),
               x.type = "VerifyResp" => x.is_pass \in Verdicts(x.proposal)
        PROVE  \A i \in DOMAIN async_recv' : Honest(async_recv'[i])
    <3>1. Honest(x)
      BY <2>1
    <3> HIDE DEF Honest
    <3>2. \A i \in DOMAIN async_recv' :
            (i \in DOMAIN async_recv /\ async_recv'[i] = async_recv[i]) \/ async_recv'[i] = x
      BY <1>1, <2>1
    <3> QED
      BY <1>1, <3>1, <3>2
  <2> HIDE DEF Honest
  <2>2. CASE async_recv # <<>> /\ async_recv' = Tail(async_recv)
    <3>1. \A i \in DOMAIN async_recv' :
            i + 1 \in DOMAIN async_recv /\ async_recv'[i] = async_recv[i + 1]
      BY <1>1, <2>2
    <3> QED
      BY <1>1, <3>1
  <2>3. CASE async_recv' = async_recv
    BY <1>1, <2>3
  <2> QED
    BY <2>1, <2>2, <2>3, AnswerSteps
<1>3. \A b \in DOMAIN verified_block' : verified_block'[b] \in Verdicts(b)
  <2>1. CASE async_recv # <<>> /\ Head(async_recv).type = "VerifyResp"
             /\ verified_block' = Remember(Head(async_recv).proposal, Head(async_recv).is_pass)
    <3>1. Honest(Head(async_recv))
      <4> HIDE DEF Honest
      <4> QED
        BY <1>1, <2>1
    <3> QED
      BY <2>1, <3>1 DEF HonestAnswers, Remember
  <2> QED
    BY <2>1, AnswerSteps DEF HonestAnswers, NoVerdicts
<1> QED
  BY <1>2, <1>3 DEF HonestAnswers, Verdicts

\* Within a height the late proposals that pass are the same.
LEMMA NamedLateStays ==
  ASSUME UNCHANGED <<height, authority>>, NEW b, NamedLate(b)
  PROVE  NamedLate(b)'
<1>1. PICK m \in PeerProposals :
        m.signed.proposal.hash = b /\ m.signed.proposal.height + 1 = height /\ Justified(m.signed)
  BY DEF NamedLate
<1>2. Admitted(m.signed)'
  BY <1>1 DEF Justified, Admitted, Obsolete, CheckProposer, AuthoritiesFor
<1>3. LockVotesHold(m.signed.proposal)'
  BY <1>1 DEF Justified, LockVotesHold, LockVotePasses, LockVoterIsNew, CheckSignedVote,
              AuthoritiesFor, IsAboveThreshold, ContainsSender
<1> QED
  BY <1>1, <1>2, <1>3 DEF NamedLate, Justified

\* A step within the height that tells the core only what is right.
LEMMA JudgedStays ==
  ASSUME VerdictHonest, UNCHANGED <<height, authority>>,
         \A d \in core'.verdicts : d \in core.verdicts \/ d.is_pass \in Verdicts(d.proposal)
           \/ (d.is_pass /\ NamedLate(d.proposal))
  PROVE  VerdictHonest'
<1> SUFFICES ASSUME NEW d \in core'.verdicts
             PROVE  d.is_pass \in Verdicts(d.proposal) \/ (d.is_pass /\ NamedLate(d.proposal)')
  BY DEF VerdictHonest, Verdicts
<1>1. d.is_pass \in Verdicts(d.proposal) \/ (d.is_pass /\ NamedLate(d.proposal))
  BY DEF VerdictHonest
<1>2. \A b : NamedLate(b) => NamedLate(b)'
  BY NamedLateStays
<1> QED
  BY <1>1, <1>2

\* A proposal is handed to the core with a verdict that was given, or late.
LEMMA HandledJudged ==
  ASSUME VerdictInv, core.height = height,
         NEW m \in PeerProposals, NEW known, HandleSignedProposal(m.signed, known),
         UNCHANGED <<height, authority>>
  PROVE  VerdictHonest'
<1> DEFINE p == m.signed.proposal
           bp == ToBftProposal(p)
           c1 == CoreProposal(core, bp)
<1>1. core \in CoreState /\ VerdictHonest
  BY DEF VerdictInv, DrivenInv, TypeOK
<1>2. p \in Proposal
  BY PeersAssumption DEF ProposalMsg, SignedProposal
<1>4. CASE core' = core
  BY <1>1, <1>4, JudgedStays
<1>5. CASE Handed(m.signed, known) /\ core' = WithVerdict(c1, p)
  <2>1. NamedLate(p.hash) \/ ~Late(p)
    BY <1>5 DEF Handed, NamedLate, Late
  <2>2. c1 \in CoreState
    <3> HIDE DEF p
    <3> QED
      BY <1>1, <1>2, ToBftProposalType, CoreInputsType
  <2> HIDE DEF bp
  <2>3. c1.verdicts = core.verdicts
    BY <1>1 DEF CoreProposal, CoreState
  <2> HIDE DEF c1, p
  <2>4. CASE core' = c1
    BY <1>1, <2>3, <2>4, JudgedStays
  <2>5. ASSUME NEW pass, core' = CoreVerifyResp(c1, p.hash, pass),
               pass \in Verdicts(p.hash) \/ (pass /\ NamedLate(p.hash))
        PROVE  VerdictHonest'
    <3>1. \A d \in core'.verdicts : d \in core.verdicts
            \/ (d.proposal = p.hash /\ d.is_pass = pass)
      BY <2>2, <2>3, <2>5 DEF CoreVerifyResp, CoreState
    <3> QED
      BY <1>1, <2>5, <3>1, JudgedStays
  <2>6. CASE Late(p) /\ core' = CoreVerifyResp(c1, p.hash, TRUE)
    BY <2>1, <2>5, <2>6
  <2>7. CASE Verified(p.hash) /\ core' = CoreVerifyResp(c1, p.hash, verified_block[p.hash])
    BY <2>5, <2>7 DEF VerdictInv, HonestAnswers, Verified
  <2> QED
    BY <1>5, <2>4, <2>6, <2>7 DEF WithVerdict
<1> QED
  BY <1>4, <1>5 DEF HandleSignedProposal

LEMMA NextJudged ==
  ASSUME VerdictInv, [Next]_vars, core'.height = height'
  PROVE  VerdictHonest'
<1>1. TypeOK /\ Filed /\ core \in CoreState
  BY DEF VerdictInv, DrivenInv, TypeOK
<1>0. core'.height = core.height =>
        core.height = height /\ VerdictHonest /\ UNCHANGED <<height, authority>>
  <2>1. /\ core.height \in Nat /\ height \in Nat /\ height' \in Nat
        /\ core.height <= height /\ height <= height'
    BY <1>1, HeightRises DEF VerdictInv, DrivenInv, CoreBehind, CoreState, Heights
  <2>2. UNCHANGED <<height, authority>> \/ height' > height
    BY <1>1, BlockSteps DEF chain
  <2> QED
    BY <2>1, <2>2 DEF VerdictInv
<1>2. CASE UNCHANGED core
  BY <1>0, <1>2, JudgedStays
<1>3. ASSUME NEW m \in SignedVote, core' = CoreVote(core, m.vote) PROVE VerdictHonest'
  <2>1. core'.verdicts = core.verdicts
    BY <1>1, <1>3, OtherInputsAskNothing
  <2>2. core'.height = core.height
    BY <1>1, <1>3, CoreInputsKeep
  <2> QED
    BY <1>0, <2>1, <2>2, JudgedStays
<1>4. ASSUME NEW m \in PeerProposals, NEW known, Handles(m, known) PROVE VerdictHonest'
  <2>1. core'.height = core.height
    BY <1>1, <1>4, HandleSignedProposalKeeps DEF Handles, SameCore
  <2> QED
    BY <1>0, <1>4, <2>1, HandledJudged DEF Handles
<1>5. CASE ProcessVerifyResp
  <2> DEFINE vr == Head(async_recv)
  <2>1. /\ async_recv \in Seq(AsyncMsg) /\ async_recv # <<>> /\ vr.type = "VerifyResp"
        /\ core' = CoreVerifyResp(core, vr.proposal, vr.is_pass)
    BY <1>1, <1>5 DEF ProcessVerifyResp, TypeOK
  <2>2. vr.is_pass \in Verdicts(vr.proposal)
    <3>1. 1 \in DOMAIN async_recv /\ vr = async_recv[1]
      BY <2>1
    <3> QED
      BY <2>1, <3>1 DEF VerdictInv, HonestAnswers
  <2> HIDE DEF vr
  <2>3. /\ core'.height = core.height
        /\ \A d \in core'.verdicts : d \in core.verdicts \/ d.is_pass \in Verdicts(d.proposal)
    BY <1>1, <2>1, <2>2 DEF CoreVerifyResp, CoreState
  <2> QED
    BY <1>0, <2>3, JudgedStays
<1>6. CASE ProcessFeed
  <2>1. PICK h, x : core' = CoreFeed(core, h, x)
    BY <1>6 DEF ProcessFeed
  <2>2. core'.verdicts = core.verdicts
    BY <1>1, <2>1, OtherInputsAskNothing
  <2>3. core'.height = core.height
    BY <1>1, <2>1, CoreInputsKeep
  <2> QED
    BY <1>0, <2>2, <2>3, JudgedStays
<1>7. CASE CoreEmit
  <2>1. PICK o : core' = CoreEmitted(core, o)
    BY <1>7 DEF CoreEmit
  <2>2. core'.verdicts = core.verdicts
    BY <1>1, <2>1, OtherInputsAskNothing
  <2>3. core'.height = core.height
    <3>1. \A v : CoreVote(core, v).height = core.height
      BY <1>1, CoreInputsKeep
    <3> QED
      BY <1>1, <2>1, <3>1 DEF CoreEmitted, CoreState
  <2> QED
    BY <1>0, <2>2, <2>3, JudgedStays
<1>8. ASSUME NEW h \in 0 .. MaxHeight, AcceptStatus(StatusOf(h)) PROVE VerdictHonest'
  <2> DEFINE power == Self \in ToSet(AuthAt[h + 1])
             c1 == StartOrPause(power)
  <2>1. JumpsTo(h) /\ h \in Nat /\ height \in Nat
    BY <1>1, <1>8, AcceptStatusJumps, BoundsAssumption DEF TypeOK, Heights
  <2>2. UNCHANGED core \/ (core' = CoreStatus(c1, StatusOf(h)) /\ h >= height)
    BY <2>1 DEF JumpsTo
  <2>3. c1 \in CoreState /\ c1.height = core.height
    <3>1. power \in BOOLEAN
      OBVIOUS
    <3> HIDE DEF power
    <3> QED
      BY <1>1, <3>1, CoreInputsType DEF StartOrPause, CoreRunning, CoreState
  <2> HIDE DEF c1
  <2>4. CASE core' = CoreStatus(c1, StatusOf(h)) /\ h >= height
    <3>1. core.height <= height /\ core.height \in Nat
      BY <1>1 DEF VerdictInv, DrivenInv, CoreBehind, CoreState, Heights
    <3>2. StatusOf(h).height = h /\ ~(h < c1.height)
      BY <2>1, <2>3, <2>4, <3>1, StatusOfType
    <3>3. core'.verdicts = {}
      BY <2>3, <2>4, <3>2 DEF CoreStatus, CoreState
    <3> QED
      BY <3>3 DEF VerdictHonest
  <2> QED
    BY <1>2, <2>2, <2>4
<1> QED
  BY <1>1, <1>2, <1>3, <1>4, <1>5, <1>6, <1>7, <1>8, CoreSteps

\* Verdicts carry no height, are remembered by content, may concern a content that
\* was never proposed, and are given unseen for late proposals; still a core that
\* decides the engine's height is told only what check_proposal may say, and TRUE
\* of what an authority of the height before named in a late proposal.
THEOREM VerdictsHonestInStep == Spec => [](core.height = height => VerdictHonest)
<1>1. Init => VerdictInv
  BY InitDriven, InitFiled
     DEF Init, InitCore, VerdictInv, HonestAnswers, NoVerdicts, VerdictHonest
<1>2. VerdictInv /\ [Next]_vars => VerdictInv'
  BY NextDriven, NextFiled, NextHonestAnswers, NextJudged DEF VerdictInv, DrivenInv
<1>3. VerdictInv => (core.height = height => VerdictHonest)
  BY DEF VerdictInv
<1> QED
  BY <1>1, <1>2, <1>3, PTL DEF Spec

\* The same of every state, when set_height can't leave the core behind.
THEOREM VerdictsHonest ==
  ASSUME "set_height" \notin Faults
  PROVE  Spec => []VerdictHonest
<1>1. CoreInStep => core.height = height
  BY DEF CoreInStep
<1> QED
  BY <1>1, VerdictsHonestInStep, CoreFollows, PTL

-----------------------------------------------------------------------------
(* The proof a proposer shows *)

\* The proof kept is that of the commit of the height before, if there was one.
ProofCurrent ==
  \A i \in DOMAIN commits : commits[i].height + 1 = height => proof = commits[i].proof

\* What was committed was decided; what was proposed is of a height reached.
SentReached ==
  /\ \A i \in DOMAIN commits : commits[i].height >= 1
  /\ \A t \in transmitted : t.type = "SignedProposal" => t.height <= height

SenderInv == ProofInv /\ CommitsIncrease /\ ProofCurrent /\ SentReached /\ OwnProposalProof

\* What is transmitted is a vote, or a proposal of the engine's height with the
\* proof it keeps.
LEMMA TransmitSteps ==
  ASSUME [Next]_vars
  PROVE  \/ transmitted' = transmitted
         \/ \E t : /\ transmitted' = transmitted \cup {t} /\ UNCHANGED <<height, commits, proof>>
                   /\ t.type = "SignedProposal" =>
                        t.height = height /\ (height # 1 => t.proof = proof)
<1> DEFINE Sends ==
      \/ transmitted' = transmitted
      \/ \E t : /\ transmitted' = transmitted \cup {t} /\ UNCHANGED <<height, commits, proof>>
                /\ t.type = "SignedProposal" =>
                     t.height = height /\ (height # 1 => t.proof = proof)
<1> USE DEF loop, chain, blocks, caches, history
<1>1. ASSUME ProcessProposal PROVE Sends
  <2> DEFINE p == Head(bft_recv).proposal
  <2>1. HandleProposal(p) /\ UNCHANGED <<height, commits, proof>>
    BY <1>1 DEF ProcessProposal
  <2> HIDE DEF p
  <2>2. CASE p.height = height /\ transmitted' = transmitted \cup {Built(p)}
    <3>1. Built(p).type = "SignedProposal" /\ Built(p).height = height
          /\ (height # 1 => Built(p).proof = proof)
      BY <2>2 DEF Built
    <3> QED
      BY <2>1, <2>2, <3>1
  <2> QED
    BY <2>1, <2>2 DEF HandleProposal
<1>2. ASSUME ProcessVote PROVE Sends
  <2> DEFINE sent == [type |-> "SignedVote",
                      signed |-> [vote |-> Head(bft_recv).vote, signature |-> Self]]
  <2>1. transmitted' = transmitted \/ transmitted' = transmitted \cup {sent}
    BY <1>2 DEF ProcessVote, HandleVote
  <2>2. sent.type # "SignedProposal"
    OBVIOUS
  <2>3. UNCHANGED <<height, commits, proof>>
    BY <1>2 DEF ProcessVote
  <2> HIDE DEF sent
  <2> QED
    BY <2>1, <2>2, <2>3
<1>3. ASSUME Environment PROVE Sends
  BY <1>3 DEF Environment, ReceiveSignedVote, Panic, ReceiveSignedProposal, ReceiveStatus, CoreEmit
<1>4. ASSUME LoopStep \/ AsyncStep PROVE Sends
  BY <1>4 DEF LoopStep, ReplayProposal, StartVotes, ReplayVote, StatusDone, AsyncStep,
              ProcessVerifyResp, ProcessFeed
<1>5. ASSUME ProcessGetProposalRequest \/ ProcessCommit PROVE Sends
  BY <1>5 DEF ProcessGetProposalRequest, ProcessCommit
<1>6. ASSUME UNCHANGED vars PROVE Sends
  BY <1>6 DEF vars
<1> QED
  BY <1>1, <1>2, <1>3, <1>4, <1>5, <1>6 DEF Next, EngineStep, CoreStep

\* check_proof adopts the proof of a proposal only when the one kept is not of
\* the height before; a commit that succeeds moves the height.
LEMMA ProofSteps ==
  ASSUME "commit" \notin Faults, TypeOK, [Next]_vars
  PROVE  \/ proof' = proof
         \/ height' = height /\ (proof = NoProof \/ proof.height + 1 # height)
         \/ commits' # commits
<1> DEFINE Keeps == \/ proof' = proof
                    \/ height' = height /\ (proof = NoProof \/ proof.height + 1 # height)
<1> USE DEF loop, chain, blocks, caches, history
<1>1. height \in Nat /\ (proof = NoProof \/ proof.height \in Nat)
  BY BoundsAssumption DEF TypeOK, Heights, Proof
<1>2. ASSUME NEW m \in ProposalMsg, NEW known, HandleSignedProposal(m.signed, known),
             height' = height
      PROVE  Keeps
  <2> DEFINE p == m.signed.proposal
  <2>1. CASE Handed(m.signed, known) /\ ~Late(p) /\ (proof = NoProof \/ proof.height # p.height - 1)
    <3>1. p.height = height
      BY <2>1 DEF Handed, CheckProof
    <3> HIDE DEF p
    <3> QED
      BY <1>1, <1>2, <2>1, <3>1
  <2> QED
    BY <1>2, <2>1 DEF HandleSignedProposal
<1>3. ASSUME NEW m \in PeerProposals, ReceiveSignedProposal(m) PROVE Keeps
  BY <1>2, <1>3, PeersAssumption DEF ReceiveSignedProposal, Panic
<1>4. ASSUME ReplayProposal PROVE Keeps
  <2>1. Head(iter) \in ProposalMsg
    BY <1>4 DEF ReplayProposal, TypeOK
  <2> QED
    BY <1>2, <1>4, <2>1 DEF ReplayProposal
<1>5. ASSUME Environment PROVE Keeps
  BY <1>3, <1>5 DEF Environment, ReceiveSignedVote, Panic, CacheVote, TakeVote, ReceiveStatus, CoreEmit
<1>6. ASSUME StartVotes \/ ReplayVote \/ StatusDone \/ AsyncStep PROVE Keeps
  BY <1>6 DEF StartVotes, ReplayVote, StatusDone, AsyncStep, ProcessVerifyResp, ProcessFeed
<1>7. ASSUME ProcessGetProposalRequest \/ ProcessProposal \/ ProcessVote PROVE Keeps
  BY <1>7 DEF ProcessGetProposalRequest, ProcessProposal, ProcessVote
<1>8. ASSUME ProcessCommit PROVE Keeps \/ commits' # commits
  <2>1. commits \in Seq(Commit)
    BY DEF TypeOK
  <2>2. \A x : Append(commits, x) # commits
    <3>1. \A x : Len(Append(commits, x)) = Len(commits) + 1 /\ Len(commits) \in Nat
      BY <2>1
    <3> QED
      BY <3>1
  <2> QED
    BY <1>8, <2>2 DEF ProcessCommit, RefuseCommit, DoCommit
<1>9. ASSUME UNCHANGED vars PROVE Keeps
  BY <1>9 DEF vars
<1> QED
  BY <1>4, <1>5, <1>6, <1>7, <1>8, <1>9 DEF Next, EngineStep, LoopStep, CoreStep

\* A commit leaves its proof behind, at the height after it.
LEMMA CommittedProof ==
  ASSUME TypeOK, [Next]_vars, commits' # commits
  PROVE  \E c \in BftCommit : /\ commits' = Append(commits, Committed(c))
                              /\ c.height >= height /\ height' = c.height + 1
                              /\ proof' = Generated(c) /\ transmitted' = transmitted
<1> USE DEF loop, chain, blocks, caches, history
<1>1. ~UNCHANGED vars
  BY DEF vars
<1>2. ~Environment
  BY DEF Environment, ReceiveSignedVote, Panic, ReceiveSignedProposal, ReceiveStatus, CoreEmit
<1>3. ~(LoopStep \/ AsyncStep)
  BY DEF LoopStep, ReplayProposal, StartVotes, ReplayVote, StatusDone, AsyncStep,
         ProcessVerifyResp, ProcessFeed
<1>4. ~(ProcessGetProposalRequest \/ ProcessProposal \/ ProcessVote)
  BY DEF ProcessGetProposalRequest, ProcessProposal, ProcessVote
<1>5. ProcessCommit
  BY <1>1, <1>2, <1>3, <1>4 DEF Next, EngineStep, CoreStep
<1> DEFINE c == Head(bft_recv).commit
<1>6. bft_recv \in Seq(CoreOutput) /\ bft_recv # <<>> /\ Head(bft_recv).type = "Commit"
  BY <1>5 DEF ProcessCommit, Takes, TypeOK
<1>7. Head(bft_recv) \in CoreOutput
  BY <1>6
<1>8. c \in BftCommit /\ c.height \in 0 .. MaxHeight /\ c.height \in Nat /\ height \in Nat
  <2>1. c \in BftCommit
    BY <1>6, <1>7 DEF CoreOutput
  <2>2. height \in Nat
    BY BoundsAssumption DEF TypeOK, Heights
  <2> HIDE DEF c
  <2>3. c.height \in 1 .. MaxHeight
    BY <2>1 DEF BftCommit
  <2> QED
    BY <2>1, <2>2, <2>3, BoundsAssumption
<1> HIDE DEF c
<1>9. RefuseCommit(c) \/ DoCommit(c)
  BY <1>5 DEF ProcessCommit, c
<1>10. /\ proof' = Generated(c) /\ commits' = Append(commits, Committed(c))
       /\ ~Outdated(c.height) /\ AcceptStatus(StatusOf(c.height))
  BY <1>9 DEF RefuseCommit, DoCommit, Committed
<1>11. height' = c.height + 1
  BY <1>8, <1>10, AcceptStatusJumps DEF JumpsTo
<1>12. transmitted' = transmitted
  BY <1>5 DEF ProcessCommit
<1> QED
  BY <1>8, <1>10, <1>11, <1>12 DEF Outdated

LEMMA NextSender ==
  ASSUME "commit" \notin Faults, SenderInv, [Next]_vars
  PROVE  ProofCurrent' /\ SentReached' /\ OwnProposalProof'
<1> USE DEF SenderInv
<1>1. /\ TypeOK /\ commits \in Seq(Commit) /\ height \in Nat /\ height' \in Nat
      /\ height' >= height
  BY HeightRises DEF ProofInv, DrivenInv, TypeOK
<1>2. \A i \in DOMAIN commits : /\ commits[i].height \in Nat /\ commits[i].height < height
                                /\ commits[i].proof.height = commits[i].height
                                /\ commits[i].proof \in Proof
  <2> SUFFICES ASSUME NEW i \in DOMAIN commits
               PROVE  /\ commits[i].height \in Nat /\ commits[i].height < height
                      /\ commits[i].proof.height = commits[i].height
                      /\ commits[i].proof \in Proof
    OBVIOUS
  <2>1. commits[i] \in Commit
    BY <1>1
  <2> QED
    BY <2>1, BoundsAssumption DEF Commit, Heights, CommitsIncrease, ProofInv, CommitsVerify
<1>3. CASE commits' = commits
  <2>1. ProofCurrent'
    <3> SUFFICES ASSUME NEW i \in DOMAIN commits, commits[i].height + 1 = height'
                 PROVE  proof' = commits[i].proof
      BY <1>3 DEF ProofCurrent
    <3>1. height' = height
      BY <1>1, <1>2
    <3>2. proof = commits[i].proof
      BY <3>1 DEF ProofCurrent
    <3>3. proof # NoProof /\ proof.height + 1 = height
      BY <1>2, <3>1, <3>2, NoProofAssumption
    <3> QED
      BY <1>1, <1>3, <3>2, <3>3, ProofSteps
  <2>2. CASE transmitted' = transmitted
    <3>1. SentReached'
      <4> SUFFICES ASSUME NEW t \in transmitted, t.type = "SignedProposal"
                   PROVE  t.height <= height'
        BY <1>3, <2>2 DEF SentReached
      <4>1. t.height <= height /\ t.height \in Nat
        BY <1>1, BoundsAssumption DEF SentReached, TypeOK, Transmission, Heights
      <4> QED
        BY <1>1, <4>1
    <3> QED
      BY <1>3, <2>1, <2>2, <3>1 DEF OwnProposalProof
  <2>3. ASSUME NEW t, transmitted' = transmitted \cup {t}, UNCHANGED <<height, commits, proof>>,
               t.type = "SignedProposal" =>
                 t.height = height /\ (height # 1 => t.proof = proof)
        PROVE  SentReached' /\ OwnProposalProof'
    <3>1. SentReached'
      BY <1>1, <2>3 DEF SentReached
    <3>2. ASSUME NEW i \in DOMAIN commits, t.type = "SignedProposal",
                 t.height = commits[i].height + 1
          PROVE  t.proof = commits[i].proof
      <4>1. height # 1
        BY <1>2, <2>3, <3>2 DEF SentReached
      <4> QED
        BY <2>3, <3>2, <4>1 DEF ProofCurrent
    <3> QED
      BY <2>3, <3>1, <3>2 DEF OwnProposalProof
  <2> QED
    BY <2>1, <2>2, <2>3, TransmitSteps
<1>4. CASE commits' # commits
  <2>1. PICK c \in BftCommit :
          /\ commits' = Append(commits, Committed(c)) /\ c.height >= height
          /\ height' = c.height + 1 /\ proof' = Generated(c) /\ transmitted' = transmitted
    BY <1>1, <1>4, CommittedProof
  <2>2. \A i \in DOMAIN commits' :
          \/ i \in DOMAIN commits /\ commits'[i] = commits[i]
          \/ commits'[i] = Committed(c)
    BY <1>1, <2>1
  <2>3. c.height >= 1 /\ c.height \in Nat
    BY BoundsAssumption DEF BftCommit
  <2>4. Committed(c).height = c.height /\ Committed(c).proof = Generated(c)
    BY DEF Committed
  <2>5. \A t \in transmitted : t.type = "SignedProposal" => t.height \in Nat /\ t.height <= height
    BY <1>1, BoundsAssumption DEF SentReached, TypeOK, Transmission, Heights
  <2>6. ProofCurrent'
    <3> SUFFICES ASSUME NEW i \in DOMAIN commits', commits'[i].height + 1 = height'
                 PROVE  proof' = commits'[i].proof
      BY DEF ProofCurrent
    <3>1. ~(i \in DOMAIN commits /\ commits'[i] = commits[i])
      BY <1>1, <1>2, <2>1, <2>3
    <3> QED
      BY <2>1, <2>2, <2>4, <3>1
  <2>7. SentReached'
    <3>1. \A i \in DOMAIN commits' : commits'[i].height >= 1
      BY <2>2, <2>3, <2>4 DEF SentReached
    <3>2. \A t \in transmitted' : t.type = "SignedProposal" => t.height <= height'
      BY <1>1, <2>1, <2>5
    <3> QED
      BY <3>1, <3>2 DEF SentReached
  <2>8. OwnProposalProof'
    <3> SUFFICES ASSUME NEW t \in transmitted', NEW i \in DOMAIN commits',
                        t.type = "SignedProposal", t.height = commits'[i].height + 1
                 PROVE  t.proof = commits'[i].proof
      BY DEF OwnProposalProof
    <3>1. commits'[i] # Committed(c)
      BY <1>1, <2>1, <2>3, <2>4, <2>5
    <3> QED
      BY <2>1, <2>2, <3>1 DEF OwnProposalProof
  <2> QED
    BY <2>6, <2>7, <2>8
<1> QED
  BY <1>3, <1>4

\* Whatever proofs check_proof sees and adopts meanwhile, a node that committed a
\* height proposes at the next one with the proof of that very commit.
THEOREM OwnProofShown ==
  ASSUME "commit" \notin Faults
  PROVE  Spec => []OwnProposalProof
<1>1. Init => SenderInv
  <2>1. Init => /\ SoundOutputs /\ HonestCollector /\ CommitsVerify /\ CommitsIncrease
                /\ ProofCurrent /\ SentReached /\ OwnProposalProof
    BY DEF Init, EmptyCollector, SoundOutputs, HonestCollector, CommitsVerify, CommitsIncrease,
           ProofCurrent, SentReached, OwnProposalProof
  <2> QED
    BY <2>1, InitDriven DEF SenderInv, ProofInv
<1>2. SenderInv /\ [Next]_vars => SenderInv'
  BY NextDriven, NextSoundOutputs, NextHonestCollector, NextCommitsVerify, NextCommitsIncrease,
     NextSender DEF SenderInv, ProofInv, DrivenInv
<1>3. SenderInv => OwnProposalProof
  BY DEF SenderInv
<1> QED
  BY <1>1, <1>2, <1>3, PTL DEF Spec
=============================================================================
