------------------------------ MODULE BftCore ------------------------------
(***************************************************************************)
(* The BFT state machine of the external crate bft-core, seen through the  *)
(* channel the shell shares with it: what it remembers of the inputs       *)
(* (CoreInput) it was sent, and which outputs (CoreOutput) it may then     *)
(* emit.  It is deliberately liberal: any output that the inputs of the    *)
(* current height support may be emitted, at any time and, for a commit,   *)
(* more than once.  It does not check voters against the authority list:   *)
(* that is the shell's work (check_vote_sender).                           *)
(***************************************************************************)
EXTENDS Authority

CONSTANT Self               \* the address of this node
ASSUME SelfAssumption == Self \in Nodes

\* A content, the round it was locked in and the prevotes that locked it.
Lock == [content : Hashes, round : Rounds, votes : SUBSET Vote]

CoreState ==
  [running : BOOLEAN,       \* between Start and Pause
   height : Heights,        \* the height being decided, 0 before a Status
   authority : Seq(Nodes),
   votes : SUBSET Vote,     \* own votes and those handed over by the shell
   proposals : SUBSET Hashes,  \* contents proposed at this height
   locks : SUBSET Lock,     \* the locks those proposals showed
   feeds : SUBSET Hashes,      \* contents fed at this height
   verdicts : SUBSET [proposal : Hashes, is_pass : BOOLEAN],
   proposed : SUBSET Rounds]   \* the rounds it has proposed in

InitCore == [running |-> FALSE, height |-> 0, authority |-> <<>>, votes |-> {},
             proposals |-> {}, locks |-> {}, feeds |-> {}, verdicts |-> {}, proposed |-> {}]

-----------------------------------------------------------------------------
(* CoreInput *)

CoreStatus(c, st) ==
  IF st.height < c.height THEN c
  ELSE [c EXCEPT !.height = st.height + 1, !.authority = st.authority_list,
                 !.votes = {v \in @ : v.height > st.height},
                 !.proposals = {}, !.locks = {}, !.feeds = {}, !.verdicts = {},
                 !.proposed = {}]

CoreRunning(c, b) == [c EXCEPT !.running = b]         \* Start and Pause

CoreVote(c, v) ==
  IF v.height < c.height THEN c ELSE [c EXCEPT !.votes = @ \cup {v}]

CoreProposal(c, p) ==
  IF p.height # c.height THEN c
  ELSE [c EXCEPT !.proposals = @ \cup {p.content},
                 !.locks = IF p.lock_round = NoLock THEN @
                           ELSE @ \cup {[content |-> p.content, round |-> p.lock_round,
                                         votes |-> p.lock_votes]}]

CoreFeed(c, h, content) ==
  IF h # c.height THEN c ELSE [c EXCEPT !.feeds = @ \cup {content}]

\* A VerifyResp names a content and no height.
CoreVerifyResp(c, content, pass) ==
  [c EXCEPT !.verdicts = @ \cup {[proposal |-> content, is_pass |-> pass]}]

-----------------------------------------------------------------------------
(* CoreOutput: what the core may emit in state c *)

Deciding(c) == c.running /\ c.height \in 1 .. MaxHeight

VotesFor(c, t, r, b) ==
  {v \in c.votes : v.vote_type = t /\ v.height = c.height /\ v.round = r /\ v.proposal = b}

HasQuorum(c, t, r, b) ==
  TwoThirds({v.voter : v \in VotesFor(c, t, r, b)}, Len(c.authority))

Proposes(c, r) ==
  /\ c.authority # <<>>
  /\ ProposerOf(c.authority, c.height, r) = Self
  /\ r \notin c.proposed

Contents(c) == c.proposals \cup c.feeds

\* The locks the core knows: those it was shown and those it saw itself.
LocksOf(c) ==
  c.locks \cup {[content |-> q[1], round |-> q[2], votes |-> VotesFor(c, "Prevote", q[2], q[1])] :
                  q \in {x \in Contents(c) \X Rounds : HasQuorum(c, "Prevote", x[2], x[1])}}

ProposalOutput(c, r, b, lr, lv) ==
  [type |-> "Proposal",
   proposal |-> [height |-> c.height, round |-> r, content |-> b,
                 lock_round |-> lr, lock_votes |-> lv, proposer |-> Self]]

\* A proposer proposes what it was fed, or again what is locked with its lock.
ProposalOutputs(c) ==
  LET rounds == {r \in Rounds : Proposes(c, r)}
  IN  {ProposalOutput(c, r, b, NoLock, {}) : r \in rounds, b \in c.feeds}
      \cup {ProposalOutput(c, q[1], q[2].content, q[2].round, q[2].votes) :
              q \in {x \in rounds \X LocksOf(c) : x[2].round < x[1]}}

\* One vote of each type in a round; a precommit follows a quorum of prevotes.
VoteOutputs(c) ==
  {[type |-> "Vote", vote |-> v] :
     v \in {w \in [vote_type : VoteTypes, height : {c.height}, round : Rounds,
                   proposal : Contents(c), voter : {Self}] :
              /\ w.vote_type = "Precommit" => HasQuorum(c, "Prevote", w.round, w.proposal)
              /\ ~\E o \in c.votes : /\ o.voter = Self /\ o.vote_type = w.vote_type
                                     /\ o.height = w.height /\ o.round = w.round}}

CommitOutputs(c) ==
  {[type |-> "Commit",
    commit |-> [height |-> c.height, round |-> q[1], proposal |-> q[2],
                lock_votes |-> VotesFor(c, "Precommit", q[1], q[2])]] :
     q \in {x \in Rounds \X Contents(c) : HasQuorum(c, "Precommit", x[1], x[2])}}

RequestOutputs(c) ==
  IF c.feeds = {} /\ \E r \in Rounds : Proposes(c, r)
  THEN {[type |-> "GetProposalRequest", height |-> c.height]} ELSE {}

CoreOutputs(c) ==
  IF Deciding(c)
  THEN RequestOutputs(c) \cup ProposalOutputs(c) \cup VoteOutputs(c) \cup CommitOutputs(c)
  ELSE {}

\* The core counts its own vote, and notes the round of its proposal, as it emits them.
CoreEmitted(c, o) ==
  CASE o.type = "Vote" -> CoreVote(c, o.vote)
    [] o.type = "Proposal" -> [c EXCEPT !.proposed = @ \cup {o.proposal.round}]
    [] OTHER -> c
=============================================================================
