------------------------------ MODULE Recovery ------------------------------
(***************************************************************************)
(* The consensus shell built with the wal_on feature: every handler saves   *)
(* what it handles, the process may end at any point, and the next one      *)
(* loads the log of the height it was at (load_wal_log) before it serves    *)
(* its channels.  The memory of the engine and the core is lost; the log,   *)
(* the chain of the application and what was sent to the peers are not.     *)
(* The log is written as module Wal does it, a save or a set_height at a    *)
(* time; a save may fail, and a set_height that fails is left to Wal.       *)
(***************************************************************************)
EXTENDS ConsensusProperties, WalFormat

CONSTANTS
  MaxCrashes,    \* bound: ends of the process
  MaxUnsaved,    \* bound: failed saves
  MaxCopies      \* bound: how often a handler saves the same record

ASSUME RecoveryAssumption ==
  /\ MaxCrashes \in Nat /\ MaxUnsaved \in Nat /\ MaxCopies \in Nat
  /\ "set_height" \notin Faults
  /\ ~OverflowChecks      \* else the replay of a vote ends the engine thread

VARIABLES
  wal,           \* the log files by height, the open ones, current_height
  chain_height,  \* history: a height the chain had when the process started
  crashes, unsaved

recovery == <<chain_height, crashes>>
rvars == <<vars, wal, recovery, unsaved>>

RecInit ==
  /\ Init
  /\ wal = [files |-> [h \in 0 .. MaxHeight + 2 |-> <<>>], open |-> {0}, current |-> 0]
  /\ chain_height = 0 /\ crashes = 0 /\ unsaved = 0

Record(type, msg) == [type |-> type, msg |-> msg, len |-> 1]

\* Wal::save, as far as it gets: nothing is written for a height that is
\* neither open nor the next.
Put(w, h, cells) ==
  IF h \in w.open \/ h = w.current + 1
  THEN [w EXCEPT !.open = @ \cup {h}, !.files[h] = @ \o cells] ELSE w
Save(w, h, type, msg) == Put(w, h, Written(Record(type, msg)))

\* Wal::set_height
SetHeight_unopened(w, h) == [w EXCEPT !.current = h]
SetHeight(w, h) ==
  [files |-> [x \in DOMAIN w.files |->
                IF x \in w.open /\ x + DELETE_FILE_INTERVAL < h THEN <<>> ELSE w.files[x]],
   open |-> {x \in w.open \cup {h} : x + DELETE_FILE_INTERVAL >= h},
   current |-> h]

SaveStatus(w, st) == Save(w, st.height, "rich_status", st)

\* handle_rich_status saves the status under the height it reports.
AfterStatus_behind(w, st) == SetHeight(SaveStatus(w, st), st.height)
AfterStatus(w, st) == SetHeight(SaveStatus(w, st), st.height + 1)

-----------------------------------------------------------------------------
(* The handlers with their saves.  Those of Consensus that save nothing are *)
(* used as they are; ReplayProposal never runs, since no proposal is cached. *)

SaveVote(m) == Save(wal, m.vote.height, "raw_bytes", m)

SavedReceiveSignedVote(m) ==
  /\ ReceiveSignedVote(m)
  /\ wal' = IF /\ m.vote.height >= height
               /\ m.vote.height - height < CacheNumber
            THEN SaveVote(m) ELSE wal

SavedReplayVote == ReplayVote /\ wal' = SaveVote(Head(iter))

\* serde_json writes no map whose keys are byte strings, unless it is empty.
Serializable(p) == DOMAIN p.proof.precommit_votes = {}

\* The bytes of a future proposal are no UTF-8, so it is not saved, and it is
\* not cached either: of a proposal that can't be saved only the block is kept.
SavedReceiveSignedProposal(m) ==
  LET p == m.signed.proposal
      reached == m.signed.signature = p.proposer /\ ~Obsolete(p.height)
      lost == Future(p) \/ (reached /\ ~Serializable(p))
  IN  \/ /\ Idle /\ lost
         /\ block_origin_cache' = block_origin_cache \cup {m.block}
         /\ UNCHANGED <<loop, chain, votes, proof, verified_block, caches, bft_recv, async_recv,
                        core, history, wal>>
      \/ /\ ~lost /\ ReceiveSignedProposal(m)
         /\ wal' = IF reached THEN Save(wal, p.height, "signed_proposal", m.signed) ELSE wal

\* A status in the channel is no older than the process.
SavedReceiveStatus(h) ==
  h >= chain_height /\ ReceiveStatus(h) /\ wal' = AfterStatus(wal, StatusOf(h))

SavedVerifyResp ==
  ProcessVerifyResp /\ wal' = Save(wal, height, "verify_resp", Head(async_recv))

SavedFeed == ProcessFeed /\ wal' = Save(wal, height, "feed", Head(async_recv))

SaveProposal(p) == IF p.height = height THEN Save(wal, height, "proposal", p) ELSE wal
SavedProcessProposal == ProcessProposal /\ wal' = SaveProposal(Head(bft_recv).proposal)

SaveOwnVote(v) == IF Outdated(v.height) THEN wal ELSE Save(wal, v.height, "vote", v)
SavedProcessVote == ProcessVote /\ wal' = SaveOwnVote(Head(bft_recv).vote)

SaveCommit(c) == IF Outdated(c.height) THEN wal ELSE Save(wal, c.height, "commit", c)
SavedProcessCommit ==
  /\ ProcessCommit
  /\ LET c == Head(bft_recv).commit
     IN  wal' = IF height' = height THEN SaveCommit(c)
                ELSE AfterStatus(SaveCommit(c), StatusOf(c.height))

-----------------------------------------------------------------------------
(* A save fails (SaveWalErr) and the handler returns where it stands.  For   *)
(* outputs of the core and for statuses it leaves nothing, or a header      *)
(* without a body; what it may leave for the messages of peers and for the   *)
(* answers of the application is taken to be nothing.  Votes of peers and    *)
(* statuses of the application are then as good as not received.             *)

Torn(w, h, type, msg) == Put(w, h, SubSeq(Written(Record(type, msg)), 1, 2))

\* handle_proposal, handle_vote, handle_commit: nothing else is done.
LosesProposal ==
  /\ Takes("Proposal") /\ Head(bft_recv).proposal.height = height
  /\ wal' \in {wal, Torn(wal, height, "proposal", Head(bft_recv).proposal)}
LosesVote ==
  LET v == Head(bft_recv).vote
  IN  /\ Takes("Vote") /\ ~Outdated(v.height)
      /\ wal' \in {wal, Torn(wal, v.height, "vote", v)}
LosesCommit ==
  LET c == Head(bft_recv).commit
  IN  /\ Takes("Commit") /\ ~Outdated(c.height)
      /\ wal' \in {wal, Torn(wal, c.height, "commit", c)}
LosesOutput ==
  /\ LosesProposal \/ LosesVote \/ LosesCommit
  /\ UNCHANGED <<loop, chain, votes, proof, blocks, caches, async_recv, core, history>>

\* The application has committed, and the status it answered with is not
\* followed: the node stays where it is.
LosesStatus ==
  /\ Takes("Commit")
  /\ LET c == Head(bft_recv).commit
     IN  /\ ~Outdated(c.height) /\ c.proposal \in block_origin_cache /\ Provable(c)
         /\ votes' = Looked(votes, c.height, c.round) /\ proof' = Generated(c)
         /\ commits' = Append(commits, [height |-> c.height, result |-> c.proposal,
                                        proof |-> Generated(c)])
         /\ wal' \in {SaveCommit(c),
                      Torn(SaveCommit(c), c.height, "rich_status", StatusOf(c.height))}
  /\ UNCHANGED <<loop, chain, blocks, caches, async_recv, core, transmitted>>

\* Of a proposal only the block is kept.
LosesSignedProposal(m) ==
  /\ Idle /\ m.signed.signature = m.signed.proposal.proposer
  /\ ~Obsolete(m.signed.proposal.height)
  /\ block_origin_cache' = block_origin_cache \cup {m.block}
  /\ UNCHANGED <<loop, chain, votes, proof, verified_block, caches, bft_recv, async_recv, core,
                 history, wal>>

\* async_process saves what it has already done.
LosesAnswer == (ProcessVerifyResp \/ ProcessFeed) /\ UNCHANGED wal

\* The error ends send_cache_vote, with the votes that are left.
LeavesVotes ==
  /\ alive /\ pc = "votes" /\ iter # <<>> /\ iter' = <<>> /\ pc' = "select"
  /\ UNCHANGED <<alive, chain, votes, proof, blocks, caches, bft_recv, async_recv, core,
                 history, wal>>

\* load_wal_log skips a commit that it can't save once more.
SkipsCommit ==
  /\ alive /\ pc = "replay" /\ iter # <<>> /\ Head(iter).type = "commit"
  /\ ~Outdated(Head(iter).msg.height)
  /\ iter' = Tail(iter)
  /\ UNCHANGED <<alive, pc, chain, votes, proof, blocks, caches, bft_recv, async_recv, core,
                 history, wal>>

SaveFails ==
  /\ unsaved < MaxUnsaved /\ unsaved' = unsaved + 1
  /\ \/ LosesOutput \/ LosesStatus \/ LosesAnswer \/ LeavesVotes \/ SkipsCommit
     \/ \E m \in PeerProposals : LosesSignedProposal(m)
  /\ UNCHANGED recovery

-----------------------------------------------------------------------------
(* load_wal_log, a record at a time *)

ReplayGoesOn == iter' = Tail(iter) /\ UNCHANGED pc
ReplayFails == iter' = <<>> /\ pc' = "select"

\* A record of another type or with another text is skipped, or it is an error.
\* extract finds no length in the text of a signed proposal.
ReplayUnreadable ==
  /\ \/ Head(iter).type = "signed_proposal" /\ ReplayFails
     \/ Head(iter) = Junk /\ (ReplayFails \/ ReplayGoesOn)
  /\ UNCHANGED <<alive, chain, votes, proof, blocks, caches, bft_recv, async_recv, core,
                 history, wal>>

\* handle_signed_vote: at height 0, before a status, every vote is obsolete;
\* after one those of the file are late, and none is early.
ReplaySignedVote ==
  LET m == Head(iter).msg
  IN  /\ Head(iter).type = "raw_bytes" /\ ReplayGoesOn
      /\ \/ Obsolete(m.vote.height) /\ UNCHANGED <<votes, core>>
         \/ TakeVote(m)
      /\ UNCHANGED <<alive, chain, proof, blocks, caches, bft_recv, async_recv, history, wal>>

\* handle_rich_status: the core gets the status, but no Start, and the cached
\* messages stay cached.
ReplayRichStatus_unlisted ==
  LET st == Head(iter).msg
  IN  /\ Head(iter).type = "rich_status" /\ ReplayGoesOn /\ ~Outdated(st.height)
      /\ GotoNewHeight(st.height)
      /\ core' = CoreStatus(core, st)
      /\ wal' = SetHeight(wal, st.height + 1)
      /\ UNCHANGED <<alive, authority, consensus_power, votes, proof, caches, bft_recv, async_recv,
                     history>>

ReplayRichStatus ==
  LET st == Head(iter).msg
  IN  /\ Head(iter).type = "rich_status" /\ ReplayGoesOn
      /\ IF Outdated(st.height)
         THEN UNCHANGED <<authority, verified_block, block_origin_cache, height, core, wal>>
         ELSE /\ authority' = UpdateAuthority(authority, height, st.authority_list)
              /\ GotoNewHeight(st.height)
              /\ core' = CoreStatus(core, st)
              /\ wal' = SetHeight(wal, st.height + 1)
      /\ UNCHANGED <<alive, consensus_power, votes, proof, caches, bft_recv, async_recv, history>>

ReplayFeed ==
  LET f == Head(iter).msg
  IN  /\ Head(iter).type = "feed" /\ ReplayGoesOn
      /\ core' = CoreFeed(core, f.height, f.content)
      /\ block_origin_cache' = block_origin_cache \cup {f.content}
      /\ UNCHANGED <<alive, chain, votes, proof, verified_block, caches, bft_recv, async_recv,
                     history, wal>>

ReplayVerifyResp ==
  LET vr == Head(iter).msg
  IN  /\ Head(iter).type = "verify_resp" /\ ReplayGoesOn
      /\ core' = CoreVerifyResp(core, vr.proposal, vr.is_pass)
      /\ verified_block' = Remember(vr.proposal, vr.is_pass)
      /\ UNCHANGED <<alive, chain, votes, proof, block_origin_cache, caches, bft_recv, async_recv,
                     history, wal>>

ReplayOwn ==
  /\ \/ /\ Head(iter).type = "proposal" /\ HandleProposal(Head(iter).msg)
     \/ /\ Head(iter).type = "vote" /\ HandleVote(Head(iter).msg) /\ UNCHANGED async_recv
  /\ ReplayGoesOn
  /\ UNCHANGED <<alive, chain, proof, blocks, caches, bft_recv, core, commits, wal>>

\* handle_commit, which saves the commit again, and function.commit; the
\* status it answers with is dropped.
ReplayCommit ==
  LET c == Head(iter).msg
      commits_ == Append(commits, [height |-> c.height, result |-> c.proposal,
                                   proof |-> Generated(c)])
      done == ~Outdated(c.height) /\ c.proposal \in block_origin_cache /\ Provable(c)
  IN  /\ Head(iter).type = "commit"
      /\ votes' = IF ~Outdated(c.height) /\ c.proposal \in block_origin_cache
                  THEN Looked(votes, c.height, c.round) ELSE votes
      /\ proof' = IF done THEN Generated(c) ELSE proof
      /\ \E ok \in {TRUE, "commit" \notin Faults} :
           /\ commits' = IF done /\ ok THEN commits_ ELSE commits
           /\ IF done /\ ~ok THEN ReplayFails ELSE ReplayGoesOn
      /\ wal' = SaveCommit(c)
      /\ UNCHANGED <<alive, chain, blocks, caches, bft_recv, async_recv, core, transmitted>>

ReplayRecord ==
  /\ alive /\ pc = "replay" /\ iter # <<>>
  /\ \/ ReplayUnreadable \/ ReplaySignedVote \/ ReplayRichStatus \/ ReplayFeed
     \/ ReplayVerifyResp \/ ReplayOwn \/ ReplayCommit

ReplayDone ==
  /\ alive /\ pc = "replay" /\ iter = <<>> /\ pc' = "select"
  /\ UNCHANGED <<alive, iter, chain, votes, proof, blocks, caches, bft_recv, async_recv, core,
                 history, wal>>

-----------------------------------------------------------------------------
(* The process ends, and a new one loads the log. *)

\* What the engine may be saving just now, as height and record.
Saving ==
  LET o == Head(bft_recv)
      own == CASE o.type = "Vote" -> {<<o.vote.height, Record("vote", o.vote)>>}
               [] o.type = "Commit" -> {<<o.commit.height, Record("commit", o.commit)>>}
               [] OTHER -> {}
      status == {<<h, Record("rich_status", StatusOf(h))>> : h \in chain_height .. MaxHeight}
  IN  IF ~Idle THEN {}
      ELSE {s \in status \cup (IF bft_recv = <<>> THEN {} ELSE own) : ~Outdated(s[1])}

\* Consensus::new on what is left; Wal::new opens the current height only.
Reboot(w) ==
  /\ alive' = TRUE /\ pc' = "replay" /\ iter' = Load(w.files, w.current)
  /\ height' = 0 /\ authority' = InitAuthority /\ consensus_power' = FALSE
  /\ votes' = EmptyCollector /\ proof' = NoProof
  /\ verified_block' = NoVerdicts /\ block_origin_cache' = {}
  /\ proposal_cache' = [h \in Heights |-> <<>>]
  /\ vote_cache' = [h \in Heights |-> <<>>]
  /\ bft_recv' = <<>> /\ async_recv' = <<>>
  /\ core' = InitCore
  /\ wal' = [w EXCEPT !.open = {w.current}]

Highest(cs) == Max({0} \cup {cs[i].height : i \in DOMAIN cs})

StopsBetween == UNCHANGED history /\ Reboot(wal)

\* A vote is sent before it is saved.
StopsInSave_sent ==
  /\ Idle /\ bft_recv # <<>> /\ Head(bft_recv).type = "Vote"
  /\ ~Outdated(Head(bft_recv).vote.height)
  /\ transmitted' = transmitted \cup
       {[type |-> "SignedVote", signed |-> [vote |-> Head(bft_recv).vote, signature |-> Self]]}
  /\ UNCHANGED commits /\ Reboot(wal)

\* A record is written but for its end, or all of it is, and nothing of what
\* follows is done.
StopsInSave ==
  /\ \E s \in Saving, n \in 2 .. 3 : Reboot(Put(wal, s[1], SubSeq(Written(s[2]), 1, n)))
  /\ UNCHANGED history

\* The application has committed, and its status may be saved but is not followed.
StopsAfterCommit ==
  /\ Idle /\ bft_recv # <<>> /\ Head(bft_recv).type = "Commit"
  /\ LET c == Head(bft_recv).commit
     IN  /\ ~Outdated(c.height) /\ c.proposal \in block_origin_cache /\ Provable(c)
         /\ commits' = Append(commits, [height |-> c.height, result |-> c.proposal,
                                        proof |-> Generated(c)])
         /\ \/ Reboot(SaveCommit(c))
            \/ Reboot(SaveStatus(SaveCommit(c), StatusOf(c.height)))
  /\ UNCHANGED transmitted

\* The chain that the next process is told of is as high as the last one knew.
Crash ==
  /\ crashes < MaxCrashes /\ crashes' = crashes + 1
  /\ StopsBetween \/ StopsInSave \/ StopsAfterCommit
  /\ chain_height' = Max({chain_height, Highest(commits')} \cup {h \in 0 .. MaxHeight : h < height})

-----------------------------------------------------------------------------
Runs ==
  \/ (StartVotes \/ StatusDone \/ ProcessGetProposalRequest \/ CoreEmit) /\ UNCHANGED wal
  \/ SavedReplayVote \/ SavedVerifyResp \/ SavedFeed
  \/ SavedProcessProposal \/ SavedProcessVote \/ SavedProcessCommit
  \/ \E m \in PeerVotes : SavedReceiveSignedVote(m)
  \/ \E m \in PeerProposals : SavedReceiveSignedProposal(m)
  \/ \E h \in 0 .. MaxHeight : SavedReceiveStatus(h)

\* A second process may feed and vote as the first did.
InBounds(file) ==
  LET record == Last(file).of
      copies == {i \in DOMAIN file : file[i] = LenCell(record)}
  IN  Cardinality(copies) <= IF record.type \in {"feed", "vote"}
                             THEN MaxCopies + crashes ELSE MaxCopies

RecNext ==
  \/ /\ Runs /\ UNCHANGED <<recovery, unsaved>>
     /\ \A h \in DOMAIN wal.files :
          Len(wal'.files[h]) > Len(wal.files[h]) => InBounds(wal'.files[h])
  \/ (ReplayRecord \/ ReplayDone) /\ UNCHANGED <<recovery, unsaved>>
  \/ SaveFails
  \/ Crash /\ UNCHANGED unsaved

RecSpec == RecInit /\ [][RecNext]_rvars

-----------------------------------------------------------------------------
(* Properties *)

\* A record of each type of WalTypes that is written.
LogRecord ==
  [type : {"raw_bytes"}, msg : SignedVote, len : {1}]
  \cup [type : {"rich_status"}, msg : Status, len : {1}]
  \cup [type : {"signed_proposal"}, msg : SignedProposal, len : {1}]
  \cup [type : {"verify_resp"}, msg : {m \in AsyncMsg : m.type = "VerifyResp"}, len : {1}]
  \cup [type : {"feed"}, msg : {m \in AsyncMsg : m.type = "Feed"}, len : {1}]
  \cup [type : {"proposal"}, msg : BftProposal, len : {1}]
  \cup [type : {"vote"}, msg : Vote, len : {1}]
  \cup [type : {"commit"}, msg : BftCommit, len : {1}]

WalState ==
  [files : [0 .. MaxHeight + 2 -> Seq(LogCells(LogRecord))],
   open : SUBSET (0 .. MaxHeight + 2), current : Heights]

\* The engine is as well formed as without the log, what it replays are records
\* of the log, or junk, and the file of the current height is open.
RecTypeOK ==
  /\ pc \in {"select", "proposals", "votes", "replay"}
  /\ iter \in CASE pc = "proposals" -> Seq(ProposalMsg)
               [] pc = "replay" -> Seq(LogRecord \cup {Junk})
               [] OTHER -> Seq(SignedVote)
  /\ alive \in BOOLEAN /\ height \in Heights /\ authority \in AuthorityManage
  /\ consensus_power \in BOOLEAN
  /\ votes \in VoteCollector /\ proof \in Proof \cup {NoProof}
  /\ verified_block \in UNION {[S -> BOOLEAN] : S \in SUBSET Hashes}
  /\ block_origin_cache \in SUBSET Hashes
  /\ proposal_cache \in [Heights -> Seq(ProposalMsg)]
  /\ vote_cache \in [Heights -> Seq(SignedVote)]
  /\ bft_recv \in Seq(CoreOutput) /\ async_recv \in Seq(AsyncMsg)
  /\ core \in CoreState
  /\ commits \in Seq(Commit) /\ transmitted \in SUBSET Transmission
  /\ wal \in WalState /\ wal.current \in wal.open
  /\ chain_height \in Heights

\* The records that were written to the end.
Complete(file) ==
  {file[i].of : i \in {j \in DOMAIN file : file[j].kind = "body" /\ file[j].at = file[j].of.len}}

\* What leaves the node is in its log first, wherever the process ends: every
\* vote sent and the block of every height handed to the application is
\* recorded in the file of its height, as long as that is kept.  The record may lie
\* behind a torn header, where Wal::load does not reach it.
WriteAhead ==
  /\ \A t \in transmitted :
       (t.type = "SignedVote" /\ t.signed.vote.height + DELETE_FILE_INTERVAL >= wal.current)
         => Record("vote", t.signed.vote) \in Complete(wal.files[t.signed.vote.height])
  /\ \A k \in DOMAIN commits :
       commits[k].height + DELETE_FILE_INTERVAL >= wal.current =>
         \E e \in Complete(wal.files[commits[k].height]) :
           e.type = "commit" /\ e.msg.proposal = commits[k].result

\* A process that starts finds the log of the height the application is about
\* to decide, or of the one it has just committed, and never an older one,
\* wherever the last process ended.
LogIsCurrent == wal.current >= Highest(commits)

\* "Consensus successfully processes the whole wal log!" (consensus.rs:1184): a
\* vote that the last process logged for the height it was deciding is
\* collected again when its record is loaded.
LoggedVotesCollected ==
  [][(pc = "replay" /\ iter # <<>> /\ Head(iter).type = "raw_bytes" /\ pc' = "replay") =>
       LET v == Head(iter).msg.vote
       IN  Holds(votes', v.height, v.round, v.vote_type, v)]_rvars
=============================================================================
